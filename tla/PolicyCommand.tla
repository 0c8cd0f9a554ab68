---------------------------- MODULE PolicyCommand ----------------------------
(***************************************************************************)
(* A DataOwner (data-owner.cpp) commanding a Producer over the network.    *)
(* A command is a signed Interest that lives for a second; the network may *)
(* delay it beyond that, reorder it, repeat it, lose it or its reply, or   *)
(* nack it.  The Producer checks a command's signature, not whether it has *)
(* acted on it before; the owner checks nothing but the name of a reply.   *)
(***************************************************************************)
EXTENDS Producer, FiniteSets

CONSTANTS
  Command,               \* calls of commandProducerPolicy
  PrefixOf, RuleOf,      \* what each of them commands
  MaxDisturbances        \* bound: Interests repeated and replies by others, together

VARIABLES
  issuedCommands,        \* history: the calls made, in order
  patient,               \* history: each call awaited an answer to those before
  interests,             \* command Interests on their way
  replies,               \* the Producer's replies on their way: <<command, content>>
  outcome,               \* the callbacks each call has received, in order
  applied,               \* history: the commands the Producer acted on, in order
  repeated,              \* history: the commands put on their way once more, in order
  byOthers               \* history: the commands concluded by Data not of the Producer

network == <<interests, replies, repeated>>
owner == <<issuedCommands, patient, outcome, byOthers>>
commandVars == <<network, owner, applied>>
allVars == <<producerVars, commandVars>>

Outcomes == {"success", "register failed", "nack", "time out"}

ASSUME PolicyCommandAssumption ==
  /\ PrefixOf \in [Command -> Prefix]
  /\ RuleOf \in [Command -> Rule]
  /\ MaxDisturbances \in Nat

Commands == ToSet(issuedCommands)
Waiting(c) == c \in Commands /\ outcome[c] = <<>>

Init ==
  /\ ProducerInit
  /\ issuedCommands = <<>> /\ patient = TRUE /\ interests = {} /\ replies = {}
  /\ outcome = [c \in Command |-> <<>>]
  /\ applied = <<>> /\ repeated = <<>> /\ byOthers = {}

Conclude(c, result) == outcome' = [outcome EXCEPT ![c] = Append(@, result)]

(* What the owner makes of a reply: only the content is looked at.          *)
Reading(content) == IF content = "success" THEN "success" ELSE "register failed"

(* commandProducerPolicy signs a command and expresses it.                  *)
CommandProducerPolicy(c) ==
  /\ c \notin Commands
  /\ patient' = (patient /\ \A d \in Commands : outcome[d] # <<>> /\ outcome[d] # <<"time out">>)
  /\ issuedCommands' = Append(issuedCommands, c)
  /\ interests' = interests \cup {c}
  /\ UNCHANGED <<producerVars, replies, outcome, applied, repeated, byOthers>>

(* Mutant: a reply that came with no parameters to hand says "success".     *)
RepliesAtOnce(c) ==
  /\ c \in interests
  /\ interests' = interests \ {c}
  /\ OnPolicyInterest(PrefixOf[c], RuleOf[c])
  /\ replies' = replies \cup {<<c, "success">>}
  /\ applied' = IF Reply = "success" THEN Append(applied, c) ELSE applied
  /\ UNCHANGED <<owner, repeated>>

(* The Producer acts on a command and replies in the same handler, whether  *)
(* it has met the command before or not.                                    *)
DeliverInterest(c) ==
  /\ c \in interests
  /\ interests' = interests \ {c}
  /\ OnPolicyInterest(PrefixOf[c], RuleOf[c])
  /\ replies' = replies \cup {<<c, Reply>>}
  /\ applied' = IF Reply = "success" THEN Append(applied, c) ELSE applied
  /\ UNCHANGED <<owner, repeated>>

(* Mutant: the face still delivers a reply after the Interest's time out.   *)
DeliversLate(c) ==
  \E content \in {"success", "failure"} :
    /\ <<c, content>> \in replies
    /\ replies' = replies \ {<<c, content>>}
    /\ Conclude(c, Reading(content))
    /\ UNCHANGED <<producerVars, interests, issuedCommands, patient, applied, repeated, byOthers>>

(* A reply the owner still waits for ends the command, a late one is lost.  *)
DeliverReply(c) ==
  \E content \in {"success", "failure"} :
    /\ <<c, content>> \in replies
    /\ replies' = replies \ {<<c, content>>}
    /\ \/ Waiting(c) /\ Conclude(c, Reading(content))
       \/ ~ Waiting(c) /\ UNCHANGED outcome
    /\ UNCHANGED <<producerVars, interests, issuedCommands, patient, applied, repeated, byOthers>>

MayDisturb == Len(repeated) + Cardinality(byOthers) < MaxDisturbances

(* Anybody's Data of the command's name ends it as well: the owner verifies *)
(* no signature.                                                            *)
AnotherReplies(c) ==
  /\ Waiting(c) /\ MayDisturb
  /\ \E content \in {"success", "failure"} : Conclude(c, Reading(content))
  /\ byOthers' = byOthers \cup {c}
  /\ UNCHANGED <<producerVars, network, issuedCommands, patient, applied>>

(* The network turns the Interest back.                                     *)
OnNack(c) ==
  /\ c \in interests /\ Waiting(c)
  /\ interests' = interests \ {c}
  /\ Conclude(c, "nack")
  /\ UNCHANGED <<producerVars, replies, issuedCommands, patient, applied, repeated, byOthers>>

(* Mutant: a time out expresses the Interest again.                         *)
ReExpresses(c) ==
  /\ Waiting(c)
  /\ interests' = interests \cup {c}
  /\ UNCHANGED <<producerVars, replies, owner, applied, repeated>>

(* The lifetime ends, wherever the Interest or its reply may be.            *)
OnTimeout(c) ==
  /\ Waiting(c)
  /\ Conclude(c, "time out")
  /\ UNCHANGED <<producerVars, network, issuedCommands, patient, applied, byOthers>>

(* An Interest that was sent is put on its way once more: while it is, or   *)
(* after it was delivered, lost or nacked.                                  *)
RepeatInterest(c) ==
  /\ c \in Commands /\ MayDisturb
  /\ interests' = interests \cup {c}
  /\ repeated' = Append(repeated, c)
  /\ UNCHANGED <<producerVars, replies, owner, applied>>

LoseInterest(c) ==
  /\ c \in interests
  /\ interests' = interests \ {c}
  /\ UNCHANGED <<producerVars, replies, owner, applied, repeated>>

LoseReply(c) ==
  /\ \E content \in {"success", "failure"} :
       <<c, content>> \in replies /\ replies' = replies \ {<<c, content>>}
  /\ UNCHANGED <<producerVars, interests, owner, applied, repeated>>

Next ==
  \/ ProducerStep /\ UNCHANGED commandVars
  \/ \E c \in Command :
       \/ CommandProducerPolicy(c) \/ DeliverInterest(c) \/ DeliverReply(c)
       \/ AnotherReplies(c) \/ OnNack(c) \/ OnTimeout(c)
       \/ RepeatInterest(c) \/ LoseInterest(c) \/ LoseReply(c)

(* The face ends every Interest it has expressed, by a time out at the latest. *)
Fairness == \A c \in Command : WF_allVars(OnTimeout(c))

Spec == Init /\ [][Next]_allVars
FairSpec == Spec /\ Fairness
-----------------------------------------------------------------------------
(* Every variable keeps its type; a call is concluded at most once.         *)
CommandTypeOK ==
  /\ issuedCommands \in Seq(Command) /\ applied \in Seq(Command)
  /\ patient \in BOOLEAN
  /\ interests \subseteq Command
  /\ replies \subseteq Command \X {"success", "failure"}
  /\ outcome \in [Command -> Seq(Outcomes)]
  /\ repeated \in Seq(Command) /\ byOthers \subseteq Command
  /\ \A c \in Command : Len(outcome[c]) <= 1 /\ (outcome[c] # <<>> => c \in Commands)

(* An answer not given by others tells the owner what became of its command: *)
(* success that it was acted on, however often; a failure or a nack that it  *)
(* was not and never will be, unless its Interest was put on its way again.  *)
(* (A time out tells nothing, an answer by others whatever they like.)       *)
AnswersAreTrue ==
  \A c \in Command \ byOthers :
    /\ outcome[c] = <<"success">> => c \in ToSet(applied)
    /\ outcome[c] \in {<<"register failed">>, <<"nack">>} =>
         c \notin ToSet(applied) \cup interests \/ c \in ToSet(repeated)

(* The rule of the last command at these places of a log, if there is one.  *)
IsLastRule(rule, log, places) ==
  IF places = {} THEN rule = Unset
  ELSE \E i \in places : rule = RuleOf[log[i]] /\ \A j \in places : j <= i

For(p, log) == {i \in DOMAIN log : PrefixOf[log[i]] = p}

(* The Producer's table is that of the commands it acted on, the last of    *)
(* each prefix, whatever was reordered, lost or late.                       *)
TableFollowsCommands ==
  \A p \in Prefix : IsLastRule(InForce[p], applied, For(p, applied))

Acked(p) == {i \in For(p, issuedCommands) : outcome[issuedCommands[i]] = <<"success">>}
AckedByProducer(p) == {i \in Acked(p) : issuedCommands[i] \notin byOthers}
Doubtful == {c \in Commands : outcome[c] \in {<<>>, <<"time out">>}}
Disturbed == byOthers \cup ToSet(repeated)

(* An owner that has awaited each reply, and stopped at a time out, knows   *)
(* the rule in force for a prefix: that of its last command the Producer    *)
(* itself acknowledged, or of the one command that is open or timed out.    *)
(* Nothing but a command for the same prefix that was repeated or that      *)
(* others replied to can make it another one, and then it is that command's. *)
AckedInForce ==
  patient => \A p \in Prefix :
    \/ IsLastRule(InForce[p], issuedCommands, AckedByProducer(p))
    \/ \E c \in Doubtful \cup Disturbed : PrefixOf[c] = p /\ InForce[p] = RuleOf[c]

(* "This function will automatically find the policy that is previously     *)
(* obtained from the command issued by the data owner" (README.md).  An     *)
(* owner with all its answers knows the rule its Producer finds for a name: *)
(* that of its last successful command for the name's longest prefix with   *)
(* one, and no rule when it has none (or only one for the root).  It takes  *)
(* that no command for a prefix of the name was repeated, and none answered *)
(* by others.                                                               *)
OwnerKnowsMatch ==
  patient /\ Doubtful = {} =>
    \A n \in DataName :
      LET acked == {p \in Prefix \ {<<>>} : IsPrefix(p, n) /\ Acked(p) # {}}
      IN  \/ \E c \in Disturbed : IsPrefix(PrefixOf[c], n)
          \/ acked = {} /\ FindMatched(Table, n) = NoRule
          \/ \E p \in acked :
               /\ \A q \in acked : Len(q) <= Len(p)
               /\ IsLastRule(FindMatched(Table, n), issuedCommands, Acked(p))

(* Again and again the owner waits for nothing: every command is concluded, *)
(* one way or another, since calls are limited and a conclusion is final.   *)
EveryCommandConcludes == []<>(\A c \in Command : ~ Waiting(c))
=============================================================================
