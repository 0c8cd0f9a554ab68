------------------------- MODULE PolicyCommandProofs -------------------------
(* Proofs about the DataOwner and its commands, for any number of commands, *)
(* prefixes and rules, and any behaviour of the network.                    *)
EXTENDS PolicyCommand, ProducerProofs

(* What the messages on their way say, and the logs record: of a command    *)
(* that was not repeated, its Interest and its failure that the Producer    *)
(* has not acted on it.                                                     *)
NetworkInv ==
  /\ \A i, j \in DOMAIN issuedCommands : issuedCommands[i] = issuedCommands[j] => i = j
  /\ interests \subseteq Commands /\ ToSet(applied) \subseteq Commands
  /\ \A c \in Command : <<c, "success">> \in replies => c \in ToSet(applied)
  /\ \A c \in Command \ ToSet(repeated) :
       /\ c \in interests => c \notin ToSet(applied)
       /\ <<c, "failure">> \in replies => c \in Commands \ (ToSet(applied) \cup interests)

(* The inductive invariant, but for the order of commands.                  *)
CommandInv == IInv /\ CommandTypeOK /\ NetworkInv /\ AnswersAreTrue

(* Appending to a log adds to what is in it, and to the places of one       *)
(* prefix; the command at a last place gives the rule.                      *)
LEMMA LogAppended ==
  ASSUME NEW log \in Seq(Command), NEW c \in Command
  PROVE  /\ Append(log, c) \in Seq(Command)
         /\ ToSet(Append(log, c)) = ToSet(log) \cup {c}
         /\ Len(log) \in Nat /\ DOMAIN log = 1..Len(log)
         /\ DOMAIN Append(log, c) = 1..(Len(log) + 1)
         /\ Append(log, c)[Len(log) + 1] = c
         /\ \A i \in 1..Len(log) : Append(log, c)[i] = log[i]
<1> DEFINE after == Append(log, c)
<1>1. /\ after \in Seq(Command) /\ Len(after) = Len(log) + 1
      /\ \A i \in 1..Len(log) : after[i] = log[i]
      /\ after[Len(log) + 1] = c
  BY AppendProperties
<1>2. Len(log) \in Nat /\ DOMAIN log = 1..Len(log)
  BY LenProperties
<1>3. DOMAIN after = 1..(Len(log) + 1)
  <2> HIDE DEF after
  <2> QED BY <1>1, LenProperties
<1>4. ToSet(after) = ToSet(log) \cup {c}
  <2> HIDE DEF after
  <2>1. 1..(Len(log) + 1) = 1..Len(log) \cup {Len(log) + 1}
    BY <1>2
  <2> QED BY <1>1, <1>2, <1>3, <2>1 DEF ToSet
<1> QED BY <1>1, <1>2, <1>3, <1>4

(* A log without repetitions stays one when a new command is appended. *)
LEMMA NoRepeatAppended ==
  ASSUME NEW log \in Seq(Command), NEW c \in Command \ ToSet(log),
         \A i, j \in DOMAIN log : log[i] = log[j] => i = j
  PROVE  \A i, j \in DOMAIN Append(log, c) : Append(log, c)[i] = Append(log, c)[j] => i = j
<1> DEFINE after == Append(log, c)
<1>1. /\ Len(log) \in Nat /\ DOMAIN log = 1..Len(log) /\ DOMAIN after = 1..(Len(log) + 1)
      /\ after[Len(log) + 1] = c
      /\ \A i \in 1..Len(log) : after[i] = log[i]
  BY LogAppended
<1>2. \A i \in 1..Len(log) : log[i] # c
  BY <1>1 DEF ToSet
<1> HIDE DEF after
<1> QED BY <1>1, <1>2

(* The initial states satisfy CommandInv. *)
LEMMA InitCommandInv == Init => CommandInv
<1> SUFFICES ASSUME Init PROVE CommandInv
  OBVIOUS
<1> USE DEF Init
<1>1. <<>> \in Seq(Command) /\ <<>> \in Seq(Outcomes) /\ DOMAIN <<>> = {} /\ Len(<<>>) = 0
  BY EmptySeq
<1>2. IInv
  BY InitIInv
<1>3. CommandTypeOK
  BY <1>1 DEF CommandTypeOK
<1>4. NetworkInv
  BY <1>1 DEF NetworkInv, Commands, ToSet
<1>5. AnswersAreTrue
  <2>1. <<>> # <<"success">> /\ <<>> # <<"register failed">> /\ <<>> # <<"nack">>
    BY <1>1
  <2> QED BY <2>1 DEF AnswersAreTrue
<1> QED BY <1>2, <1>3, <1>4, <1>5 DEF CommandInv

(* The outcome of a call that waits becomes the one it is concluded with.   *)
LEMMA Concluded ==
  ASSUME CommandTypeOK, NEW c \in Command, Waiting(c), NEW result \in Outcomes, Conclude(c, result)
  PROVE  /\ outcome' = [outcome EXCEPT ![c] = <<result>>]
         /\ outcome'[c] = <<result>> /\ outcome' \in [Command -> Seq(Outcomes)]
         /\ Len(outcome'[c]) <= 1
<1>1. outcome[c] = <<>> /\ outcome \in [Command -> Seq(Outcomes)]
  BY DEF Waiting, CommandTypeOK
<1>2. Append(<<>>, result) = <<result>> /\ <<result>> \in Seq(Outcomes) /\ Len(<<result>>) = 1
  OBVIOUS
<1> QED BY <1>1, <1>2 DEF Conclude

(* What is called is a command. *)
LEMMA CommandsCalled == CommandTypeOK => Commands \subseteq Command
<1> SUFFICES ASSUME CommandTypeOK PROVE Commands \subseteq Command
  OBVIOUS
<1>1. issuedCommands \in Seq(Command) /\ DOMAIN issuedCommands = 1..Len(issuedCommands)
  BY LenProperties DEF CommandTypeOK
<1>2. \A i \in DOMAIN issuedCommands : issuedCommands[i] \in Command
  BY <1>1, ElementOfSeq
<1> QED BY <1>2 DEF Commands, ToSet

(* Every step of the Producer is one of ProducerNext, or none.              *)
LEMMA StepIsProducerStep == [Next]_allVars => [ProducerNext]_producerVars
BY PolicyCommandAssumption DEF Next, allVars, CommandProducerPolicy, DeliverInterest, DeliverReply,
   AnotherReplies, OnNack, OnTimeout, RepeatInterest, LoseInterest, LoseReply, ProducerNext, PolicyCommandAssumption
-----------------------------------------------------------------------------
(* The calls: one more, whose Interest sets out.                            *)
LEMMA CallCommandInv ==
  ASSUME CommandInv, IInv', NEW c \in Command, CommandProducerPolicy(c)
  PROVE  CommandInv'
<1> USE DEF CommandInv, CommandProducerPolicy, producerVars
<1>1. issuedCommands \in Seq(Command) /\ issuedCommands' = Append(issuedCommands, c)
  BY DEF CommandTypeOK
<1>2. issuedCommands' \in Seq(Command) /\ Commands' = Commands \cup {c}
  BY <1>1, LogAppended DEF Commands
<1>3. c \notin Commands /\ c \notin ToSet(applied)
  BY DEF NetworkInv
<1>4. CommandTypeOK'
  BY <1>2 DEF CommandTypeOK
<1>5. NetworkInv'
  <2>1. \A i, j \in DOMAIN issuedCommands' : issuedCommands'[i] = issuedCommands'[j] => i = j
    <3>1. \A i, j \in DOMAIN issuedCommands : issuedCommands[i] = issuedCommands[j] => i = j
      BY DEF NetworkInv
    <3> QED BY <1>1, <1>3, <3>1, NoRepeatAppended DEF Commands
  <2>2. interests' \subseteq Commands' /\ ToSet(applied') \subseteq Commands'
    BY <1>2, <1>3 DEF NetworkInv
  <2>3. \A d \in Command : <<d, "success">> \in replies' => d \in ToSet(applied')
    BY DEF NetworkInv
  <2>4. \A d \in Command \ ToSet(repeated') :
          /\ d \in interests' => d \notin ToSet(applied')
          /\ <<d, "failure">> \in replies' => d \in Commands' \ (ToSet(applied') \cup interests')
    BY <1>2, <1>3 DEF NetworkInv
  <2> QED BY <2>1, <2>2, <2>3, <2>4 DEF NetworkInv
<1>6. AnswersAreTrue'
  <2>1. outcome[c] = <<>>
    BY <1>3 DEF CommandTypeOK
  <2>2. <<>> # <<"success">> /\ <<>> # <<"register failed">> /\ <<>> # <<"nack">>
    BY EmptySeq
  <2> QED BY <2>1, <2>2 DEF AnswersAreTrue
<1> QED BY <1>4, <1>5, <1>6

(* The Producer acts on a command or does not, and its reply says so.       *)
LEMMA DeliverCommandInv ==
  ASSUME CommandInv, IInv', NEW c \in Command, DeliverInterest(c)
  PROVE  CommandInv'
<1> USE DEF CommandInv, DeliverInterest, owner
<1>1. Reply \in {"success", "failure"}
  BY DEF Reply
<1>2. applied \in Seq(Command) /\ Commands' = Commands /\ c \in Commands
  BY DEF CommandTypeOK, NetworkInv, Commands
<1>3. /\ applied' \in Seq(Command)
      /\ ToSet(applied') = IF Reply = "success" THEN ToSet(applied) \cup {c} ELSE ToSet(applied)
  BY <1>2, LogAppended
<1>4. CommandTypeOK'
  <2>1. replies' \subseteq Command \X {"success", "failure"}
    BY <1>1 DEF CommandTypeOK
  <2> QED BY <1>2, <1>3, <2>1 DEF CommandTypeOK
<1>5. NetworkInv'
  <2>1. interests' \subseteq Commands' /\ ToSet(applied') \subseteq Commands'
    BY <1>2, <1>3 DEF NetworkInv
  <2>2. ASSUME NEW d \in Command, <<d, "success">> \in replies' PROVE d \in ToSet(applied')
    <3>1. <<d, "success">> \in replies \/ (d = c /\ Reply = "success")
      BY <2>2
    <3> QED BY <1>3, <3>1 DEF NetworkInv
  <2>3. ASSUME NEW d \in Command \ ToSet(repeated'), <<d, "failure">> \in replies'
        PROVE  d \in Commands' \ (ToSet(applied') \cup interests')
    <3>1. CASE <<d, "failure">> \in replies
      <4>1. d # c
        BY <3>1 DEF NetworkInv
      <4> QED BY <1>2, <1>3, <3>1, <4>1 DEF NetworkInv
    <3>2. CASE d = c /\ Reply = "failure"
      BY <1>2, <1>3, <3>2 DEF NetworkInv
    <3> QED BY <2>3, <3>1, <3>2
  <2>4. ASSUME NEW d \in Command \ ToSet(repeated'), d \in interests' PROVE d \notin ToSet(applied')
    BY <1>3, <2>4 DEF NetworkInv
  <2>5. issuedCommands' = issuedCommands
    OBVIOUS
  <2> QED BY <2>1, <2>2, <2>3, <2>4, <2>5 DEF NetworkInv
<1>6. AnswersAreTrue'
  <2>1. ASSUME NEW d \in Command \ byOthers, outcome[d] \in {<<"register failed">>, <<"nack">>}
        PROVE  d # c \/ d \in ToSet(repeated)
    BY <2>1 DEF AnswersAreTrue
  <2> QED BY <1>3, <2>1 DEF AnswersAreTrue
<1> QED BY <1>4, <1>5, <1>6

(* A call that waits is concluded by what is true of its command, or by     *)
(* others.                                                                  *)
LEMMA ConcludeCommandInv ==
  ASSUME CommandInv, IInv', NEW c \in Command, Waiting(c), NEW result \in Outcomes,
         Conclude(c, result), UNCHANGED <<issuedCommands, patient, applied, repeated>>,
         replies' \subseteq replies, interests' \subseteq interests,
         byOthers' \in {byOthers, byOthers \cup {c}},
         c \notin byOthers' =>
           /\ result = "success" => c \in ToSet(applied)
           /\ result \in {"register failed", "nack"} =>
                c \notin ToSet(applied) \cup interests' \/ c \in ToSet(repeated)
  PROVE  CommandInv'
<1> USE DEF CommandInv
<1>1. /\ outcome' = [outcome EXCEPT ![c] = <<result>>] /\ outcome'[c] = <<result>>
      /\ outcome' \in [Command -> Seq(Outcomes)] /\ Len(outcome'[c]) <= 1
  BY Concluded
<1>2. Commands' = Commands /\ c \in Commands
  BY DEF Commands, Waiting
<1>3. \A d \in Command : d # c => outcome'[d] = outcome[d]
  BY <1>1 DEF CommandTypeOK
<1>4. CommandTypeOK'
  <2>1. ASSUME NEW d \in Command
        PROVE  Len(outcome'[d]) <= 1 /\ (outcome'[d] # <<>> => d \in Commands')
    <3>1. CASE d = c
      <4>1. Len(outcome'[d]) <= 1
        BY <1>1, <3>1, Zenon
      <4> QED BY <1>2, <3>1, <4>1
    <3>2. CASE d # c
      BY <1>2, <1>3, <3>2 DEF CommandTypeOK
    <3> QED BY <3>1, <3>2
  <2>2. /\ issuedCommands' \in Seq(Command) /\ applied' \in Seq(Command)
        /\ interests' \subseteq Command /\ replies' \subseteq Command \X {"success", "failure"}
        /\ repeated' \in Seq(Command) /\ byOthers' \subseteq Command
    BY DEF CommandTypeOK
  <2>3. patient' \in BOOLEAN
    BY DEF CommandTypeOK
  <2> QED BY <1>1, <2>1, <2>2, <2>3, Zenon DEF CommandTypeOK
<1>5. NetworkInv'
  BY <1>2 DEF NetworkInv
<1>6. AnswersAreTrue'
  <2>1. /\ outcome'[c] = <<"success">> => result = "success"
        /\ outcome'[c] \in {<<"register failed">>, <<"nack">>} => result \in {"register failed", "nack"}
    BY <1>1
  <2> QED BY <1>3, <2>1 DEF AnswersAreTrue
<1> QED BY <1>4, <1>5, <1>6

(* A step that leaves the logs and outcomes alone, and takes messages away. *)
LEMMA QuietCommandInv ==
  ASSUME CommandInv, IInv', UNCHANGED <<issuedCommands, patient, applied, outcome, repeated, byOthers>>,
         replies' \subseteq replies, interests' \subseteq interests
  PROVE  CommandInv'
<1> USE DEF CommandInv
<1>1. Commands' = Commands
  BY DEF Commands
<1>2. CommandTypeOK'
  BY <1>1 DEF CommandTypeOK
<1>3. NetworkInv'
  BY <1>1 DEF NetworkInv
<1>4. AnswersAreTrue'
  BY DEF AnswersAreTrue
<1> QED BY <1>2, <1>3, <1>4

(* An Interest that is on its way once more makes its command a repeated    *)
(* one, of which less is known.                                             *)
LEMMA RepeatCommandInv ==
  ASSUME CommandInv, IInv', NEW c \in Command, RepeatInterest(c)
  PROVE  CommandInv'
<1> USE DEF CommandInv, RepeatInterest, owner
<1>1. Commands' = Commands /\ c \in Commands
  BY DEF Commands
<1>2. repeated' \in Seq(Command) /\ ToSet(repeated') = ToSet(repeated) \cup {c}
  BY LogAppended DEF CommandTypeOK
<1>3. CommandTypeOK'
  BY <1>1, <1>2 DEF CommandTypeOK
<1>4. NetworkInv'
  <2>1. \A i, j \in DOMAIN issuedCommands' : issuedCommands'[i] = issuedCommands'[j] => i = j
    BY DEF NetworkInv
  <2>2. interests' \subseteq Commands' /\ ToSet(applied') \subseteq Commands'
    BY <1>1 DEF NetworkInv
  <2>3. \A d \in Command : <<d, "success">> \in replies' => d \in ToSet(applied')
    BY DEF NetworkInv
  <2>4. \A d \in Command \ ToSet(repeated') :
          /\ d \in interests' => d \notin ToSet(applied')
          /\ <<d, "failure">> \in replies' => d \in Commands' \ (ToSet(applied') \cup interests')
    BY <1>1, <1>2 DEF NetworkInv
  <2> QED BY <2>1, <2>2, <2>3, <2>4 DEF NetworkInv
<1>5. AnswersAreTrue'
  BY <1>2 DEF AnswersAreTrue
<1> QED BY <1>3, <1>4, <1>5

(* Every step keeps CommandInv, one case per action. *)
LEMMA StepCommandInv == CommandInv /\ [Next]_allVars => CommandInv'
<1> SUFFICES ASSUME CommandInv, [Next]_allVars PROVE CommandInv'
  OBVIOUS
<1>1. IInv'
  BY StepIsProducerStep, StepIInv DEF CommandInv
<1>2. CASE (ProducerStep /\ UNCHANGED commandVars) \/ UNCHANGED allVars
  BY <1>1, <1>2, QuietCommandInv DEF allVars, commandVars, network, owner
<1>3. ASSUME NEW c \in Command, CommandProducerPolicy(c) PROVE CommandInv'
  BY <1>1, <1>3, CallCommandInv
<1>4. ASSUME NEW c \in Command, DeliverInterest(c) PROVE CommandInv'
  BY <1>1, <1>4, DeliverCommandInv
<1>5. ASSUME NEW c \in Command, DeliverReply(c) PROVE CommandInv'
  <2>1. PICK content \in {"success", "failure"} :
          /\ <<c, content>> \in replies
          /\ \/ Waiting(c) /\ Conclude(c, Reading(content))
             \/ ~ Waiting(c) /\ UNCHANGED outcome
    BY <1>5 DEF DeliverReply
  <2>2. /\ replies' \subseteq replies /\ interests' \subseteq interests
        /\ UNCHANGED <<issuedCommands, patient, applied, repeated, byOthers>>
    BY <1>5 DEF DeliverReply
  <2>3. CASE Waiting(c) /\ content = "success"
    <3>1. c \in ToSet(applied) /\ Conclude(c, "success")
      BY <2>1, <2>3 DEF CommandInv, NetworkInv, Reading
    <3> QED BY <1>1, <2>2, <2>3, <3>1, ConcludeCommandInv DEF Outcomes
  <2>4. CASE Waiting(c) /\ content = "failure"
    <3>1. /\ c \notin ToSet(applied) \cup interests \/ c \in ToSet(repeated)
          /\ Conclude(c, "register failed")
      BY <2>1, <2>4 DEF CommandInv, NetworkInv, Reading
    <3> QED BY <1>1, <2>2, <2>4, <3>1, ConcludeCommandInv DEF Outcomes
  <2>5. CASE ~ Waiting(c)
    BY <1>1, <2>1, <2>2, <2>5, QuietCommandInv
  <2> QED BY <2>1, <2>3, <2>4, <2>5
<1>6. ASSUME NEW c \in Command, OnNack(c) PROVE CommandInv'
  <2>1. c \notin ToSet(applied) \cup interests' \/ c \in ToSet(repeated)
    BY <1>6 DEF OnNack, CommandInv, NetworkInv
  <2> QED BY <1>1, <1>6, <2>1, ConcludeCommandInv DEF OnNack, Outcomes
<1>7. ASSUME NEW c \in Command, OnTimeout(c) PROVE CommandInv'
  BY <1>1, <1>7, ConcludeCommandInv DEF OnTimeout, Outcomes, network
<1>8. ASSUME NEW c \in Command, LoseInterest(c) \/ LoseReply(c) PROVE CommandInv'
  BY <1>1, <1>8, QuietCommandInv DEF LoseInterest, LoseReply, owner
<1>9. ASSUME NEW c \in Command, AnotherReplies(c) PROVE CommandInv'
  <2>1. /\ Waiting(c) /\ byOthers' = byOthers \cup {c}
        /\ UNCHANGED <<issuedCommands, patient, applied, repeated, replies, interests>>
    BY <1>9 DEF AnotherReplies, network
  <2>2. PICK result \in {"success", "register failed"} : Conclude(c, result)
    BY <1>9 DEF AnotherReplies, Reading
  <2> QED BY <1>1, <2>1, <2>2, ConcludeCommandInv DEF Outcomes
<1>10. ASSUME NEW c \in Command, RepeatInterest(c) PROVE CommandInv'
  BY <1>1, <1>10, RepeatCommandInv
<1> QED BY <1>2, <1>3, <1>4, <1>5, <1>6, <1>7, <1>8, <1>9, <1>10 DEF Next

(* CommandInv holds throughout. *)
LEMMA CommandInvariance == Spec => []CommandInv
<1> QED BY InitCommandInv, StepCommandInv, PTL DEF Spec

(* Every variable keeps its type, and a call is concluded at most once.     *)
THEOREM CommandTypeCorrect == Spec => []CommandTypeOK
<1>1. CommandInv => CommandTypeOK
  BY DEF CommandInv
<1> QED BY <1>1, CommandInvariance, PTL

(* Whatever the network loses, delays, reorders or repeats, and whoever     *)
(* else replies: a command that is not concluded by others was acted on if  *)
(* the owner is told that it succeeded, and if it is told that it failed it *)
(* was not and will not be, but by being repeated.                          *)
THEOREM AnswersTrue == Spec => []AnswersAreTrue
<1>1. CommandInv => AnswersAreTrue
  BY DEF CommandInv
<1> QED BY <1>1, CommandInvariance, PTL
-----------------------------------------------------------------------------
(* What appending a command does to the places of a prefix, and to the rule *)
(* at the last of some places.                                              *)
LEMMA ForAppended ==
  ASSUME NEW log \in Seq(Command), NEW c \in Command, NEW p
  PROVE  /\ PrefixOf[c] = p => For(p, Append(log, c)) = For(p, log) \cup {Len(log) + 1}
         /\ PrefixOf[c] # p => For(p, Append(log, c)) = For(p, log)
<1> DEFINE after == Append(log, c)
<1>1. /\ Len(log) \in Nat /\ DOMAIN log = 1..Len(log) /\ DOMAIN after = 1..(Len(log) + 1)
      /\ after[Len(log) + 1] = c
      /\ \A i \in 1..Len(log) : after[i] = log[i]
  BY LogAppended
<1>2. 1..(Len(log) + 1) = 1..Len(log) \cup {Len(log) + 1}
  BY <1>1
<1> HIDE DEF after
<1>3. PrefixOf[c] = p => For(p, after) = For(p, log) \cup {Len(log) + 1}
  BY <1>1, <1>2 DEF For
<1>4. PrefixOf[c] # p => For(p, after) = For(p, log)
  BY <1>1, <1>2 DEF For
<1> QED BY <1>3, <1>4 DEF after

(* The last rule depends on the chosen entries of the log only. *)
LEMMA LastRuleKept ==
  ASSUME NEW log \in Seq(Command), NEW c \in Command, NEW places \in SUBSET DOMAIN log, NEW rule,
         IsLastRule(rule, log, places)
  PROVE  IsLastRule(rule, Append(log, c), places)
<1> DEFINE after == Append(log, c)
<1>1. \A i \in DOMAIN log : after[i] = log[i]
  BY LogAppended
<1> HIDE DEF after
<1>2. IsLastRule(rule, after, places)
  BY <1>1 DEF IsLastRule
<1> QED BY <1>2 DEF after

(* A command appended among the chosen entries becomes the last rule. *)
LEMMA LastRuleAppended ==
  ASSUME NEW log \in Seq(Command), NEW c \in Command, NEW places \in SUBSET DOMAIN log
  PROVE  IsLastRule(RuleOf[c], Append(log, c), places \cup {Len(log) + 1})
<1> DEFINE after == Append(log, c)
           last == Len(log) + 1
<1>1. Len(log) \in Nat /\ DOMAIN log = 1..Len(log) /\ after[last] = c
  BY LogAppended
<1>2. \A i \in places \cup {last} : i <= last
  BY <1>1
<1> HIDE DEF after, last
<1>3. IsLastRule(RuleOf[c], after, places \cup {last})
  BY <1>1, <1>2 DEF IsLastRule
<1> QED BY <1>3 DEF after, last

(* No entry of a log comes after its last one. *)
LEMMA LastIsLast == \A log \in Seq(Command) : \A j \in DOMAIN log : j <= Len(log)
<1> SUFFICES ASSUME NEW log \in Seq(Command), NEW j \in DOMAIN log PROVE j <= Len(log)
  OBVIOUS
<1> QED BY LenProperties

(* What a step of the system does to the rules in force.                    *)
LEMMA RulesInForce ==
  ASSUME CommandInv, NEW c \in Command, DeliverInterest(c)
  PROVE  InForce' = IF Reply = "success" THEN [InForce EXCEPT ![PrefixOf[c]] = RuleOf[c]]
                    ELSE InForce
<1>1. PrefixOf[c] \in Prefix /\ RuleOf[c] \in Rule
  BY PolicyCommandAssumption DEF PolicyCommandAssumption
<1>2. Reply = "success" <=> abeType \in {CpAbe, KpAbe}
  BY DEF Reply
<1> QED BY <1>1, <1>2, CommandSetsRule DEF DeliverInterest, CommandInv

(* A step that leaves the Producer's type and tables alone leaves InForce alone. *)
LEMMA RulesKept ==
  ASSUME CommandInv, [Next]_allVars, \A c \in Command : ~ DeliverInterest(c)
  PROVE  InForce' = InForce /\ applied' = applied
<1>1. ProducerStep \/ UNCHANGED producerVars
  BY DEF Next, allVars, CommandProducerPolicy, DeliverReply, AnotherReplies, OnNack, OnTimeout,
         RepeatInterest, LoseInterest, LoseReply
<1>2. InForce' = InForce
  BY <1>1, StepKeepsRules DEF CommandInv
<1>3. applied' = applied
  BY DEF Next, allVars, commandVars, CommandProducerPolicy, DeliverReply, AnotherReplies, OnNack,
     OnTimeout, RepeatInterest, LoseInterest, LoseReply
<1> QED BY <1>2, <1>3

(* Before any command no prefix has a rule. *)
LEMMA InitTableFollows == Init => TableFollowsCommands
<1> SUFFICES ASSUME Init PROVE TableFollowsCommands
  OBVIOUS
<1>1. Table = <<>> /\ DOMAIN <<>> = {} /\ applied = <<>>
  BY EmptySeq DEF Init, ProducerInit, Table
<1>2. \A p \in Prefix : InForce[p] = Unset /\ For(p, applied) = {}
  BY <1>1 DEF InForce, RuleFor, Entries, For
<1> QED BY <1>2 DEF TableFollowsCommands, IsLastRule

(* Every step keeps TableFollowsCommands. *)
LEMMA StepTableFollows ==
  CommandInv /\ TableFollowsCommands /\ [Next]_allVars => TableFollowsCommands'
<1> SUFFICES ASSUME CommandInv, TableFollowsCommands, [Next]_allVars, NEW p \in Prefix
             PROVE  IsLastRule(InForce'[p], applied', For(p, applied'))
  BY DEF TableFollowsCommands, IsLastRule, For, InForce
<1>1. applied \in Seq(Command) /\ For(p, applied) \in SUBSET DOMAIN applied
  BY DEF CommandInv, CommandTypeOK, For
<1>2. IsLastRule(InForce[p], applied, For(p, applied))
  BY DEF TableFollowsCommands
<1>3. ASSUME NEW c \in Command, DeliverInterest(c), Reply = "success"
      PROVE  IsLastRule(InForce'[p], applied', For(p, applied'))
  <2>1. applied' = Append(applied, c) /\ InForce' = [InForce EXCEPT ![PrefixOf[c]] = RuleOf[c]]
    BY <1>3, RulesInForce DEF DeliverInterest
  <2>2. CASE PrefixOf[c] = p
    <3>1. InForce'[p] = RuleOf[c]
      BY <2>1, <2>2 DEF InForce
    <3>2. For(p, applied') = For(p, applied) \cup {Len(applied) + 1}
      BY <1>1, <2>1, <2>2, ForAppended
    <3> QED BY <1>1, <2>1, <3>1, <3>2, LastRuleAppended
  <2>3. CASE PrefixOf[c] # p
    <3>1. InForce'[p] = InForce[p]
      BY <2>1, <2>3 DEF InForce
    <3>2. For(p, applied') = For(p, applied)
      BY <1>1, <2>1, <2>3, ForAppended
    <3> QED BY <1>1, <1>2, <2>1, <3>1, <3>2, LastRuleKept
  <2> QED BY <2>2, <2>3
<1>4. ASSUME NEW c \in Command, DeliverInterest(c), Reply # "success"
      PROVE  InForce' = InForce /\ applied' = applied
  BY <1>4, RulesInForce DEF DeliverInterest
<1> QED BY <1>2, <1>3, <1>4, RulesKept

(* The Producer's rule for a prefix is that of the last command for it that *)
(* was acted on, however the network ordered them.                          *)
THEOREM TableFollows == Spec => []TableFollowsCommands
<1> QED
  BY InitTableFollows, StepTableFollows, CommandInvariance, PTL DEF Spec
-----------------------------------------------------------------------------
(* A patient owner is in doubt about its last command at most, and knows    *)
(* the rule in force but for what that command did, and the disturbed ones. *)
KnowsBy(p) == \E c \in Doubtful \cap ToSet(applied) : PrefixOf[c] = p /\ InForce[p] = RuleOf[c]

KnowsLast(p) ==
  /\ \A c \in Doubtful \cap ToSet(applied) : PrefixOf[c] # p
  /\ IsLastRule(InForce[p], issuedCommands, AckedByProducer(p))

IsDisturbed(p) == \E c \in Disturbed : PrefixOf[c] = p /\ InForce[p] = RuleOf[c]

OwnerInv ==
  patient =>
    /\ \A i \in DOMAIN issuedCommands : issuedCommands[i] \in Doubtful => i = Len(issuedCommands)
    /\ \A p \in Prefix : KnowsBy(p) \/ KnowsLast(p) \/ IsDisturbed(p)

(* A patient owner has at most one command in doubt. *)
LEMMA OneDoubt ==
  ASSUME OwnerInv, patient, NEW c \in Doubtful
  PROVE  Doubtful = {c}
BY DEF OwnerInv, Doubtful, Commands, ToSet

(* The initial states satisfy OwnerInv. *)
LEMMA InitOwnerInv == Init => OwnerInv
<1> SUFFICES ASSUME Init PROVE OwnerInv
  OBVIOUS
<1>1. Table = <<>> /\ DOMAIN <<>> = {} /\ issuedCommands = <<>>
  BY EmptySeq DEF Init, ProducerInit, Table
<1>2. Doubtful = {}
  BY <1>1 DEF Doubtful, Commands, ToSet
<1>3. \A p \in Prefix : InForce[p] = Unset /\ AckedByProducer(p) = {}
  BY <1>1 DEF InForce, RuleFor, Entries, For, Acked, AckedByProducer
<1> QED BY <1>1, <1>2, <1>3 DEF OwnerInv, KnowsLast, IsLastRule

(* The next call is made when nothing is in doubt.                          *)
LEMMA CallOwnerInv ==
  ASSUME CommandInv, OwnerInv, patient', NEW c \in Command, CommandProducerPolicy(c),
         InForce' = InForce
  PROVE  OwnerInv'
<1>1. /\ issuedCommands \in Seq(Command) /\ issuedCommands' = Append(issuedCommands, c)
      /\ outcome' = outcome /\ applied' = applied /\ c \notin Commands
      /\ byOthers' = byOthers /\ repeated' = repeated
  BY DEF CommandInv, CommandTypeOK, CommandProducerPolicy
<1>2. Commands' = Commands \cup {c}
  BY <1>1, LogAppended DEF Commands
<1>3. outcome[c] = <<>> /\ c \notin ToSet(applied)
  BY <1>1 DEF CommandInv, CommandTypeOK, NetworkInv
<1>4. Doubtful = {} /\ patient
  BY DEF CommandProducerPolicy, Doubtful
<1>5. Doubtful' = {c}
  BY <1>1, <1>2, <1>3, <1>4 DEF Doubtful
<1>6. \A i \in DOMAIN issuedCommands' :
        issuedCommands'[i] \in Doubtful' => i = Len(issuedCommands')
  <2>1. /\ DOMAIN issuedCommands' = 1..(Len(issuedCommands) + 1)
        /\ \A i \in 1..Len(issuedCommands) : issuedCommands'[i] = issuedCommands[i]
        /\ Len(issuedCommands) \in Nat /\ DOMAIN issuedCommands = 1..Len(issuedCommands)
    BY <1>1, LogAppended
  <2>2. Len(issuedCommands') = Len(issuedCommands) + 1
    BY <1>1, AppendProperties
  <2>3. \A i \in 1..Len(issuedCommands) : issuedCommands'[i] # c
    BY <1>1, <2>1 DEF Commands, ToSet
  <2> QED BY <1>5, <2>1, <2>2, <2>3
<1>7. ASSUME NEW p \in Prefix, ~ IsDisturbed(p) PROVE KnowsLast(p)'
  <2>1. IsLastRule(InForce[p], issuedCommands, AckedByProducer(p))
    BY <1>4, <1>7 DEF OwnerInv, KnowsBy, KnowsLast
  <2>2. AckedByProducer(p) \in SUBSET DOMAIN issuedCommands
    BY DEF AckedByProducer, Acked, For
  <2>3. AckedByProducer(p)' = AckedByProducer(p)
    <3>1. /\ For(p, issuedCommands') \subseteq For(p, issuedCommands) \cup {Len(issuedCommands) + 1}
          /\ For(p, issuedCommands) \subseteq For(p, issuedCommands')
      <4>1. \/ For(p, Append(issuedCommands, c)) = For(p, issuedCommands) \cup {Len(issuedCommands) + 1}
            \/ For(p, Append(issuedCommands, c)) = For(p, issuedCommands)
        BY <1>1, ForAppended
      <4> QED BY <1>1, <4>1
    <3>2. /\ issuedCommands'[Len(issuedCommands) + 1] = c
          /\ \A i \in DOMAIN issuedCommands : issuedCommands'[i] = issuedCommands[i]
      BY <1>1, LogAppended
    <3>3. <<>> # <<"success">>
      BY EmptySeq
    <3>4. For(p, issuedCommands) \subseteq DOMAIN issuedCommands
      BY DEF For
    <3> DEFINE Success(i) == outcome[issuedCommands[i]] = <<"success">>
    <3>5. ASSUME NEW i \in For(p, issuedCommands')
          PROVE  outcome'[issuedCommands'[i]] = <<"success">> <=>
                   i \in For(p, issuedCommands) /\ Success(i)
      <4>1. CASE i \in For(p, issuedCommands)
        BY <1>1, <3>2, <3>4, <4>1
      <4>2. CASE i \notin For(p, issuedCommands)
        BY <1>1, <1>3, <3>1, <3>2, <3>3, <3>5, <4>2
      <4> QED BY <4>1, <4>2
    <3>6. \A i \in For(p, issuedCommands) : issuedCommands'[i] = issuedCommands[i]
      BY <3>2, <3>4
    <3> QED BY <1>1, <3>1, <3>5, <3>6 DEF Acked, AckedByProducer
  <2>4. IsLastRule(InForce[p], issuedCommands', AckedByProducer(p)')
    BY <1>1, <2>1, <2>2, <2>3, LastRuleKept
  <2> QED BY <1>1, <1>3, <1>5, <2>4 DEF KnowsLast
<1>8. ASSUME NEW p \in Prefix, IsDisturbed(p) PROVE IsDisturbed(p)'
  BY <1>1, <1>8 DEF IsDisturbed, Disturbed
<1> QED BY <1>6, <1>7, <1>8 DEF OwnerInv

(* Whatever arrives at the Producer is in doubt, or disturbed.              *)
LEMMA DeliverOwnerInv ==
  ASSUME CommandInv, OwnerInv, patient, NEW c \in Command, DeliverInterest(c)
  PROVE  OwnerInv'
<1>1. /\ c \in interests /\ issuedCommands' = issuedCommands /\ outcome' = outcome
      /\ byOthers' = byOthers /\ repeated' = repeated
      /\ Doubtful' = Doubtful /\ Disturbed' = Disturbed
  BY DEF DeliverInterest, owner, Commands, Doubtful, Disturbed
<1>2. c \in Doubtful \cup Disturbed
  <2> SUFFICES ASSUME c \notin Disturbed PROVE c \in Doubtful
    OBVIOUS
  <2>1. c \in Commands \ ToSet(applied)
    BY <1>1 DEF CommandInv, NetworkInv, Disturbed
  <2>2. outcome[c] \notin {<<"success">>, <<"register failed">>, <<"nack">>}
    BY <1>1, <2>1 DEF CommandInv, AnswersAreTrue, Disturbed
  <2>3. outcome[c] \in {<<>>, <<"success">>, <<"register failed">>, <<"nack">>, <<"time out">>}
    <3>1. outcome[c] \in Seq(Outcomes) /\ Len(outcome[c]) <= 1
      BY DEF CommandInv, CommandTypeOK
    <3>2. outcome[c] = <<>> \/ \E o \in Outcomes : outcome[c] = <<o>>
      BY <3>1, LenProperties, ElementOfSeq, EmptySeq
    <3> QED BY <3>2 DEF Outcomes
  <2> QED BY <2>1, <2>2, <2>3 DEF Doubtful
<1>3. \A p : AckedByProducer(p)' = AckedByProducer(p)
  BY <1>1 DEF AckedByProducer, Acked, For
<1>4. applied \in Seq(Command)
  BY DEF CommandInv, CommandTypeOK
<1>5. ASSUME NEW p \in Prefix PROVE KnowsBy(p)' \/ KnowsLast(p)' \/ IsDisturbed(p)'
  <2>1. KnowsBy(p) \/ KnowsLast(p) \/ IsDisturbed(p)
    BY DEF OwnerInv
  <2>2. CASE Reply = "success"
    <3>1. ToSet(applied') = ToSet(applied) \cup {c}
      BY <1>4, <2>2, LogAppended DEF DeliverInterest
    <3>2. InForce' = [InForce EXCEPT ![PrefixOf[c]] = RuleOf[c]]
      BY <2>2, RulesInForce
    <3>3. CASE PrefixOf[c] = p
      <4>1. InForce'[p] = RuleOf[c]
        BY <3>2, <3>3 DEF InForce
      <4> QED BY <1>1, <1>2, <3>1, <3>3, <4>1 DEF KnowsBy, IsDisturbed
    <3>4. CASE PrefixOf[c] # p
      <4>1. InForce'[p] = InForce[p]
        BY <3>2, <3>4 DEF InForce
      <4>2. CASE KnowsBy(p)
        BY <1>1, <3>1, <4>1, <4>2 DEF KnowsBy
      <4>3. CASE KnowsLast(p)
        BY <1>1, <1>3, <3>1, <3>4, <4>1, <4>3 DEF KnowsLast
      <4>4. CASE IsDisturbed(p)
        BY <1>1, <4>1, <4>4 DEF IsDisturbed
      <4> QED BY <2>1, <4>2, <4>3, <4>4
    <3> QED BY <3>3, <3>4
  <2>3. CASE Reply # "success"
    <3>1. InForce' = InForce /\ applied' = applied
      BY <2>3, RulesInForce DEF DeliverInterest
    <3> QED BY <1>1, <1>3, <2>1, <3>1 DEF KnowsBy, KnowsLast, IsDisturbed
  <2> QED BY <2>2, <2>3
<1> QED BY <1>1, <1>5 DEF OwnerInv

(* A conclusion ends the doubt, unless it is a time out, and what it says   *)
(* is true or its command disturbed.                                        *)
LEMMA ConcludeOwnerInv ==
  ASSUME CommandInv, OwnerInv, patient, NEW c \in Command, Waiting(c), NEW result \in Outcomes,
         Conclude(c, result), UNCHANGED <<issuedCommands, applied, repeated>>, InForce' = InForce,
         byOthers' \in {byOthers, byOthers \cup {c}},
         c \notin byOthers' =>
           /\ result = "success" => c \in ToSet(applied)
           /\ result \in {"register failed", "nack"} =>
                c \notin ToSet(applied) \/ c \in ToSet(repeated)
  PROVE  OwnerInv'
<1>1. /\ outcome[c] = <<>> /\ c \in Commands /\ Commands' = Commands /\ c \in Doubtful
      /\ issuedCommands' = issuedCommands /\ applied' = applied
  BY DEF Waiting, Commands, Doubtful
<1>2. outcome'[c] = <<result>> /\ \A d \in Command : d # c => outcome'[d] = outcome[d]
  BY Concluded DEF CommandInv, CommandTypeOK
<1>3. Doubtful = {c}
  BY <1>1, OneDoubt
<1>4. Commands \subseteq Command
  BY CommandsCalled DEF CommandInv
<1>5. Doubtful' = IF result = "time out" THEN {c} ELSE {}
  <2>1. \A d \in Commands : d # c => d \notin Doubtful'
    BY <1>1, <1>2, <1>3, <1>4 DEF Doubtful
  <2>2. c \in Doubtful' <=> result = "time out"
    <3>1. <<result>> # <<>> /\ (<<result>> = <<"time out">> <=> result = "time out")
      OBVIOUS
    <3> QED BY <1>1, <1>2, <3>1 DEF Doubtful
  <2>3. Doubtful' \subseteq Commands
    BY <1>1 DEF Doubtful
  <2> QED BY <2>1, <2>2, <2>3
<1>6. Disturbed \subseteq Disturbed' /\ (c \notin Disturbed' => c \notin byOthers' /\ c \notin ToSet(repeated))
  BY DEF Disturbed
<1>7. ASSUME NEW p
      PROVE  \A i \in For(p, issuedCommands) :
               i \in AckedByProducer(p)' <=>
                 IF issuedCommands[i] = c THEN result = "success" /\ c \notin byOthers'
                 ELSE i \in AckedByProducer(p)
  <2>1. ASSUME NEW i \in For(p, issuedCommands)
        PROVE  i \in AckedByProducer(p)' <=>
                 IF issuedCommands[i] = c THEN result = "success" /\ c \notin byOthers'
                 ELSE i \in AckedByProducer(p)
    <3>1. issuedCommands[i] \in Commands /\ i \in For(p, issuedCommands')
      BY <1>1, <2>1 DEF For, Commands, ToSet
    <3>2. CASE issuedCommands[i] = c
      <4>1. <<result>> = <<"success">> <=> result = "success"
        OBVIOUS
      <4> QED BY <1>1, <1>2, <3>1, <3>2, <4>1 DEF AckedByProducer, Acked
    <3>3. CASE issuedCommands[i] # c
      BY <1>1, <1>2, <1>4, <3>1, <3>3 DEF AckedByProducer, Acked
    <3> QED BY <3>2, <3>3
  <2> QED BY <2>1
<1>8. \A p : /\ AckedByProducer(p) \subseteq For(p, issuedCommands)
             /\ AckedByProducer(p)' \subseteq For(p, issuedCommands)
             /\ For(p, issuedCommands) \subseteq DOMAIN issuedCommands
  BY <1>1 DEF AckedByProducer, Acked, For
<1>9. \A i \in DOMAIN issuedCommands : issuedCommands[i] \in Doubtful => i = Len(issuedCommands)
  BY DEF OwnerInv
<1>10. \A p : \A i \in AckedByProducer(p) : issuedCommands[i] # c
  <2>1. <<>> # <<"success">>
    BY EmptySeq
  <2> QED BY <1>1, <2>1 DEF AckedByProducer, Acked
<1>11. ASSUME NEW p,
              PrefixOf[c] # p \/ result # "success" \/ c \in byOthers'
       PROVE  AckedByProducer(p)' = AckedByProducer(p)
  <2> DEFINE before == AckedByProducer(p)
             after == AckedByProducer(p)'
  <2>1. before \subseteq For(p, issuedCommands) /\ after \subseteq For(p, issuedCommands)
    BY <1>8, Zenon
  <2>2. ASSUME NEW i \in For(p, issuedCommands) PROVE i \in after <=> i \in before
    <3>1. CASE issuedCommands[i] = c
      <4>1. PrefixOf[c] = p
        BY <2>2, <3>1 DEF For
      <4> QED BY <1>7, <1>10, <1>11, <2>2, <3>1, <4>1
    <3>2. CASE issuedCommands[i] # c
      BY <1>7, <2>2, <3>2
    <3> QED BY <3>1, <3>2
  <2> HIDE DEF before, after
  <2>3. after = before
    BY <2>1, <2>2
  <2> QED BY <2>3 DEF before, after
<1>12. ASSUME NEW p \in Prefix PROVE KnowsBy(p)' \/ KnowsLast(p)' \/ IsDisturbed(p)'
  <2>1. CASE IsDisturbed(p)
    BY <1>6, <2>1 DEF IsDisturbed
  <2>2. CASE KnowsBy(p)
    <3>1. PrefixOf[c] = p /\ InForce[p] = RuleOf[c] /\ c \in ToSet(applied)
      BY <1>3, <2>2 DEF KnowsBy
    <3>2. CASE c \in Disturbed'
      BY <3>1, <3>2 DEF IsDisturbed
    <3>3. CASE c \notin Disturbed' /\ result = "time out"
      BY <1>1, <1>5, <3>1, <3>3 DEF KnowsBy
    <3>4. CASE c \notin Disturbed' /\ result = "success"
      <4>1. Doubtful' = {} /\ c \notin byOthers'
        BY <1>5, <1>6, <3>4
      <4>2. PICK i \in DOMAIN issuedCommands : issuedCommands[i] = c
        BY <1>1 DEF Commands, ToSet
      <4>3. i \in AckedByProducer(p)'
        <5>1. i \in For(p, issuedCommands)
          BY <3>1, <4>2 DEF For
        <5> QED BY <1>7, <3>4, <4>1, <4>2, <5>1
      <4>4. i = Len(issuedCommands) /\ issuedCommands \in Seq(Command)
        BY <1>1, <1>9, <4>2 DEF CommandInv, CommandTypeOK
      <4>5. \A j \in AckedByProducer(p)' : j <= i
        <5>1. \A j \in DOMAIN issuedCommands : j <= i
          BY <4>4, LastIsLast, Zenon
        <5>2. AckedByProducer(p)' \subseteq DOMAIN issuedCommands
          BY <1>8, Zenon
        <5> QED BY <5>1, <5>2, Zenon
      <4>6. IsLastRule(InForce[p], issuedCommands, AckedByProducer(p)')
        BY <3>1, <4>2, <4>3, <4>5 DEF IsLastRule
      <4> QED BY <1>1, <4>1, <4>6 DEF KnowsLast
    <3> QED BY <1>6, <3>1, <3>2, <3>3, <3>4 DEF Outcomes
  <2>3. CASE KnowsLast(p)
    <3>1. PrefixOf[c] # p \/ c \notin ToSet(applied)
      BY <1>1, <2>3 DEF KnowsLast
    <3>2. AckedByProducer(p)' = AckedByProducer(p)
      BY <1>11, <3>1
    <3>3. Doubtful' \subseteq Doubtful
      BY <1>3, <1>5
    <3> QED BY <1>1, <2>3, <3>2, <3>3 DEF KnowsLast
  <2> QED BY <2>1, <2>2, <2>3 DEF OwnerInv
<1> QED BY <1>1, <1>3, <1>5, <1>9, <1>12 DEF OwnerInv

(* Every step keeps OwnerInv, one case per action. *)
LEMMA StepOwnerInv == CommandInv /\ OwnerInv /\ [Next]_allVars => OwnerInv'
<1> SUFFICES ASSUME CommandInv, OwnerInv, [Next]_allVars, patient' PROVE OwnerInv'
  BY DEF OwnerInv
<1>0. patient
  BY DEF Next, allVars, commandVars, owner, CommandProducerPolicy, DeliverInterest, DeliverReply,
         AnotherReplies, OnNack, OnTimeout, RepeatInterest, LoseInterest, LoseReply
<1>1. ASSUME UNCHANGED <<issuedCommands, outcome, applied, byOthers>>, InForce' = InForce,
             ToSet(repeated) \subseteq ToSet(repeated')
      PROVE  OwnerInv'
  <2>1. /\ Doubtful' = Doubtful /\ Disturbed \subseteq Disturbed'
        /\ \A p : AckedByProducer(p)' = AckedByProducer(p)
    BY <1>1 DEF Doubtful, Disturbed, Commands, AckedByProducer, Acked, For
  <2> QED BY <1>0, <1>1, <2>1 DEF OwnerInv, KnowsBy, KnowsLast, IsDisturbed
<1>2. ASSUME NEW c \in Command, DeliverInterest(c) PROVE OwnerInv'
  BY <1>0, <1>2, DeliverOwnerInv
<1>3. CASE \A c \in Command : ~ DeliverInterest(c)
  <2>1. InForce' = InForce /\ applied' = applied
    BY <1>3, RulesKept
  <2>2. ASSUME NEW c \in Command, CommandProducerPolicy(c) PROVE OwnerInv'
    BY <2>1, <2>2, CallOwnerInv
  <2>3. ASSUME NEW c \in Command, DeliverReply(c) PROVE OwnerInv'
    <3>1. PICK content \in {"success", "failure"} :
            /\ <<c, content>> \in replies
            /\ \/ Waiting(c) /\ Conclude(c, Reading(content))
               \/ ~ Waiting(c) /\ UNCHANGED outcome
      BY <2>3 DEF DeliverReply
    <3>2. UNCHANGED <<issuedCommands, applied, repeated, byOthers>>
      BY <2>3 DEF DeliverReply
    <3>3. CASE Waiting(c) /\ content = "success"
      <4>1. c \in ToSet(applied) /\ Conclude(c, "success")
        BY <3>1, <3>3 DEF CommandInv, NetworkInv, Reading
      <4> QED BY <2>1, <3>2, <3>3, <4>1, <1>0, ConcludeOwnerInv DEF Outcomes
    <3>4. CASE Waiting(c) /\ content = "failure"
      <4>1. /\ c \notin ToSet(applied) \/ c \in ToSet(repeated)
            /\ Conclude(c, "register failed")
        BY <3>1, <3>4 DEF CommandInv, NetworkInv, Reading
      <4> QED BY <2>1, <3>2, <3>4, <4>1, <1>0, ConcludeOwnerInv DEF Outcomes
    <3>5. CASE ~ Waiting(c)
      BY <1>1, <2>1, <3>1, <3>2, <3>5
    <3> QED BY <3>1, <3>3, <3>4, <3>5
  <2>4. ASSUME NEW c \in Command, OnNack(c) PROVE OwnerInv'
    <3>1. c \notin ToSet(applied) \/ c \in ToSet(repeated)
      BY <2>4 DEF OnNack, CommandInv, NetworkInv
    <3> QED BY <2>1, <2>4, <3>1, <1>0, ConcludeOwnerInv DEF OnNack, Outcomes
  <2>5. ASSUME NEW c \in Command, OnTimeout(c) PROVE OwnerInv'
    BY <2>1, <2>5, <1>0, ConcludeOwnerInv DEF OnTimeout, Outcomes, network
  <2>6. ASSUME NEW c \in Command, AnotherReplies(c) PROVE OwnerInv'
    <3>1. PICK result \in {"success", "register failed"} : Conclude(c, result)
      BY <2>6 DEF AnotherReplies, Reading
    <3> QED BY <2>1, <2>6, <3>1, <1>0, ConcludeOwnerInv DEF AnotherReplies, Outcomes, network
  <2>7. ASSUME NEW c \in Command, RepeatInterest(c) PROVE OwnerInv'
    <3>1. ToSet(repeated) \subseteq ToSet(repeated')
      BY <2>7, LogAppended DEF RepeatInterest, CommandInv, CommandTypeOK
    <3> QED BY <1>1, <2>1, <2>7, <3>1 DEF RepeatInterest, owner
  <2>8. CASE UNCHANGED <<issuedCommands, outcome, applied, byOthers, repeated>>
    BY <1>1, <2>1, <2>8
  <2> QED BY <1>3, <2>2, <2>3, <2>4, <2>5, <2>6, <2>7, <2>8 DEF Next, LoseInterest, LoseReply, owner,
             allVars, commandVars, network
<1> QED BY <1>2, <1>3

(* A patient owner knows the rule in force for a prefix, up to the one      *)
(* command in doubt and those repeated or answered by others: whatever else *)
(* the network does, and whoever replies, it is one of these.               *)
THEOREM AckedKnown == Spec => []AckedInForce
<1>1. OwnerInv => AckedInForce
  BY DEF OwnerInv, KnowsBy, KnowsLast, IsDisturbed, AckedInForce
<1> QED
  BY <1>1, InitOwnerInv, StepOwnerInv, CommandInvariance, PTL DEF Spec

(* An owner in no doubt knows the rule in force for every prefix of a name  *)
(* with no disturbed command for one, so it knows the prefixes that have a  *)
(* rule and the longest of them.                                            *)
LEMMA KnowsMatch == CommandInv /\ OwnerInv => OwnerKnowsMatch
<1> DEFINE commanded(n) == {p \in Prefix \ {<<>>} : IsPrefix(p, n) /\ RuleFor(Table, p) # Unset}
           acked(n) == {p \in Prefix \ {<<>>} : IsPrefix(p, n) /\ Acked(p) # {}}
           longest(n) == CHOOSE p \in commanded(n) : \A q \in commanded(n) : Len(q) <= Len(p)
<1> SUFFICES ASSUME CommandInv, OwnerInv, patient, Doubtful = {}, NEW n \in DataName,
                    \A c \in Disturbed : ~ IsPrefix(PrefixOf[c], n)
             PROVE  \/ acked(n) = {} /\ FindMatched(Table, n) = NoRule
                    \/ \E p \in acked(n) :
                         /\ \A q \in acked(n) : Len(q) <= Len(p)
                         /\ IsLastRule(FindMatched(Table, n), issuedCommands, Acked(p))
  BY DEF OwnerKnowsMatch
<1> DEFINE Matching == {p \in Prefix : IsPrefix(p, n)}
<1>1. ASSUME NEW p \in Matching
      PROVE  IsLastRule(InForce[p], issuedCommands, Acked(p)) /\ InForce[p] = RuleFor(Table, p)
  <2>1. AckedByProducer(p) = Acked(p)
    <3>1. \A i \in Acked(p) : issuedCommands[i] \in Command /\ PrefixOf[issuedCommands[i]] = p
      BY LenProperties, ElementOfSeq DEF Acked, For, CommandInv, CommandTypeOK
    <3> QED BY <3>1 DEF AckedByProducer, Disturbed
  <2>2. ~ IsDisturbed(p)
    BY DEF IsDisturbed
  <2> QED BY <2>1, <2>2 DEF OwnerInv, KnowsBy, KnowsLast, InForce
<1>2. Table \in Seq(Entry) /\ Unique(Table)
  BY DEF CommandInv, IInv, ProducerTypeOK, PrefixesUnique, Table
<1>3. \A p \in Matching : Acked(p) = {} => RuleFor(Table, p) = Unset
  BY <1>1 DEF IsLastRule
<1>4. ASSUME NEW p \in Matching, Acked(p) # {} PROVE RuleFor(Table, p) # Unset
  <2>1. PICK i \in Acked(p) : RuleFor(Table, p) = RuleOf[issuedCommands[i]]
    BY <1>1, <1>4 DEF IsLastRule
  <2>2. i \in DOMAIN issuedCommands
    BY <2>1 DEF Acked, For
  <2>3. issuedCommands[i] \in Command
    BY <2>2, LenProperties, ElementOfSeq DEF CommandInv, CommandTypeOK
  <2> QED BY <2>1, <2>3, PolicyCommandAssumption, ProducerAssumption
          DEF PolicyCommandAssumption, ProducerAssumption
<1>5. commanded(n) = acked(n)
  BY <1>3, <1>4
<1>6. \/ commanded(n) = {} /\ FindMatched(Table, n) = NoRule
      \/ /\ longest(n) \in commanded(n) /\ \A q \in commanded(n) : Len(q) <= Len(longest(n))
         /\ FindMatched(Table, n) = RuleFor(Table, longest(n))
  BY <1>2, FindMatchedLongest
<1>7. \A p \in acked(n) : p \in Matching
  OBVIOUS
<1> QED BY <1>1, <1>5, <1>6, <1>7

(* A data owner that has all its answers knows which rule its Producer      *)
(* finds for any name none of whose commands was repeated or answered by    *)
(* others, for any number of commands in any order.                         *)
THEOREM MatchKnown == Spec => []OwnerKnowsMatch
<1> QED
  BY KnowsMatch, InitOwnerInv, StepOwnerInv, CommandInvariance, PTL DEF Spec
-----------------------------------------------------------------------------
(* Under its data owner's commands, whatever the network does to them, a    *)
(* Producer behaves as one whose commands come from anywhere.               *)
THEOREM ProducerWithin == Spec => ProducerSpec
<1>1. Init => ProducerInit
  BY DEF Init
<1> QED
  BY <1>1, StepIsProducerStep, PTL DEF Spec, ProducerSpec

(* So it keeps what the Producer promises: a table that implements a map,   *)
(* the longest prefix found, and no key reused across rules.                *)
THEOREM PromisesKept ==
  Spec => ImplementsPolicyTable /\ []MatchIsLongest /\ []DataUnderItsRule /\ []PrefixesUnique
<1> QED
  BY ProducerWithin, Refinement, LongestPrefixWins, NoKeyAcrossRules, OneEntryPerPrefix
=============================================================================
