------------------------------ MODULE Consumer ------------------------------
(***************************************************************************)
(* Consumer (consumer.hpp, consumer.cpp) with the process-wide cache of    *)
(* ABESupport (algo/abe-support.cpp) behind it.                            *)
(*                                                                         *)
(* A request is one call of consume.  Its content names a content key (CK);*)
(* requests for the same CK wait for one fetch of it and are answered by a *)
(* walk over the waiters.  The library runs on one event loop, so a handler*)
(* is one step, except for the walk: its callbacks run application code,   *)
(* which may call the Consumer again before the walk goes on.  While a walk*)
(* is under way ("fanout") no other handler runs.                          *)
(***************************************************************************)
EXTENDS Naturals, Sequences

CONSTANTS
  Request,          \* the calls of consume
  Ck, CkOf,         \* content keys, and the one each request's content names
  DKey, NoKey,      \* decryption keys, and the empty m_keyCache
  Opens,            \* the content keys whose policy a decryption key satisfies
  ProcessKeys,      \* the decryption keys of other Consumers in the process
  MaxDkeyFetches,   \* bound: obtainDecryptionKey calls in flight at a time
  NoFanout,         \* no walk is under way
  Trouble           \* what the application or the network may do wrong

VARIABLES
  pubParams,               \* m_paramFetcher has its public parameters
  keyCache,                \* m_keyCache
  dkeyFetches,             \* obtainDecryptionKey fetches in flight
  asked, told,             \* requests made; the callbacks each has received
  dataFetches,             \* requests whose data is being fetched
  ckFetches,               \* CK fetches in flight, for each CK
  ckInterestsSent,         \* m_ckInterestsSent
  pendingCallbacks,        \* m_pendingCallbacks, <<>> for no entry
  ckEncAesCache,           \* the keys of m_ckEncAesCache
  decryptedContentKeyMap,  \* the keys of ABESupport's m_decryptedContentKeyMap
  fanout,                  \* the walk over the waiters of one CK
  heldKeys                 \* history: the decryption keys this Consumer has held

fetching == <<dataFetches, ckFetches, ckInterestsSent, pendingCallbacks, ckEncAesCache>>
keys == <<pubParams, keyCache, dkeyFetches, heldKeys>>
answers == <<asked, told, decryptedContentKeyMap>>
vars == <<fetching, keys, answers, fanout>>

Troubles == {"reenterOnError",   \* an onError callback calls consume(name, block)
             "successThrows",    \* an onSuccess callback throws
             "errorThrows",      \* an onError callback throws
             "badContent",       \* validated data is no encrypted content
             "badCipher",        \* encrypted content fails under its own content key
             "badCk"}            \* a validated CK object has no encrypted AES key

ASSUME ConsumerAssumption ==
  /\ CkOf \in [Request -> Ck]
  /\ NoKey \notin DKey
  /\ Opens \in [DKey -> SUBSET Ck]
  /\ ProcessKeys \subseteq DKey
  /\ MaxDkeyFetches \in Nat
  /\ Trouble \subseteq Troubles

Walk == [ck : Ck, kind : {"data", "error"}, next : Nat, last : Nat, moved : BOOLEAN]

ASSUME FanoutAssumption == NoFanout \notin Walk

Init ==
  /\ pubParams = FALSE /\ keyCache = NoKey /\ dkeyFetches = 0 /\ heldKeys = {}
  /\ asked = {} /\ told = [r \in Request |-> <<>>]
  /\ dataFetches = {} /\ ckFetches = [k \in Ck |-> 0]
  /\ ckInterestsSent = {} /\ pendingCallbacks = [k \in Ck |-> <<>>]
  /\ ckEncAesCache = {} /\ decryptedContentKeyMap = {}
  /\ fanout = NoFanout

(* The event loop may call a handler; application code may run: between two *)
(* handlers, or in the callback a walk has just made.                       *)
LoopIsFree == fanout = NoFanout
AppMayCall == ~ LoopIsFree => fanout.next > 1

ReadyForDecryption == pubParams /\ keyCache # NoKey
-----------------------------------------------------------------------------
LearnPublicParams ==
  /\ LoopIsFree /\ ~ pubParams
  /\ pubParams' = TRUE
  /\ UNCHANGED <<keyCache, dkeyFetches, heldKeys, fetching, answers, fanout>>

ObtainDecryptionKey ==
  /\ AppMayCall /\ dkeyFetches < MaxDkeyFetches
  /\ dkeyFetches' = dkeyFetches + 1
  /\ UNCHANGED <<pubParams, keyCache, heldKeys, fetching, answers, fanout>>

(* Whichever fetch completes last decides the key, whatever was asked last. *)
DkeyComplete(d) ==
  /\ LoopIsFree /\ dkeyFetches > 0
  /\ dkeyFetches' = dkeyFetches - 1
  /\ keyCache' = d
  /\ heldKeys' = heldKeys \cup {d}
  /\ UNCHANGED <<pubParams, fetching, answers, fanout>>

(* The fetch fails, or its content cannot be decrypted: logged or thrown.   *)
DkeyFail ==
  /\ LoopIsFree /\ dkeyFetches > 0
  /\ dkeyFetches' = dkeyFetches - 1
  /\ UNCHANGED <<pubParams, keyCache, heldKeys, fetching, answers, fanout>>

(* ABESupport: a content key decrypted before is not decrypted again.       *)
Decrypts(k) == k \in decryptedContentKeyMap \/ k \in Opens[keyCache]

ClearCachedContentKeys ==
  /\ AppMayCall /\ decryptedContentKeyMap # {}
  /\ decryptedContentKeyMap' = {}
  /\ UNCHANGED <<asked, told, fetching, keys, fanout>>

(* Another Consumer of the process decrypts k with a key of its own.        *)
DecryptedElsewhere(k) ==
  /\ LoopIsFree /\ \E d \in ProcessKeys : k \in Opens[d]
  /\ decryptedContentKeyMap' = decryptedContentKeyMap \cup {k}
  /\ UNCHANGED <<asked, told, fetching, keys, fanout>>

(* Mutant: the map entry is made by the lookup, before the key is tried.    *)
CachesUntried(r) ==
  /\ decryptedContentKeyMap' = decryptedContentKeyMap \cup {CkOf[r]}
  /\ told' = [told EXCEPT ![r] = Append(@, IF Decrypts(CkOf[r]) THEN "onSuccess" ELSE "onError")]

Tell(r, callbacks) == told' = [told EXCEPT ![r] = @ \o callbacks]

(* The decryption and both callbacks are in one try block.  The content key  *)
(* is kept as soon as it is decrypted, before the content is.               *)
DecryptAndTell(r) ==
  \/ /\ ~ Decrypts(CkOf[r])
     /\ Tell(r, <<"onError">>)
     /\ UNCHANGED decryptedContentKeyMap
  \/ /\ Decrypts(CkOf[r])
     /\ decryptedContentKeyMap' = decryptedContentKeyMap \cup {CkOf[r]}
     /\ \/ Tell(r, <<"onSuccess">>)
        \/ "successThrows" \in Trouble /\ Tell(r, <<"onSuccess", "onError">>)
        \/ "badCipher" \in Trouble /\ Tell(r, <<"onError">>)

Enqueue(r, k) == pendingCallbacks' = [pendingCallbacks EXCEPT ![k] = Append(@, r)]

(* 1) cache fast path *)
CkCached(r, k) ==
  /\ k \in ckEncAesCache
  /\ DecryptAndTell(r)
  /\ UNCHANGED <<ckFetches, ckInterestsSent, pendingCallbacks, fanout>>

(* Mutant: the second request for a CK is dropped instead of queued.        *)
DropsSecond(r, k) ==
  /\ k \notin ckEncAesCache /\ k \in ckInterestsSent
  /\ UNCHANGED <<pendingCallbacks, fanout, ckFetches, ckInterestsSent, told, decryptedContentKeyMap>>

(* Mutant: the walk is over all that the vector has come to hold.           *)
WalksOverNew(r, k) ==
  /\ k \notin ckEncAesCache /\ k \in ckInterestsSent
  /\ Enqueue(r, k)
  /\ fanout' = IF ~ LoopIsFree /\ fanout.ck = k THEN [fanout EXCEPT !.last = @ + 1] ELSE fanout
  /\ UNCHANGED <<ckFetches, ckInterestsSent, told, decryptedContentKeyMap>>

(* 2) in-flight de-dup; during a walk over k the vector may be reallocated  *)
CkInFlight(r, k) ==
  /\ k \notin ckEncAesCache /\ k \in ckInterestsSent
  /\ Enqueue(r, k)
  /\ \/ UNCHANGED fanout
     \/ /\ ~ LoopIsFree /\ fanout.ck = k
        /\ fanout' = [fanout EXCEPT !.moved = TRUE]
  /\ UNCHANGED <<ckFetches, ckInterestsSent, told, decryptedContentKeyMap>>

(* Mutant: the fetch is not marked as in flight.                            *)
UnmarkedFetch(r, k) ==
  /\ k \notin ckEncAesCache /\ k \notin ckInterestsSent
  /\ Enqueue(r, k)
  /\ ckFetches' = [ckFetches EXCEPT ![k] = @ + 1]
  /\ UNCHANGED <<ckInterestsSent, told, decryptedContentKeyMap, fanout>>

(* 3) start the single CK fetch and queue the request *)
CkFetchStarts(r, k) ==
  /\ k \notin ckEncAesCache /\ k \notin ckInterestsSent
  /\ ckInterestsSent' = ckInterestsSent \cup {k}
  /\ Enqueue(r, k)
  /\ ckFetches' = [ckFetches EXCEPT ![k] = @ + 1]
  /\ UNCHANGED <<told, decryptedContentKeyMap, fanout>>

DecryptContent(r) ==
  /\ CkCached(r, CkOf[r]) \/ CkInFlight(r, CkOf[r]) \/ CkFetchStarts(r, CkOf[r])
  /\ UNCHANGED <<ckEncAesCache, keys>>
-----------------------------------------------------------------------------
(* Either form of consume before the parameters and the key have come.      *)
ConsumeNotReady(r) ==
  /\ AppMayCall /\ r \notin asked /\ ~ ReadyForDecryption
  /\ asked' = asked \cup {r}
  /\ Tell(r, <<"onError">>)
  /\ UNCHANGED <<decryptedContentKeyMap, fetching, keys, fanout>>

(* consume(name) and consume(interest) *)
Consume(r) ==
  /\ AppMayCall /\ r \notin asked /\ ReadyForDecryption
  /\ asked' = asked \cup {r}
  /\ dataFetches' = dataFetches \cup {r}
  /\ UNCHANGED <<ckFetches, ckInterestsSent, pendingCallbacks, ckEncAesCache>>
  /\ UNCHANGED <<told, decryptedContentKeyMap, keys, fanout>>

(* consume(name, block) of well-formed content; of any other it throws at   *)
(* the caller and changes nothing.                                          *)
ConsumeBlock(r) ==
  /\ AppMayCall /\ r \notin asked /\ ReadyForDecryption
  /\ ~ LoopIsFree /\ fanout.kind = "error" => "reenterOnError" \in Trouble
  /\ asked' = asked \cup {r}
  /\ DecryptContent(r)
  /\ UNCHANGED dataFetches

DataComplete(r) ==
  /\ LoopIsFree /\ r \in dataFetches
  /\ dataFetches' = dataFetches \ {r}
  /\ DecryptContent(r)
  /\ UNCHANGED asked

DataMalformed(r) ==
  /\ LoopIsFree /\ r \in dataFetches /\ "badContent" \in Trouble
  /\ dataFetches' = dataFetches \ {r}
  /\ UNCHANGED <<ckFetches, ckInterestsSent, pendingCallbacks, ckEncAesCache>>
  /\ UNCHANGED <<answers, keys, fanout>>

DataError(r) ==
  /\ LoopIsFree /\ r \in dataFetches
  /\ dataFetches' = dataFetches \ {r}
  /\ Tell(r, <<"onError">>)
  /\ UNCHANGED <<ckFetches, ckInterestsSent, pendingCallbacks, ckEncAesCache>>
  /\ UNCHANGED <<asked, decryptedContentKeyMap, keys, fanout>>

CkFetchEnds(k) ==
  /\ LoopIsFree /\ ckFetches[k] > 0
  /\ ckFetches' = [ckFetches EXCEPT ![k] = @ - 1]
  /\ UNCHANGED <<dataFetches, ckInterestsSent, pendingCallbacks, answers, keys>>

StartWalk(k, kind) ==
  fanout' = [ck |-> k, kind |-> kind, next |-> 1,
             last |-> Len(pendingCallbacks[k]), moved |-> FALSE]

CkComplete(k) ==
  /\ CkFetchEnds(k)
  /\ ckEncAesCache' = ckEncAesCache \cup {k}
  /\ StartWalk(k, "data")

(* The cache fill is skipped; the first call of onCkeyData throws out of    *)
(* the handler, before anything is erased.                                  *)
CkMalformed(k) ==
  /\ CkFetchEnds(k) /\ "badCk" \in Trouble
  /\ UNCHANGED <<ckEncAesCache, fanout>>

(* Mutant: the error handler clears the state without the broadcast.        *)
NoBroadcast(k) ==
  /\ LoopIsFree /\ ckFetches[k] > 0
  /\ ckFetches' = [ckFetches EXCEPT ![k] = @ - 1]
  /\ pendingCallbacks' = [pendingCallbacks EXCEPT ![k] = <<>>]
  /\ ckInterestsSent' = ckInterestsSent \ {k}
  /\ UNCHANGED <<dataFetches, ckEncAesCache, answers, keys, fanout>>

CkError(k) ==
  /\ CkFetchEnds(k)
  /\ StartWalk(k, "error")
  /\ UNCHANGED ckEncAesCache
-----------------------------------------------------------------------------
Waiter == pendingCallbacks[fanout.ck][fanout.next]
WalkGoesOn == fanout # NoFanout /\ fanout.next <= fanout.last
Advance == fanout' = [fanout EXCEPT !.next = @ + 1]

(* An exception of an onError callback leaves the handler, and the walk.    *)
Escape(r) ==
  /\ "errorThrows" \in Trouble /\ told'[r][Len(told'[r])] = "onError"
  /\ fanout' = NoFanout

(* Mutant: a waiter is erased from the vector the loop walks over.          *)
ErasesInLoop ==
  /\ WalkGoesOn /\ fanout.kind = "data"
  /\ DecryptAndTell(Waiter)
  /\ pendingCallbacks' = [pendingCallbacks EXCEPT ![fanout.ck] = Tail(@)]
  /\ Advance
  /\ UNCHANGED <<asked, dataFetches, ckFetches, ckInterestsSent, ckEncAesCache, keys>>

NotifyData ==
  /\ WalkGoesOn /\ fanout.kind = "data"
  /\ DecryptAndTell(Waiter)
  /\ Advance \/ Escape(Waiter)
  /\ UNCHANGED <<asked, fetching, keys>>

NotifyError ==
  /\ WalkGoesOn /\ fanout.kind = "error" /\ ~ fanout.moved
  /\ Tell(Waiter, <<"onError">>)
  /\ Advance \/ Escape(Waiter)
  /\ UNCHANGED <<asked, decryptedContentKeyMap, fetching, keys>>

(* After a reallocation the walk reads freed tasks: their moved-from        *)
(* callbacks look empty and are skipped, or a stale one is still called.    *)
ReadFreedTask ==
  /\ WalkGoesOn /\ fanout.moved
  /\ UNCHANGED told \/ Tell(Waiter, <<"onError">>)
  /\ Advance
  /\ UNCHANGED <<asked, decryptedContentKeyMap, fetching, keys>>

(* Mutant: the in-flight mark outlives the walk.                            *)
KeepsMark ==
  /\ fanout # NoFanout /\ fanout.next > fanout.last
  /\ pendingCallbacks' = [pendingCallbacks EXCEPT ![fanout.ck] = <<>>]
  /\ fanout' = NoFanout
  /\ UNCHANGED <<dataFetches, ckInterestsSent, ckFetches, ckEncAesCache, answers, keys>>

(* Mutant: the waiters outlive the walk.                                    *)
KeepsWaiters ==
  /\ fanout # NoFanout /\ fanout.next > fanout.last
  /\ ckInterestsSent' = ckInterestsSent \ {fanout.ck}
  /\ fanout' = NoFanout
  /\ UNCHANGED <<dataFetches, pendingCallbacks, ckFetches, ckEncAesCache, answers, keys>>

FinishFanout ==
  /\ fanout # NoFanout /\ fanout.next > fanout.last
  /\ pendingCallbacks' = [pendingCallbacks EXCEPT ![fanout.ck] = <<>>]
  /\ ckInterestsSent' = ckInterestsSent \ {fanout.ck}
  /\ fanout' = NoFanout
  /\ UNCHANGED <<dataFetches, ckFetches, ckEncAesCache, answers, keys>>
-----------------------------------------------------------------------------
Application ==
  \/ ObtainDecryptionKey
  \/ ClearCachedContentKeys
  \/ \E r \in Request : ConsumeNotReady(r) \/ Consume(r) \/ ConsumeBlock(r)

DataEnds(r) == DataComplete(r) \/ DataMalformed(r) \/ DataError(r)
CkEnds(k) == CkComplete(k) \/ CkMalformed(k) \/ CkError(k)
Fanout == NotifyData \/ NotifyError \/ ReadFreedTask \/ FinishFanout

EventLoop ==
  \/ LearnPublicParams
  \/ DkeyFail
  \/ \E d \in DKey : DkeyComplete(d)
  \/ \E r \in Request : DataEnds(r)
  \/ \E k \in Ck : CkEnds(k) \/ DecryptedElsewhere(k)
  \/ Fanout

Next == Application \/ EventLoop

(* A SegmentFetcher ends each fetch in onComplete or onError, and a walk is *)
(* a loop of the running handler.                                           *)
Fairness ==
  /\ \A r \in Request : WF_vars(DataEnds(r))
  /\ \A k \in Ck : WF_vars(CkEnds(k))
  /\ WF_vars(Fanout)

Spec == Init /\ [][Next]_vars
FairSpec == Spec /\ Fairness
-----------------------------------------------------------------------------
WalkOn(k) == fanout # NoFanout /\ fanout.ck = k

(* Every variable keeps its type, and a walk stays inside the vector it     *)
(* walks over, whatever its callbacks add to that vector.                   *)
TypeOK ==
  /\ pubParams \in BOOLEAN
  /\ keyCache \in DKey \cup {NoKey} /\ heldKeys \subseteq DKey
  /\ dkeyFetches \in 0..MaxDkeyFetches
  /\ asked \subseteq Request
  /\ told \in [Request -> Seq({"onSuccess", "onError"})]
  /\ dataFetches \subseteq Request
  /\ ckFetches \in [Ck -> Nat]
  /\ ckInterestsSent \subseteq Ck
  /\ pendingCallbacks \in [Ck -> Seq(Request)]
  /\ ckEncAesCache \subseteq Ck /\ decryptedContentKeyMap \subseteq Ck
  /\ fanout \in Walk \cup {NoFanout}
  /\ fanout # NoFanout =>
       /\ fanout.next \in 1..(fanout.last + 1)
       /\ fanout.last <= Len(pendingCallbacks[fanout.ck])

(* "Only one network fetch happens per CK at a time" (consumer.cpp:37), and *)
(* none for a CK that is cached: in any environment, from any callback.     *)
OneFetchPerCk ==
  \A k \in Ck : ckFetches[k] <= 1 /\ (k \in ckEncAesCache => ckFetches[k] = 0)

(* No content key is decrypted that no decryption key of the process opens, *)
(* and no request succeeds on one: the shared map leaks no further than the *)
(* process.                                                                 *)
OpenedInProcess ==
  LET opened == UNION {Opens[d] : d \in heldKeys \cup ProcessKeys}
  IN  /\ decryptedContentKeyMap \subseteq opened
      /\ \A r \in Request : (\E i \in 1..Len(told[r]) : told[r][i] = "onSuccess") => CkOf[r] \in opened

(* The in-flight mark and the queue of a CK live only as long as a fetch or *)
(* a walk that will empty them: no request waits for nothing, and no CK is  *)
(* marked in flight for good.                                               *)
NoWaiterStranded ==
  \A k \in Ck :
    k \in ckInterestsSent \/ pendingCallbacks[k] # <<>> => ckFetches[k] = 1 \/ WalkOn(k)

(* "Fan-out to all waiters for this CK", "Broadcast error to all waiters":  *)
(* a queue is erased only when everyone in it has been told.                *)
NoWaiterDropped ==
  [][\A k \in Ck : pendingCallbacks'[k] = <<>> =>
       \A i \in 1..Len(pendingCallbacks[k]) : told'[pendingCallbacks[k][i]] # <<>>]_vars

(* "CK can only be decrypted when the attributes (DKEY) can satisfy the     *)
(* EKEY" (README.md): what a Consumer hands to the application was opened   *)
(* by the decryption key it holds then.                                     *)
KeySatisfiesPolicy ==
  [][\A r \in Request :
       (told'[r] # told[r] /\ told'[r][Len(told[r]) + 1] = "onSuccess")
         => CkOf[r] \in Opens[keyCache]]_vars

Once == INSTANCE ConsumeOnce

(* Every request is answered, exactly once, unless something goes wrong     *)
(* that Trouble lists: the Consumer implements ConsumeOnce.                 *)
ImplementsConsumeOnce == Once!Spec

(* What a request may be told: onError follows onSuccess if that throws.    *)
Answers ==
  {<<"onSuccess">>, <<"onError">>} \cup
    (IF "successThrows" \in Trouble THEN {<<"onSuccess", "onError">>} ELSE {})

(* In any environment a request is answered by one handler, once it was     *)
(* made, and never again: by one callback, or by onSuccess throwing and     *)
(* onError telling of it.                                                   *)
AnswersOnce ==
  [][\A r \in Request : told'[r] # told[r] =>
       r \in asked' /\ told[r] = <<>> /\ told'[r] \in Answers]_vars

(* The steps a walk still has to make.                                      *)
WalkLeft == IF fanout = NoFanout THEN 0 ELSE fanout.last + 2 - fanout.next

(* A walk ends: each step of its loop brings the end nearer, and no callback*)
(* puts it off, whatever it adds to the queue that is walked over.          *)
WalkEnds ==
  [][fanout # NoFanout => WalkLeft' <= WalkLeft /\ (Fanout => WalkLeft' < WalkLeft)]_vars

(* The inductive invariant, first half: a fetch or a walk holds its CK's    *)
(* mark, and only a marked CK has waiters.  It holds in any environment.    *)
MarkInv ==
  \A k \in Ck :
    /\ ckFetches[k] <= 1
    /\ ckFetches[k] = 1 => k \in ckInterestsSent /\ k \notin ckEncAesCache /\ ~ WalkOn(k)
    /\ WalkOn(k) => k \in ckInterestsSent /\ ckFetches[k] = 0
    /\ WalkOn(k) => (fanout.kind = "data" <=> k \in ckEncAesCache)
    /\ k \notin ckInterestsSent => pendingCallbacks[k] = <<>>

(* A place in the queue of k that a fetch or the rest of a walk will reach. *)
Awaits(k, i) == ckFetches[k] = 1 \/ (WalkOn(k) /\ fanout.next <= i)

(* A request that was made and not answered yet is in a place from which it *)
(* will be: its data is being fetched, or it waits where a fetch or the rest*)
(* of a walk will reach it.  Every request has one, from call to callback.  *)
InHand(r) ==
  LET k == CkOf[r]
  IN  \/ r \in dataFetches
      \/ \E i \in 1..Len(pendingCallbacks[k]) : pendingCallbacks[k][i] = r /\ Awaits(k, i)

NoRequestLost == \A r \in asked : told[r] # <<>> \/ InHand(r)

(* Second half: what has not been asked, or is still being fetched, is      *)
(* untold, and a request waits in one place, untold while it is awaited.    *)
UntoldInv ==
  /\ \A r \in Request \ asked : told[r] = <<>>
  /\ \A r \in dataFetches : r \in asked /\ told[r] = <<>>

QueueInv ==
  \A k \in Ck : \A i \in 1..Len(pendingCallbacks[k]) :
    LET r == pendingCallbacks[k][i]
    IN  /\ r \in asked /\ r \notin dataFetches /\ CkOf[r] = k
        /\ Awaits(k, i) => told[r] = <<>>
        /\ \A j \in 1..Len(pendingCallbacks[k]) : pendingCallbacks[k][j] = r => j = i

WaitInv == UntoldInv /\ QueueInv

(* What a walk has passed has been told, and nothing has joined its vector: *)
(* so it is as long as no onError callback calls consume(name, block).      *)
VisitedInv ==
  fanout # NoFanout =>
    /\ ~ fanout.moved /\ fanout.last = Len(pendingCallbacks[fanout.ck])
    /\ \A i \in 1..(fanout.next - 1) : told[pendingCallbacks[fanout.ck][i]] # <<>>

(* Nothing is decrypted, or waits for it, before there is a decryption key. *)
KeyInv ==
  \/ keyCache \in heldKeys
  \/ /\ keyCache = NoKey /\ dataFetches = {} /\ ckEncAesCache = {} /\ fanout = NoFanout
     /\ \A k \in Ck : ckFetches[k] = 0
=============================================================================
