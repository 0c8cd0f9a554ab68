--------------------------- MODULE ConsumerProofs ---------------------------
(* Proofs about Consumer, for any requests, content keys, decryption keys   *)
(* and, where a theorem does not say otherwise, any trouble.                *)
EXTENDS Consumer, SequenceTheorems, TLAPS

(* What MarkInv speaks of.  Most steps leave all of it alone.               *)
marks == <<ckFetches, ckInterestsSent, pendingCallbacks, ckEncAesCache, fanout>>

Callbacks == {"onSuccess", "onError"}

(* Telling a request keeps the type of told.                                *)
LEMMA TellType ==
  ASSUME TypeOK, NEW r \in Request, NEW s \in Seq(Callbacks), Tell(r, s)
  PROVE  told' \in [Request -> Seq(Callbacks)]
<1>1. told[r] \o s \in Seq(Callbacks)
  BY ConcatProperties DEF TypeOK, Callbacks
<1> QED BY <1>1 DEF TypeOK, Tell, Callbacks

(* The callbacks a decryption ends in, one or two of them, are callbacks.   *)
LEMMA CallbackSeqs ==
  <<"onError">> \in Seq(Callbacks) /\ <<"onSuccess">> \in Seq(Callbacks)
    /\ <<"onSuccess", "onError">> \in Seq(Callbacks)
BY DEF Callbacks

(* A decryption of a request's content keeps the types of what it changes.  *)
LEMMA DecryptAndTellType ==
  ASSUME TypeOK, NEW r \in Request, DecryptAndTell(r)
  PROVE  told' \in [Request -> Seq(Callbacks)] /\ decryptedContentKeyMap' \subseteq Ck
<1>1. told' \in [Request -> Seq(Callbacks)]
  BY TellType, CallbackSeqs DEF DecryptAndTell
<1>2. decryptedContentKeyMap' \subseteq Ck
  BY ConsumerAssumption DEF DecryptAndTell, TypeOK, ConsumerAssumption
<1> QED BY <1>1, <1>2

(* A request joins the queue of a CK at its end.                            *)
LEMMA EnqueueType ==
  ASSUME TypeOK, NEW r \in Request, NEW k \in Ck, Enqueue(r, k)
  PROVE  /\ pendingCallbacks' \in [Ck -> Seq(Request)]
         /\ \A x \in Ck \ {k} : pendingCallbacks'[x] = pendingCallbacks[x]
         /\ \A x \in Ck : Len(pendingCallbacks[x]) <= Len(pendingCallbacks'[x])
         /\ Len(pendingCallbacks'[k]) = Len(pendingCallbacks[k]) + 1
         /\ \A i \in 1..Len(pendingCallbacks[k]) : pendingCallbacks'[k][i] = pendingCallbacks[k][i]
         /\ pendingCallbacks'[k][Len(pendingCallbacks[k]) + 1] = r
         /\ Len(pendingCallbacks[k]) \in Nat
<1>1. pendingCallbacks[k] \in Seq(Request) /\ Len(pendingCallbacks[k]) \in Nat
  BY LenProperties DEF TypeOK
<1>2. /\ Append(pendingCallbacks[k], r) \in Seq(Request)
      /\ Len(Append(pendingCallbacks[k], r)) = Len(pendingCallbacks[k]) + 1
      /\ \A i \in 1..Len(pendingCallbacks[k]) : Append(pendingCallbacks[k], r)[i] = pendingCallbacks[k][i]
      /\ Append(pendingCallbacks[k], r)[Len(pendingCallbacks[k]) + 1] = r
  BY <1>1, AppendProperties
<1>3. \A x \in Ck : Len(pendingCallbacks[x]) \in Nat
  BY DEF TypeOK
<1>4. /\ pendingCallbacks'[k] = Append(pendingCallbacks[k], r)
      /\ \A x \in Ck \ {k} : pendingCallbacks'[x] = pendingCallbacks[x]
  BY DEF TypeOK, Enqueue
<1>5. \A x \in Ck : Len(pendingCallbacks[x]) <= Len(pendingCallbacks'[x])
  BY <1>2, <1>3, <1>4
<1> QED BY <1>1, <1>2, <1>4, <1>5 DEF TypeOK, Enqueue
-----------------------------------------------------------------------------
(* A walk in the type invariant: it stays inside its vector.                *)
LEMMA WalkType ==
  ASSUME TypeOK, fanout # NoFanout
  PROVE  /\ fanout \in Walk /\ fanout.ck \in Ck /\ fanout.kind \in {"data", "error"}
         /\ fanout.next \in Nat /\ fanout.last \in Nat /\ fanout.moved \in BOOLEAN
         /\ fanout.last <= Len(pendingCallbacks[fanout.ck])
         /\ 1 <= fanout.next /\ fanout.next <= fanout.last + 1
BY DEF TypeOK, Walk

(* The waiter whose turn it is, is one of the waiters of the walk's CK.     *)
LEMMA WaiterType ==
  ASSUME TypeOK, WalkGoesOn
  PROVE  /\ Waiter \in Request
         /\ fanout.next \in 1..Len(pendingCallbacks[fanout.ck])
<1>1. pendingCallbacks[fanout.ck] \in Seq(Request)
  BY WalkType DEF TypeOK, WalkGoesOn
<1>2. fanout.next \in 1..Len(pendingCallbacks[fanout.ck])
  BY <1>1, WalkType DEF WalkGoesOn
<1> QED BY <1>1, <1>2, ElementOfSeq DEF Waiter

(* A step of a walk that goes on only moves its position.                   *)
LEMMA AdvanceType ==
  ASSUME TypeOK, WalkGoesOn, Advance
  PROVE  /\ fanout' \in Walk /\ fanout' # NoFanout
         /\ fanout'.ck = fanout.ck /\ fanout'.kind = fanout.kind
         /\ fanout'.last = fanout.last /\ fanout'.next = fanout.next + 1
         /\ fanout'.next \in 1..(fanout'.last + 1)
<1>1. fanout' \in Walk
  BY WalkType DEF Advance, WalkGoesOn, Walk
<1>2. fanout' # NoFanout
  BY <1>1, FanoutAssumption
<1> QED BY <1>1, <1>2, WalkType DEF Advance, WalkGoesOn, Walk

(* A walk begins before the first of the waiters there are.                 *)
LEMMA StartWalkType ==
  ASSUME TypeOK, NEW k \in Ck, NEW kind \in {"data", "error"}, StartWalk(k, kind)
  PROVE  /\ fanout' \in Walk /\ fanout' # NoFanout
         /\ fanout'.ck = k /\ fanout'.kind = kind /\ fanout'.next = 1
         /\ fanout'.last = Len(pendingCallbacks[k])
<1>1. pendingCallbacks[k] \in Seq(Request)
  BY DEF TypeOK
<1>2. fanout' \in Walk
  BY <1>1 DEF StartWalk, Walk
<1> QED BY <1>2, FanoutAssumption DEF StartWalk

(* A request that reaches decryptContent preserves the first half of the    *)
(* invariant, during a walk too.                                            *)
LEMMA DecryptContentMark ==
  ASSUME TypeOK, MarkInv, NEW r \in Request, DecryptContent(r)
  PROVE  MarkInv'
<1> DEFINE k == CkOf[r]
<1>1. k \in Ck
  BY ConsumerAssumption DEF ConsumerAssumption
<1>2. CASE CkCached(r, k)
  BY <1>2 DEF CkCached, DecryptContent, MarkInv, WalkOn
<1>3. CASE CkInFlight(r, k)
  <2>1. /\ UNCHANGED <<ckFetches, ckInterestsSent, ckEncAesCache>>
        /\ k \in ckInterestsSent
        /\ \A x \in Ck \ {k} : pendingCallbacks'[x] = pendingCallbacks[x]
    BY <1>1, <1>3, EnqueueType DEF CkInFlight, DecryptContent
  <2>2. \A x \in Ck : WalkOn(x)' <=> WalkOn(x)
    BY <1>3, WalkType, FanoutAssumption DEF CkInFlight, WalkOn, LoopIsFree, Walk
  <2>3. (fanout # NoFanout) => fanout'.kind = fanout.kind
    BY <1>3, WalkType DEF CkInFlight, LoopIsFree, Walk
  <2> QED BY <2>1, <2>2, <2>3 DEF MarkInv, WalkOn
<1>4. CASE CkFetchStarts(r, k)
  <2>1. \A x \in Ck \ {k} : pendingCallbacks'[x] = pendingCallbacks[x]
    BY <1>1, <1>4, EnqueueType DEF CkFetchStarts
  <2>2. ckFetches[k] = 0 /\ ~ WalkOn(k)
    BY <1>1, <1>4 DEF CkFetchStarts, MarkInv, TypeOK
  <2> QED BY <1>1, <1>4, <2>1, <2>2 DEF CkFetchStarts, DecryptContent, MarkInv, WalkOn, TypeOK
<1> QED BY <1>2, <1>3, <1>4 DEF DecryptContent

(* Every step preserves the first half of the invariant.                    *)
LEMMA StepMark == TypeOK /\ MarkInv /\ [Next]_vars => MarkInv'
<1> SUFFICES ASSUME TypeOK, MarkInv, [Next]_vars PROVE MarkInv'
  OBVIOUS
<1>1. CASE UNCHANGED marks
  BY <1>1 DEF marks, MarkInv, WalkOn
<1>2. ASSUME NEW r \in Request, DecryptContent(r) PROVE MarkInv'
  BY <1>2, DecryptContentMark
<1>3. ASSUME NEW k \in Ck, CkComplete(k) \/ CkError(k) PROVE MarkInv'
  BY <1>3, StartWalkType DEF CkComplete, CkError, CkFetchEnds, LoopIsFree, MarkInv, WalkOn, TypeOK
<1>4. ASSUME NEW k \in Ck, CkMalformed(k) PROVE MarkInv'
  BY <1>4 DEF CkMalformed, CkFetchEnds, MarkInv, WalkOn, TypeOK
<1>5. CASE WalkGoesOn /\ Advance /\ UNCHANGED fetching
  <2>1. \A k \in Ck : WalkOn(k)' <=> WalkOn(k)
    BY <1>5, AdvanceType DEF WalkOn, WalkGoesOn
  <2> QED BY <1>5, <2>1, AdvanceType DEF MarkInv, fetching
<1>6. CASE fanout' = NoFanout /\ UNCHANGED fetching
  BY <1>6 DEF MarkInv, WalkOn, fetching
<1>7. CASE FinishFanout
  <2>1. fanout.ck \in Ck
    BY <1>7, WalkType DEF FinishFanout
  <2> QED BY <1>7, <2>1 DEF FinishFanout, MarkInv, WalkOn, TypeOK
<1> QED
  BY <1>1, <1>2, <1>3, <1>4, <1>5, <1>6, <1>7
  DEF Next, Application, EventLoop, DataEnds, CkEnds, Fanout, vars, marks, fetching,
      LearnPublicParams, ObtainDecryptionKey, DkeyComplete, DkeyFail, DecryptedElsewhere,
      ClearCachedContentKeys, ConsumeNotReady, Consume, ConsumeBlock, DataComplete,
      DataMalformed, DataError, NotifyData, NotifyError, ReadFreedTask, Escape
-----------------------------------------------------------------------------
(* What TypeOK says of the keys, and of a walk over the waiters.            *)
KeyTypes ==
  /\ pubParams \in BOOLEAN
  /\ keyCache \in DKey \cup {NoKey} /\ heldKeys \subseteq DKey
  /\ dkeyFetches \in 0..MaxDkeyFetches

WalkTypes ==
  /\ fanout \in Walk \cup {NoFanout}
  /\ fanout # NoFanout =>
       /\ fanout.next \in 1..(fanout.last + 1)
       /\ fanout.last <= Len(pendingCallbacks[fanout.ck])

(* A request that reaches decryptContent keeps every type.                  *)
LEMMA DecryptContentType ==
  ASSUME TypeOK, NEW r \in Request, DecryptContent(r),
         asked' \subseteq Request, dataFetches' \subseteq Request
  PROVE  TypeOK'
<1> DEFINE k == CkOf[r]
<1>1. k \in Ck
  BY ConsumerAssumption DEF ConsumerAssumption
<1>2. CASE CkCached(r, k)
  BY <1>2, DecryptAndTellType DEF CkCached, DecryptContent, TypeOK, keys, Callbacks
<1>3. CASE CkInFlight(r, k)
  <2>1. /\ pendingCallbacks' \in [Ck -> Seq(Request)]
        /\ \A x \in Ck : Len(pendingCallbacks[x]) <= Len(pendingCallbacks'[x])
    BY <1>1, <1>3, EnqueueType DEF CkInFlight, TypeOK
  <2>2. WalkTypes'
    <3>1. CASE UNCHANGED fanout
      BY <2>1, <3>1, WalkType DEF WalkTypes, TypeOK
    <3>2. CASE ~ LoopIsFree /\ fanout' = [fanout EXCEPT !.moved = TRUE]
      <4>1. /\ fanout' \in Walk /\ fanout'.ck = fanout.ck
            /\ fanout'.next = fanout.next /\ fanout'.last = fanout.last
        BY <3>2, WalkType DEF LoopIsFree, Walk
      <4> QED BY <2>1, <3>2, <4>1, WalkType DEF WalkTypes, LoopIsFree, TypeOK
    <3> QED BY <1>3, <3>1, <3>2 DEF CkInFlight
  <2> QED BY <1>3, <2>1, <2>2 DEF CkInFlight, DecryptContent, TypeOK, WalkTypes, keys
<1>4. CASE CkFetchStarts(r, k)
  <2>1. /\ pendingCallbacks' \in [Ck -> Seq(Request)]
        /\ \A x \in Ck : Len(pendingCallbacks[x]) <= Len(pendingCallbacks'[x])
    BY <1>1, <1>4, EnqueueType DEF CkFetchStarts, TypeOK
  <2>2. WalkTypes'
    BY <1>4, <2>1, WalkType DEF CkFetchStarts, WalkTypes, TypeOK
  <2>3. ckInterestsSent' \subseteq Ck /\ ckFetches' \in [Ck -> Nat]
    BY <1>1, <1>4 DEF CkFetchStarts, TypeOK
  <2> QED BY <1>4, <2>1, <2>2, <2>3 DEF CkFetchStarts, DecryptContent, TypeOK, WalkTypes, keys
<1> QED BY <1>2, <1>3, <1>4 DEF DecryptContent

(* A step of a walk keeps every type.                                       *)
LEMMA WalkStepType ==
  ASSUME TypeOK, NotifyData \/ NotifyError \/ ReadFreedTask
  PROVE  TypeOK'
<1>1. WalkGoesOn /\ Waiter \in Request /\ (Advance \/ fanout' = NoFanout)
  BY WaiterType DEF NotifyData, NotifyError, ReadFreedTask, Escape
<1>2. told' \in [Request -> Seq(Callbacks)] /\ decryptedContentKeyMap' \subseteq Ck
  <2>1. CASE NotifyData
    BY <1>1, <2>1, DecryptAndTellType DEF NotifyData
  <2>2. CASE NotifyError \/ ReadFreedTask
    BY <1>1, <2>2, TellType, CallbackSeqs DEF NotifyError, ReadFreedTask, TypeOK, Callbacks
  <2> QED BY <2>1, <2>2
<1>3. UNCHANGED <<asked, fetching, keys>>
  BY DEF NotifyData, NotifyError, ReadFreedTask
<1>4. WalkTypes'
  <2>1. CASE Advance
    <3>1. /\ fanout' \in Walk /\ fanout'.next \in 1..(fanout'.last + 1)
          /\ fanout'.ck = fanout.ck /\ fanout'.last = fanout.last
      BY <1>1, <2>1, AdvanceType
    <3>2. fanout.last <= Len(pendingCallbacks[fanout.ck]) /\ pendingCallbacks' = pendingCallbacks
      BY <1>1, <1>3, WalkType DEF WalkGoesOn, fetching
    <3> QED BY <3>1, <3>2 DEF WalkTypes
  <2>2. CASE fanout' = NoFanout
    BY <2>2 DEF WalkTypes
  <2> QED BY <1>1, <2>1, <2>2
<1> QED BY <1>2, <1>3, <1>4 DEF TypeOK, WalkTypes, fetching, keys, Callbacks

(* Every step keeps every type.                                             *)
LEMMA StepType == TypeOK /\ [Next]_vars => TypeOK'
<1> SUFFICES ASSUME TypeOK, [Next]_vars PROVE TypeOK'
  OBVIOUS
<1>1. CASE UNCHANGED vars
  BY <1>1 DEF vars, fetching, keys, answers, TypeOK
<1>2. CASE UNCHANGED <<fetching, answers, fanout>> /\ KeyTypes'
  BY <1>2 DEF KeyTypes, fetching, answers, TypeOK
<1>3. LearnPublicParams \/ ObtainDecryptionKey \/ DkeyFail \/ (\E d \in DKey : DkeyComplete(d))
        => KeyTypes' /\ UNCHANGED <<fetching, answers, fanout>>
  <2> USE ConsumerAssumption DEF ConsumerAssumption, KeyTypes, TypeOK
  <2>1. CASE LearnPublicParams
    BY <2>1 DEF LearnPublicParams
  <2>2. CASE ObtainDecryptionKey
    BY <2>2 DEF ObtainDecryptionKey
  <2>3. CASE DkeyFail
    BY <2>3 DEF DkeyFail
  <2>4. ASSUME NEW d \in DKey, DkeyComplete(d)
        PROVE  KeyTypes' /\ UNCHANGED <<fetching, answers, fanout>>
    BY <2>4 DEF DkeyComplete
  <2> QED BY <2>1, <2>2, <2>3, <2>4
<1>4. ASSUME UNCHANGED <<asked, told, fetching, keys, fanout>>, decryptedContentKeyMap' \subseteq Ck
      PROVE  TypeOK'
  BY <1>4 DEF TypeOK, fetching, keys
<1>5. CASE ClearCachedContentKeys
  BY <1>4, <1>5 DEF ClearCachedContentKeys
<1>6. CASE \E k \in Ck : DecryptedElsewhere(k)
  BY <1>4, <1>6 DEF DecryptedElsewhere, TypeOK
<1>7. ASSUME NEW r \in Request, ConsumeNotReady(r) PROVE TypeOK'
  BY <1>7, TellType, CallbackSeqs DEF ConsumeNotReady, TypeOK, fetching, keys, Callbacks
<1>8. ASSUME NEW r \in Request, Consume(r) PROVE TypeOK'
  BY <1>8 DEF Consume, TypeOK, keys
<1>9. ASSUME NEW r \in Request, ConsumeBlock(r) \/ DataComplete(r) PROVE TypeOK'
  BY <1>9, DecryptContentType DEF ConsumeBlock, DataComplete, TypeOK
<1>10. ASSUME NEW r \in Request, DataMalformed(r) PROVE TypeOK'
  BY <1>10 DEF DataMalformed, TypeOK, keys, answers
<1>11. ASSUME NEW r \in Request, DataError(r) PROVE TypeOK'
  BY <1>11, TellType, CallbackSeqs DEF DataError, TypeOK, keys, Callbacks
<1>12. ASSUME NEW k \in Ck, CkEnds(k) PROVE TypeOK'
  <2>1. ckFetches' \in [Ck -> Nat] /\ ckEncAesCache' \subseteq Ck
    BY <1>12 DEF CkEnds, CkComplete, CkMalformed, CkError, CkFetchEnds, TypeOK
  <2>2. WalkTypes'
    BY <1>12, StartWalkType, FanoutAssumption
    DEF CkEnds, CkComplete, CkMalformed, CkError, CkFetchEnds, WalkTypes, TypeOK
  <2> QED
    BY <1>12, <2>1, <2>2
    DEF CkEnds, CkComplete, CkMalformed, CkError, CkFetchEnds, WalkTypes, TypeOK, keys, answers
<1>13. CASE NotifyData \/ NotifyError \/ ReadFreedTask
  BY <1>13, WalkStepType
<1>14. CASE FinishFanout
  <2>1. /\ pendingCallbacks' = [pendingCallbacks EXCEPT ![fanout.ck] = <<>>]
        /\ ckInterestsSent' = ckInterestsSent \ {fanout.ck}
    BY <1>14 DEF FinishFanout
  <2>2. pendingCallbacks' \in [Ck -> Seq(Request)] /\ ckInterestsSent' \subseteq Ck
    BY <2>1, EmptySeq DEF TypeOK
  <2> QED BY <1>14, <2>2 DEF FinishFanout, TypeOK, keys, answers
<1> QED
  BY <1>1, <1>2, <1>3, <1>5, <1>6, <1>7, <1>8, <1>9, <1>10, <1>11, <1>12, <1>13, <1>14
  DEF Next, Application, EventLoop, DataEnds, Fanout

(* The initial states have their types, and no fetch and no walk.           *)
LEMMA InitTypeMark == Init => TypeOK /\ MarkInv
<1> SUFFICES ASSUME Init PROVE TypeOK /\ MarkInv
  OBVIOUS
<1>1. told \in [Request -> Seq(Callbacks)] /\ pendingCallbacks \in [Ck -> Seq(Request)]
  BY DEF Init
<1>2. KeyTypes
  <2>1. pubParams \in BOOLEAN
    BY DEF Init
  <2>2. dkeyFetches \in 0..MaxDkeyFetches
    BY ConsumerAssumption DEF ConsumerAssumption, Init
  <2> QED BY <2>1, <2>2 DEF Init, KeyTypes
<1>3. ckFetches \in [Ck -> Nat] /\ fanout = NoFanout
  BY DEF Init
<1>4. TypeOK
  BY <1>1, <1>2, <1>3 DEF Init, TypeOK, KeyTypes, Callbacks
<1>5. MarkInv
  BY DEF Init, MarkInv, WalkOn
<1> QED BY <1>4, <1>5

(* In any environment every variable keeps its type, and every walk stays   *)
(* inside the vector of waiters it walks over.                              *)
THEOREM TypeCorrect == Spec => []TypeOK
BY InitTypeMark, StepType, PTL DEF Spec

(* In any environment a CK has one mark for its one fetch or walk.          *)
THEOREM MarksHeld == Spec => [](TypeOK /\ MarkInv)
BY InitTypeMark, StepType, StepMark, PTL DEF Spec

(* In any environment, and from any callback, at most one fetch of a CK is  *)
(* in flight, and none of a cached one.                                     *)
THEOREM FetchesDeduplicated == Spec => []OneFetchPerCk
<1>1. TypeOK /\ MarkInv => OneFetchPerCk
  BY DEF MarkInv, OneFetchPerCk, TypeOK
<1> QED BY <1>1, MarksHeld, PTL
-----------------------------------------------------------------------------
(* The one handler's answer to a request not told anything before.          *)
TellsOnce(r) == \E s \in Answers : told' = [told EXCEPT ![r] = s]

(* An untold request that is told something is told nothing else.           *)
LEMMA TellOnce ==
  ASSUME TypeOK, NEW r \in Request, told[r] = <<>>, NEW s \in Answers, Tell(r, s)
  PROVE  TellsOnce(r)
<1>1. s \in Seq(Callbacks)
  BY CallbackSeqs DEF Answers
<1>2. told[r] \o s = s
  BY <1>1, ConcatEmptySeq
<1> QED BY <1>2 DEF Tell, TellsOnce

(* A single onError is an answer.                                           *)
LEMMA ErrorAnswers == <<"onError">> \in Answers
BY DEF Answers

(* A decryption answers the request, whether or not onSuccess throws.       *)
LEMMA DecryptOnce ==
  ASSUME TypeOK, NEW r \in Request, told[r] = <<>>, DecryptAndTell(r)
  PROVE  TellsOnce(r)
<1>1. \E s \in Answers : Tell(r, s)
  BY DEF DecryptAndTell, Answers
<1> QED BY <1>1, TellOnce

(* Who is not told keeps what it was told.                                  *)
LEMMA OthersUntold ==
  ASSUME TypeOK, NEW r \in Request, TellsOnce(r)
  PROVE  \A x \in Request \ {r} : told'[x] = told[x]
BY DEF TellsOnce, TypeOK

(* A place in a queue holds a request.                                      *)
LEMMA PlaceType ==
  ASSUME TypeOK, NEW k \in Ck, NEW i \in 1..Len(pendingCallbacks[k])
  PROVE  pendingCallbacks[k][i] \in Request
<1>1. pendingCallbacks[k] \in Seq(Request)
  BY DEF TypeOK
<1> QED BY <1>1, ElementOfSeq

(* Queues that nobody touches, whose requests nobody tells anything, stay   *)
(* as they are, even if fewer of their places are awaited.                  *)
LEMMA QueuesUntouched ==
  ASSUME TypeOK, QueueInv, pendingCallbacks' = pendingCallbacks, asked \subseteq asked',
         \A r \in asked \ dataFetches : r \notin dataFetches' /\ told'[r] = told[r],
         \A k \in Ck : \A i \in 1..Len(pendingCallbacks[k]) : Awaits(k, i)' => Awaits(k, i)
  PROVE  QueueInv'
BY DEF QueueInv

(* A request enters decryptContent as it is asked, or as its data arrives.  *)
Enters(r) ==
  \/ r \notin asked /\ asked' = asked \cup {r} /\ dataFetches' = dataFetches
  \/ r \in dataFetches /\ asked' = asked /\ dataFetches' = dataFetches \ {r}

(* Entering decryptContent preserves the second half of the invariant.      *)
LEMMA DecryptContentWait ==
  ASSUME TypeOK, MarkInv, WaitInv, NEW r \in Request, Enters(r), DecryptContent(r)
  PROVE  WaitInv'
<1> DEFINE k == CkOf[r]
<1>1. k \in Ck
  BY ConsumerAssumption DEF ConsumerAssumption
<1>2. /\ told[r] = <<>>
      /\ r \in asked' /\ r \notin dataFetches'
      /\ asked \subseteq asked' /\ dataFetches' \subseteq dataFetches
      /\ asked' \subseteq asked \cup {r}
      /\ r \in asked => r \in dataFetches
  BY DEF Enters, WaitInv, UntoldInv, TypeOK
<1>3. CASE CkCached(r, k)
  <2>1. TellsOnce(r)
    BY <1>2, <1>3, DecryptOnce DEF CkCached
  <2>2. \A x \in Request \ {r} : told'[x] = told[x]
    BY <2>1, OthersUntold
  <2>3. UntoldInv'
    BY <1>2, <2>2 DEF WaitInv, UntoldInv, TypeOK
  <2>4. QueueInv'
    <3>1. \A x \in asked \ dataFetches : x \notin dataFetches' /\ told'[x] = told[x]
      BY <1>2, <2>2 DEF TypeOK
    <3>2. UNCHANGED <<ckFetches, pendingCallbacks, fanout>>
      BY <1>3 DEF CkCached
    <3>3. \A x \in Ck : \A i \in 1..Len(pendingCallbacks[x]) : Awaits(x, i)' => Awaits(x, i)
      BY <3>2 DEF Awaits, WalkOn
    <3> QED BY <1>2, <3>1, <3>2, <3>3, QueuesUntouched DEF WaitInv
  <2> QED BY <2>3, <2>4 DEF WaitInv
<1>4. CASE (CkInFlight(r, k) \/ CkFetchStarts(r, k)) /\ Enqueue(r, k)
  <2>1. told' = told
    BY <1>4 DEF CkInFlight, CkFetchStarts
  <2>2. UntoldInv'
    BY <1>2, <2>1 DEF WaitInv, UntoldInv, TypeOK
  <2>3. /\ \A x \in Ck \ {k} : pendingCallbacks'[x] = pendingCallbacks[x]
        /\ Len(pendingCallbacks'[k]) = Len(pendingCallbacks[k]) + 1
        /\ \A i \in 1..Len(pendingCallbacks[k]) : pendingCallbacks'[k][i] = pendingCallbacks[k][i]
        /\ pendingCallbacks'[k][Len(pendingCallbacks[k]) + 1] = r
        /\ Len(pendingCallbacks[k]) \in Nat
    <3>1. r \in Request /\ k \in Ck /\ TypeOK /\ Enqueue(r, k)
      BY <1>1, <1>4
    <3> HIDE DEF k
    <3> QED BY <3>1, EnqueueType
  <2>4. \A x \in Ck : \A i \in 1..Len(pendingCallbacks[x]) : Awaits(x, i)' => Awaits(x, i)
    <3>1. CASE CkInFlight(r, k)
      BY <3>1, WalkType DEF CkInFlight, Awaits, WalkOn, LoopIsFree, Walk
    <3>2. CASE CkFetchStarts(r, k)
      <4>1. pendingCallbacks[k] = <<>>
        BY <1>1, <3>2 DEF CkFetchStarts, MarkInv
      <4>2. \A x \in Ck \ {k} : ckFetches'[x] = ckFetches[x]
        BY <3>2 DEF CkFetchStarts, TypeOK
      <4> QED BY <3>2, <4>1, <4>2 DEF CkFetchStarts, Awaits, WalkOn
    <3> QED BY <1>4, <3>1, <3>2
  <2>5. \A x \in Ck : \A i \in 1..Len(pendingCallbacks[x]) : pendingCallbacks[x][i] # r
    BY <1>2 DEF WaitInv, QueueInv
  <2>6. QueueInv'
    <3> SUFFICES ASSUME NEW x \in Ck, NEW i \in 1..Len(pendingCallbacks'[x])
                 PROVE  LET q == pendingCallbacks'[x][i]
                        IN  /\ q \in asked' /\ q \notin dataFetches' /\ CkOf[q] = x
                            /\ Awaits(x, i)' => told'[q] = <<>>
                            /\ \A j \in 1..Len(pendingCallbacks'[x]) :
                                 pendingCallbacks'[x][j] = q => j = i
      BY DEF QueueInv
    <3>1. CASE x # k
      <4>1. pendingCallbacks'[x] = pendingCallbacks[x] /\ i \in 1..Len(pendingCallbacks[x])
        BY <2>3, <3>1
      <4>2. /\ pendingCallbacks[x][i] \in asked' /\ pendingCallbacks[x][i] \notin dataFetches'
            /\ CkOf[pendingCallbacks[x][i]] = x
            /\ Awaits(x, i)' => told'[pendingCallbacks[x][i]] = <<>>
        BY <1>2, <2>1, <2>4, <4>1 DEF WaitInv, QueueInv
      <4>3. \A j \in 1..Len(pendingCallbacks[x]) :
              pendingCallbacks[x][j] = pendingCallbacks[x][i] => j = i
        BY <4>1 DEF WaitInv, QueueInv
      <4> QED BY <4>1, <4>2, <4>3
    <3>2. CASE x = k /\ i = Len(pendingCallbacks[k]) + 1
      <4>1. pendingCallbacks'[x][i] = r /\ told'[r] = <<>> /\ CkOf[r] = x
        BY <1>2, <2>1, <2>3, <3>2
      <4>2. \A j \in 1..Len(pendingCallbacks'[x]) : pendingCallbacks'[x][j] = r => j = i
        <5> SUFFICES ASSUME NEW j \in 1..Len(pendingCallbacks'[x]), j # i
                     PROVE  pendingCallbacks'[x][j] # r
          OBVIOUS
        <5>1. j \in 1..Len(pendingCallbacks[k])
          BY <2>3, <3>2
        <5> QED BY <1>1, <2>3, <2>5, <3>2, <5>1
      <4> QED BY <1>2, <4>1, <4>2
    <3>3. CASE x = k /\ i \in 1..Len(pendingCallbacks[k])
      <4>1. pendingCallbacks'[x][i] = pendingCallbacks[x][i]
        BY <2>3, <3>3
      <4>2. /\ pendingCallbacks[x][i] \in asked' /\ pendingCallbacks[x][i] \notin dataFetches'
            /\ CkOf[pendingCallbacks[x][i]] = x
            /\ Awaits(x, i)' => told'[pendingCallbacks[x][i]] = <<>>
        BY <1>2, <2>1, <2>4, <3>3 DEF WaitInv, QueueInv
      <4>3. \A j \in 1..Len(pendingCallbacks'[x]) :
              pendingCallbacks'[x][j] = pendingCallbacks[x][i] => j = i
        <5> SUFFICES ASSUME NEW j \in 1..Len(pendingCallbacks'[x]),
                            pendingCallbacks'[x][j] = pendingCallbacks[x][i]
                     PROVE  j = i
          OBVIOUS
        <5>1. pendingCallbacks[x][i] # r
          BY <1>1, <2>5, <3>3
        <5>2. j \in 1..Len(pendingCallbacks[x])
          BY <2>3, <3>3, <5>1
        <5>3. pendingCallbacks[x][j] = pendingCallbacks[x][i]
          BY <2>3, <3>3, <5>2
        <5> QED BY <3>3, <5>2, <5>3 DEF WaitInv, QueueInv
      <4> QED BY <4>1, <4>2, <4>3
    <3> QED BY <2>3, <3>1, <3>2, <3>3
  <2> QED BY <2>2, <2>6 DEF WaitInv
<1> QED BY <1>3, <1>4 DEF DecryptContent, CkInFlight, CkFetchStarts

(* The waiter whose turn it is has been asked for and told nothing, and     *)
(* stands nowhere else.                                                     *)
LEMMA WaiterUntold ==
  ASSUME TypeOK, WaitInv, WalkGoesOn
  PROVE  /\ told[Waiter] = <<>> /\ Waiter \in asked /\ Waiter \notin dataFetches
         /\ \A k \in Ck : \A i \in 1..Len(pendingCallbacks[k]) :
              pendingCallbacks[k][i] = Waiter => k = fanout.ck /\ i = fanout.next
<1>1. fanout.ck \in Ck /\ fanout.next \in 1..Len(pendingCallbacks[fanout.ck])
  BY WalkType, WaiterType DEF WalkGoesOn
<1>2. Awaits(fanout.ck, fanout.next)
  BY WalkType DEF Awaits, WalkOn, WalkGoesOn
<1>3. CkOf[Waiter] = fanout.ck
  BY <1>1 DEF WaitInv, QueueInv, Waiter
<1> QED BY <1>1, <1>2, <1>3 DEF WaitInv, QueueInv, Waiter

(* A step of a walk tells at most the waiter whose turn it is.              *)
LEMMA WalkStepTells ==
  ASSUME TypeOK, WaitInv,
         NotifyData \/ NotifyError \/ ReadFreedTask
  PROVE  /\ WalkGoesOn /\ UNCHANGED <<asked, fetching>>
         /\ told' = told \/ TellsOnce(Waiter)
         /\ Advance \/ fanout' = NoFanout
<1>1. WalkGoesOn /\ UNCHANGED <<asked, fetching>> /\ (Advance \/ fanout' = NoFanout)
  BY DEF NotifyData, NotifyError, ReadFreedTask, Escape
<1>2. Waiter \in Request /\ told[Waiter] = <<>>
  BY <1>1, WaiterType, WaiterUntold
<1>3. CASE NotifyData
  BY <1>1, <1>2, <1>3, DecryptOnce DEF NotifyData
<1>4. CASE NotifyError \/ ReadFreedTask
  BY <1>1, <1>2, <1>4, TellOnce, ErrorAnswers DEF NotifyError, ReadFreedTask
<1> QED BY <1>1, <1>3, <1>4

(* A step of a walk preserves the second half of the invariant: the place   *)
(* of the waiter it told is awaited no more.                                *)
LEMMA WalkStepWait ==
  ASSUME TypeOK, MarkInv, WaitInv,
         NotifyData \/ NotifyError \/ ReadFreedTask
  PROVE  WaitInv'
<1>1. /\ WalkGoesOn /\ UNCHANGED <<asked, fetching>>
      /\ told' = told \/ TellsOnce(Waiter)
      /\ Advance \/ fanout' = NoFanout
  BY WalkStepTells
<1>2. /\ Waiter \in Request /\ Waiter \in asked /\ Waiter \notin dataFetches
      /\ \A k \in Ck : \A i \in 1..Len(pendingCallbacks[k]) :
           pendingCallbacks[k][i] = Waiter => k = fanout.ck /\ i = fanout.next
  BY <1>1, WaiterType, WaiterUntold
<1>3. \A x \in Request \ {Waiter} : told'[x] = told[x]
  BY <1>1, <1>2, OthersUntold
<1>4. UntoldInv'
  BY <1>1, <1>2, <1>3 DEF WaitInv, UntoldInv, fetching, TypeOK
<1>5. ASSUME NEW k \in Ck, NEW i \in 1..Len(pendingCallbacks[k])
      PROVE  Awaits(k, i)' => Awaits(k, i) /\ pendingCallbacks[k][i] # Waiter
  <2>1. CASE Advance
    BY <1>1, <1>2, <1>5, <2>1, AdvanceType, WalkType DEF Awaits, WalkOn, WalkGoesOn, MarkInv, fetching
  <2>2. CASE fanout' = NoFanout
    BY <1>1, <1>2, <1>5, <2>2, WalkType DEF Awaits, WalkOn, WalkGoesOn, MarkInv, fetching
  <2> QED BY <1>1, <2>1, <2>2
<1>6. QueueInv'
  <2> SUFFICES ASSUME NEW k \in Ck, NEW i \in 1..Len(pendingCallbacks[k]), Awaits(k, i)'
               PROVE  told'[pendingCallbacks[k][i]] = <<>>
    BY <1>1 DEF WaitInv, QueueInv, fetching
  <2>1. pendingCallbacks[k][i] \in Request \ {Waiter} /\ Awaits(k, i)
    BY <1>5, PlaceType
  <2> QED BY <1>3, <2>1 DEF WaitInv, QueueInv
<1> QED BY <1>4, <1>6 DEF WaitInv

(* Every step preserves the second half of the invariant.                   *)
LEMMA StepWait == TypeOK /\ MarkInv /\ WaitInv /\ [Next]_vars => WaitInv'
<1> SUFFICES ASSUME TypeOK, MarkInv, WaitInv, [Next]_vars PROVE WaitInv'
  OBVIOUS
<1>1. CASE UNCHANGED <<fetching, fanout, asked, told>>
  BY <1>1 DEF WaitInv, UntoldInv, QueueInv, Awaits, WalkOn, fetching
<1>2. ASSUME NEW r \in Request, ConsumeBlock(r) \/ DataComplete(r) PROVE WaitInv'
  <2>1. Enters(r) /\ DecryptContent(r)
    BY <1>2 DEF ConsumeBlock, DataComplete, Enters
  <2> QED BY <2>1, DecryptContentWait
<1>3. ASSUME NEW r \in Request,
             ConsumeNotReady(r) \/ Consume(r) \/ DataError(r) \/ DataMalformed(r)
      PROVE  WaitInv'
  <2>1. told[r] = <<>> /\ (r \in asked => r \in dataFetches)
    BY <1>3 DEF ConsumeNotReady, Consume, DataError, DataMalformed, WaitInv, UntoldInv
  <2>2. told' = told \/ TellsOnce(r)
    BY <1>3, <2>1, TellOnce, ErrorAnswers DEF ConsumeNotReady, Consume, DataError, DataMalformed, answers
  <2>3. \A x \in Request \ {r} : told'[x] = told[x]
    BY <2>2, OthersUntold
  <2>4. UNCHANGED <<ckFetches, pendingCallbacks, fanout>> /\ asked \subseteq asked'
    BY <1>3 DEF ConsumeNotReady, Consume, DataError, DataMalformed, fetching, answers
  <2>5. UntoldInv'
    BY <1>3, <2>1, <2>3
    DEF ConsumeNotReady, Consume, DataError, DataMalformed, fetching, answers, WaitInv, UntoldInv, TypeOK
  <2>6. \A x \in asked \ dataFetches : x \notin dataFetches' /\ told'[x] = told[x]
    BY <1>3, <2>1, <2>3
    DEF ConsumeNotReady, Consume, DataError, DataMalformed, fetching, answers, TypeOK
  <2>7. \A k \in Ck : \A i \in 1..Len(pendingCallbacks[k]) : Awaits(k, i)' => Awaits(k, i)
    BY <2>4 DEF Awaits, WalkOn
  <2> QED BY <2>4, <2>5, <2>6, <2>7, QueuesUntouched DEF WaitInv
<1>4. ASSUME NEW k \in Ck, CkEnds(k) PROVE WaitInv'
  <2>1. /\ UNCHANGED <<asked, told, dataFetches, pendingCallbacks>>
        /\ ckFetches[k] = 1 /\ fanout = NoFanout
        /\ \A x \in Ck \ {k} : ckFetches'[x] = ckFetches[x]
        /\ ckFetches'[k] = 0
    BY <1>4 DEF CkEnds, CkComplete, CkMalformed, CkError, CkFetchEnds, LoopIsFree, answers, MarkInv, TypeOK
  <2>2. fanout' = NoFanout \/ fanout'.ck = k
    BY <1>4, <2>1, StartWalkType DEF CkEnds, CkComplete, CkMalformed, CkError
  <2>3. \A x \in Ck : \A i \in 1..Len(pendingCallbacks[x]) : Awaits(x, i)' => Awaits(x, i)
    BY <2>1, <2>2 DEF Awaits, WalkOn
  <2> QED BY <2>1, <2>3, QueuesUntouched DEF WaitInv, UntoldInv
<1>5. CASE NotifyData \/ NotifyError \/ ReadFreedTask
  BY <1>5, WalkStepWait
<1>6. CASE FinishFanout
  <2>1. /\ UNCHANGED <<asked, told, dataFetches, ckFetches>> /\ fanout' = NoFanout
        /\ \A k \in Ck \ {fanout.ck} : pendingCallbacks'[k] = pendingCallbacks[k]
        /\ Len(pendingCallbacks'[fanout.ck]) = 0
    BY <1>6, WalkType DEF FinishFanout, answers, TypeOK
  <2>2. QueueInv'
    <3> SUFFICES ASSUME NEW k \in Ck, k # fanout.ck, NEW i \in 1..Len(pendingCallbacks[k])
                 PROVE  Awaits(k, i)' => Awaits(k, i)
      BY <2>1 DEF WaitInv, QueueInv
    <3> QED BY <2>1 DEF Awaits, WalkOn
  <2> QED BY <2>1, <2>2 DEF WaitInv, UntoldInv
<1> QED
  BY <1>1, <1>2, <1>3, <1>4, <1>5, <1>6
  DEF Next, Application, EventLoop, DataEnds, Fanout, vars, fetching, answers,
      LearnPublicParams, ObtainDecryptionKey, DkeyComplete, DkeyFail, DecryptedElsewhere,
      ClearCachedContentKeys
-----------------------------------------------------------------------------
(* The initial states satisfy the second half of the invariant.             *)
LEMMA InitWait == Init => WaitInv
BY DEF Init, WaitInv, UntoldInv, QueueInv

(* In any environment every request waits in one place, untold while it is  *)
(* awaited there.                                                           *)
THEOREM WaitsHeld == Spec => [](TypeOK /\ MarkInv /\ WaitInv)
<1>1. Init => TypeOK /\ MarkInv /\ WaitInv
  BY InitTypeMark, InitWait
<1>2. TypeOK /\ MarkInv /\ WaitInv /\ [Next]_vars => (TypeOK /\ MarkInv /\ WaitInv)'
  BY StepType, StepMark, StepWait
<1> QED BY <1>1, <1>2, PTL DEF Spec

(* A step of ConsumeOnce, or nothing to it, where an answer may be onSuccess*)
(* throwing and onError telling of it.                                      *)
OnceStep ==
  \/ UNCHANGED <<asked, told>>
  \/ \E r \in Request :
       \/ r \notin asked /\ asked' = asked \cup {r} /\ UNCHANGED told
       \/ /\ (r \in asked /\ asked' = asked) \/ (r \notin asked /\ asked' = asked \cup {r})
          /\ told[r] = <<>> /\ TellsOnce(r)

(* What entering decryptContent is to a request.                            *)
LEMMA EntersOnce ==
  ASSUME TypeOK, WaitInv, NEW r \in Request, Enters(r), DecryptContent(r)
  PROVE  OnceStep
<1>1. told[r] = <<>> /\ (r \in dataFetches => r \in asked)
  BY DEF Enters, WaitInv, UntoldInv
<1>2. CASE CkCached(r, CkOf[r])
  <2>1. TellsOnce(r)
    BY <1>1, <1>2, DecryptOnce DEF CkCached
  <2> QED BY <1>1, <2>1 DEF Enters, OnceStep
<1>3. CASE told' = told
  BY <1>3 DEF Enters, OnceStep
<1> QED BY <1>2, <1>3 DEF DecryptContent, CkInFlight, CkFetchStarts

(* Every step of the Consumer asks, answers, or does neither.               *)
LEMMA StepOnce ==
  ASSUME TypeOK, WaitInv, [Next]_vars
  PROVE  OnceStep
<1>1. ASSUME NEW r \in Request, ConsumeBlock(r) \/ DataComplete(r) PROVE OnceStep
  <2>1. Enters(r) /\ DecryptContent(r)
    BY <1>1 DEF ConsumeBlock, DataComplete, Enters
  <2> QED BY <2>1, EntersOnce
<1>2. ASSUME NEW r \in Request, Consume(r) PROVE OnceStep
  BY <1>2 DEF Consume, OnceStep
<1>3. ASSUME NEW r \in Request, ConsumeNotReady(r) \/ DataError(r) PROVE OnceStep
  <2>1. told[r] = <<>> /\ Tell(r, <<"onError">>) /\ (r \in dataFetches => r \in asked)
    BY <1>3 DEF ConsumeNotReady, DataError, WaitInv, UntoldInv
  <2>2. TellsOnce(r)
    BY <2>1, TellOnce, ErrorAnswers
  <2> QED BY <1>3, <2>1, <2>2 DEF ConsumeNotReady, DataError, OnceStep
<1>4. CASE NotifyData \/ NotifyError \/ ReadFreedTask
  <2>1. WalkGoesOn /\ asked' = asked /\ (told' = told \/ TellsOnce(Waiter))
    BY <1>4, WalkStepTells
  <2>2. Waiter \in Request /\ told[Waiter] = <<>> /\ Waiter \in asked
    BY <2>1, WaiterType, WaiterUntold
  <2> QED BY <2>1, <2>2 DEF OnceStep
<1> QED
  BY <1>1, <1>2, <1>3, <1>4
  DEF OnceStep, Next, Application, EventLoop, DataEnds, CkEnds, Fanout, vars, answers,
      LearnPublicParams, ObtainDecryptionKey, DkeyComplete, DkeyFail, DecryptedElsewhere,
      ClearCachedContentKeys, DataMalformed, CkComplete, CkMalformed, CkError, CkFetchEnds,
      FinishFanout

(* In any environment, a request is answered by one handler, after it was   *)
(* made, and never again.                                                   *)
THEOREM AnsweredOnce == Spec => AnswersOnce
<1>1. ASSUME TypeOK, OnceStep, NEW r \in Request, told'[r] # told[r]
      PROVE  r \in asked' /\ told[r] = <<>> /\ told'[r] \in Answers
  <2>1. PICK x \in Request :
          /\ (x \in asked /\ asked' = asked) \/ (x \notin asked /\ asked' = asked \cup {x})
          /\ told[x] = <<>> /\ TellsOnce(x)
    BY <1>1 DEF OnceStep
  <2>2. x = r
    BY <1>1, <2>1, OthersUntold
  <2>3. told'[r] \in Answers
    BY <1>1, <2>1, <2>2 DEF TellsOnce, TypeOK
  <2> QED BY <2>1, <2>2, <2>3
<1>2. TypeOK /\ WaitInv /\ [Next]_vars =>
        [\A r \in Request : told'[r] # told[r] =>
           r \in asked' /\ told[r] = <<>> /\ told'[r] \in Answers]_vars
  BY <1>1, StepOnce
<1> QED BY <1>2, WaitsHeld, PTL DEF Spec, AnswersOnce

(* Where no onSuccess callback throws, that is the safety half of what      *)
(* ConsumeOnce promises, whatever else goes wrong.                          *)
THEOREM OnceSafe == "successThrows" \notin Trouble => (Spec => Once!Safety)
<1> SUFFICES ASSUME "successThrows" \notin Trouble PROVE Spec => Once!Safety
  OBVIOUS
<1>1. Init => Once!Init
  BY DEF Init, Once!Init
<1>2. OnceStep => [Once!Next]_<<asked, told>>
  <2>1. ASSUME NEW r \in Request, TellsOnce(r)
        PROVE  \E callback \in {"onSuccess", "onError"} : told' = [told EXCEPT ![r] = <<callback>>]
    BY <2>1 DEF TellsOnce, Answers
  <2> QED BY <2>1 DEF OnceStep, Once!Next, Once!Ask, Once!Answer, Once!AskAnswered
<1>3. TypeOK /\ WaitInv /\ [Next]_vars => [Once!Next]_<<asked, told>>
  BY <1>2, StepOnce
<1> QED BY <1>1, <1>3, WaitsHeld, PTL DEF Spec, Once!Safety
-----------------------------------------------------------------------------
(* A marked CK, or one with waiters, has a fetch or a walk to clear it; only*)
(* a malformed CK and a throwing onError callback take it away.             *)
LEMMA StepStranded ==
  ASSUME TypeOK, MarkInv, NoWaiterStranded, "badCk" \notin Trouble, "errorThrows" \notin Trouble,
         [Next]_vars
  PROVE  NoWaiterStranded'
<1>1. CASE UNCHANGED marks
  BY <1>1 DEF marks, NoWaiterStranded, WalkOn
<1>2. ASSUME NEW r \in Request, DecryptContent(r) PROVE NoWaiterStranded'
  <2> DEFINE k == CkOf[r]
  <2>1. k \in Ck
    BY ConsumerAssumption DEF ConsumerAssumption
  <2>2. CASE CkCached(r, k)
    BY <1>2, <2>2 DEF CkCached, NoWaiterStranded, WalkOn
  <2>3. CASE CkInFlight(r, k)
    <3>1. \A x \in Ck \ {k} : pendingCallbacks'[x] = pendingCallbacks[x]
      BY <2>1, <2>3, EnqueueType DEF CkInFlight
    <3>2. \A x \in Ck : WalkOn(x)' <=> WalkOn(x)
      BY <2>3, WalkType, FanoutAssumption DEF CkInFlight, WalkOn, LoopIsFree, Walk
    <3> QED BY <2>1, <2>3, <3>1, <3>2 DEF CkInFlight, NoWaiterStranded
  <2>4. CASE CkFetchStarts(r, k)
    <3>1. \A x \in Ck \ {k} : pendingCallbacks'[x] = pendingCallbacks[x]
      BY <2>1, <2>4, EnqueueType DEF CkFetchStarts
    <3>2. ckFetches[k] = 0
      BY <2>1, <2>4 DEF CkFetchStarts, MarkInv, TypeOK
    <3> QED BY <2>1, <2>4, <3>1, <3>2 DEF CkFetchStarts, NoWaiterStranded, WalkOn, TypeOK
  <2> QED BY <1>2, <2>2, <2>3, <2>4 DEF DecryptContent
<1>3. ASSUME NEW k \in Ck, CkComplete(k) \/ CkError(k) PROVE NoWaiterStranded'
  BY <1>3, StartWalkType
  DEF CkComplete, CkError, CkFetchEnds, LoopIsFree, NoWaiterStranded, WalkOn, TypeOK
<1>4. CASE WalkGoesOn /\ Advance /\ UNCHANGED fetching
  <2>1. \A k \in Ck : WalkOn(k)' <=> WalkOn(k)
    BY <1>4, AdvanceType DEF WalkOn, WalkGoesOn
  <2> QED BY <1>4, <2>1 DEF NoWaiterStranded, fetching
<1>5. CASE FinishFanout
  <2>1. fanout.ck \in Ck
    BY <1>5, WalkType DEF FinishFanout
  <2> QED BY <1>5, <2>1 DEF FinishFanout, NoWaiterStranded, WalkOn, TypeOK
<1> QED
  BY <1>1, <1>2, <1>3, <1>4, <1>5
  DEF Next, Application, EventLoop, DataEnds, CkEnds, Fanout, vars, marks, fetching, CkMalformed,
      LearnPublicParams, ObtainDecryptionKey, DkeyComplete, DkeyFail, DecryptedElsewhere,
      ClearCachedContentKeys, ConsumeNotReady, Consume, ConsumeBlock, DataComplete,
      DataMalformed, DataError, NotifyData, NotifyError, ReadFreedTask, Escape

(* Unless a CK is malformed or an onError callback throws, no waiter is     *)
(* ever stranded, even if other callbacks throw or re-enter.                *)
THEOREM NobodyStranded ==
  "badCk" \notin Trouble /\ "errorThrows" \notin Trouble => (Spec => []NoWaiterStranded)
<1> SUFFICES ASSUME "badCk" \notin Trouble, "errorThrows" \notin Trouble
             PROVE  Spec => []NoWaiterStranded
  OBVIOUS
<1>1. Init => NoWaiterStranded
  BY DEF Init, NoWaiterStranded
<1>2. TypeOK /\ MarkInv /\ NoWaiterStranded /\ [Next]_vars => NoWaiterStranded'
  BY StepStranded
<1> QED BY <1>1, <1>2, MarksHeld, PTL DEF Spec
-----------------------------------------------------------------------------
(* Callbacks made are not taken back: told only grows.                      *)
ToldGrows == \A r \in Request : told[r] # <<>> => told'[r] # <<>>

(* A callback is only ever added to what a request was told. *)
LEMMA TellGrows ==
  ASSUME TypeOK, NEW r \in Request, NEW s \in Seq(Callbacks), s # <<>>, Tell(r, s)
  PROVE  ToldGrows /\ told'[r] # <<>>
<1>1. told[r] \in Seq(Callbacks)
  BY DEF TypeOK, Callbacks
<1>2. Len(s) \in Nat /\ Len(s) # 0
  BY EmptySeq
<1>3. Len(told[r] \o s) = Len(told[r]) + Len(s) /\ Len(told[r]) \in Nat
  BY <1>1, ConcatProperties
<1>4. told[r] \o s # <<>>
  BY <1>2, <1>3
<1> QED BY <1>4 DEF Tell, ToldGrows, TypeOK

(* DecryptAndTell only adds callbacks, and only to its own request. *)
LEMMA DecryptGrows ==
  ASSUME TypeOK, NEW r \in Request, DecryptAndTell(r)
  PROVE  ToldGrows /\ told'[r] # <<>>
BY TellGrows, CallbackSeqs DEF DecryptAndTell

(* A step of a walk tells its waiter, unless it reads freed tasks.          *)
LEMMA NotifyGrows ==
  ASSUME TypeOK, VisitedInv, NotifyData \/ NotifyError \/ ReadFreedTask
  PROVE  /\ WalkGoesOn /\ UNCHANGED <<asked, fetching>> /\ (Advance \/ fanout' = NoFanout)
         /\ ToldGrows /\ told'[Waiter] # <<>>
<1>1. WalkGoesOn /\ UNCHANGED <<asked, fetching>> /\ (Advance \/ fanout' = NoFanout)
  BY DEF NotifyData, NotifyError, ReadFreedTask, Escape
<1>2. Waiter \in Request /\ ~ fanout.moved
  BY <1>1, WaiterType DEF VisitedInv, WalkGoesOn
<1> QED
  BY <1>1, <1>2, DecryptGrows, TellGrows, CallbackSeqs DEF NotifyData, NotifyError, ReadFreedTask

(* Telling requests leaves what a walk has passed told.                     *)
LEMMA GrowsVisited ==
  ASSUME TypeOK, VisitedInv, ToldGrows, UNCHANGED <<pendingCallbacks, fanout>>
  PROVE  VisitedInv'
<1> SUFFICES ASSUME fanout # NoFanout, NEW i \in 1..(fanout.next - 1)
             PROVE  told'[pendingCallbacks[fanout.ck][i]] # <<>>
  BY DEF VisitedInv
<1>1. pendingCallbacks[fanout.ck][i] \in Request
  BY WalkType, PlaceType
<1> QED BY <1>1 DEF VisitedInv, ToldGrows

(* Entering decryptContent leaves the vector of the walk under way alone.   *)
LEMMA DecryptContentVisited ==
  ASSUME TypeOK, MarkInv, VisitedInv, NEW r \in Request, DecryptContent(r),
         fanout # NoFanout => fanout.kind = "data"
  PROVE  VisitedInv'
<1> DEFINE k == CkOf[r]
<1>1. k \in Ck
  BY ConsumerAssumption DEF ConsumerAssumption
<1>2. fanout # NoFanout => fanout.ck \in ckInterestsSent /\ fanout.ck \in ckEncAesCache
  BY WalkType DEF MarkInv, WalkOn
<1>3. CASE CkCached(r, k)
  <2>1. ToldGrows
    BY <1>3, DecryptGrows DEF CkCached
  <2> QED BY <1>3, <2>1, GrowsVisited DEF CkCached
<1>4. CASE CkInFlight(r, k) \/ CkFetchStarts(r, k)
  <2>1. /\ \A x \in Ck \ {k} : pendingCallbacks'[x] = pendingCallbacks[x]
        /\ told' = told
    BY <1>1, <1>4, EnqueueType DEF CkInFlight, CkFetchStarts
  <2>2. fanout' = fanout /\ (fanout # NoFanout => fanout.ck # k)
    BY <1>2, <1>4 DEF CkInFlight, CkFetchStarts, LoopIsFree
  <2> QED BY <2>1, <2>2, WalkType DEF VisitedInv
<1> QED BY <1>3, <1>4 DEF DecryptContent

(* Every step keeps what a walk has passed told.                            *)
LEMMA StepVisited ==
  ASSUME TypeOK, MarkInv, VisitedInv, "reenterOnError" \notin Trouble, [Next]_vars
  PROVE  VisitedInv'
<1>1. CASE UNCHANGED <<fanout, pendingCallbacks, told>>
  BY <1>1 DEF VisitedInv
<1>2. ASSUME NEW r \in Request, ConsumeBlock(r) \/ DataComplete(r) PROVE VisitedInv'
  <2>1. fanout # NoFanout => fanout.kind = "data"
    BY <1>2, WalkType DEF ConsumeBlock, DataComplete, LoopIsFree
  <2> QED BY <1>2, <2>1, DecryptContentVisited DEF ConsumeBlock, DataComplete
<1>3. ASSUME NEW r \in Request, ConsumeNotReady(r) \/ DataError(r) PROVE VisitedInv'
  <2>1. ToldGrows
    BY <1>3, TellGrows, CallbackSeqs DEF ConsumeNotReady, DataError
  <2> QED BY <1>3, <2>1, GrowsVisited DEF ConsumeNotReady, DataError, fetching
<1>4. ASSUME NEW r \in Request, Consume(r) \/ DataMalformed(r) PROVE VisitedInv'
  BY <1>1, <1>4 DEF Consume, DataMalformed, answers
<1>5. ASSUME NEW k \in Ck, CkComplete(k) \/ CkError(k) PROVE VisitedInv'
  <2>1. \E kind \in {"data", "error"} : StartWalk(k, kind)
    BY <1>5 DEF CkComplete, CkError
  <2>2. ~ fanout'.moved
    BY <2>1 DEF StartWalk
  <2>3. pendingCallbacks' = pendingCallbacks
    BY <1>5 DEF CkComplete, CkError, CkFetchEnds
  <2>4. fanout'.ck = k /\ fanout'.next = 1 /\ fanout'.last = Len(pendingCallbacks[k])
    BY <2>1, StartWalkType
  <2> QED BY <2>2, <2>3, <2>4 DEF VisitedInv
<1>6. CASE NotifyData \/ NotifyError \/ ReadFreedTask
  <2>1. /\ WalkGoesOn /\ pendingCallbacks' = pendingCallbacks /\ (Advance \/ fanout' = NoFanout)
        /\ ToldGrows /\ told'[Waiter] # <<>>
    BY <1>6, NotifyGrows DEF fetching
  <2>2. CASE Advance
    <3>1. /\ fanout'.ck = fanout.ck /\ fanout'.next = fanout.next + 1 /\ fanout'.last = fanout.last
          /\ fanout'.moved = fanout.moved
      BY <2>1, <2>2, AdvanceType, WalkType DEF Advance, Walk, WalkGoesOn
    <3>2. ASSUME NEW i \in 1..fanout.next PROVE told'[pendingCallbacks[fanout.ck][i]] # <<>>
      <4>1. CASE i = fanout.next
        BY <2>1, <4>1 DEF Waiter
      <4>2. CASE i # fanout.next
        <5>1. i \in 1..(fanout.next - 1) /\ i \in 1..Len(pendingCallbacks[fanout.ck])
          BY <2>1, <4>2, WalkType, WaiterType DEF WalkGoesOn
        <5>2. pendingCallbacks[fanout.ck][i] \in Request
          BY <2>1, <5>1, PlaceType, WalkType DEF WalkGoesOn
        <5> QED BY <2>1, <5>1, <5>2 DEF VisitedInv, ToldGrows, WalkGoesOn
      <4> QED BY <4>1, <4>2
    <3> QED BY <2>1, <3>1, <3>2, WalkType DEF VisitedInv, WalkGoesOn
  <2>3. CASE fanout' = NoFanout
    BY <2>3 DEF VisitedInv
  <2> QED BY <2>1, <2>2, <2>3
<1>7. CASE FinishFanout
  BY <1>7 DEF FinishFanout, VisitedInv
<1>8. ASSUME NEW k \in Ck, CkMalformed(k) PROVE VisitedInv'
  BY <1>1, <1>8 DEF CkMalformed, CkFetchEnds, answers
<1> QED
  BY <1>1, <1>2, <1>3, <1>4, <1>5, <1>6, <1>7, <1>8
  DEF Next, Application, EventLoop, DataEnds, CkEnds, Fanout, vars, fetching, answers,
      LearnPublicParams, ObtainDecryptionKey, DkeyComplete, DkeyFail, DecryptedElsewhere,
      ClearCachedContentKeys

(* A queue that a step erases is that of a walk which has passed its end.   *)
LEMMA StepDropped ==
  ASSUME TypeOK, VisitedInv, [Next]_vars,
         NEW k \in Ck, pendingCallbacks'[k] = <<>>, NEW i \in 1..Len(pendingCallbacks[k])
  PROVE  told'[pendingCallbacks[k][i]] # <<>>
<1>1. pendingCallbacks[k] \in Seq(Request) /\ pendingCallbacks[k] # <<>>
  BY DEF TypeOK
<1>2. pendingCallbacks' # pendingCallbacks
  BY <1>1
<1>3. ~ \E r \in Request : DecryptContent(r)
  <2> SUFFICES ASSUME NEW r \in Request, DecryptContent(r) PROVE FALSE
    OBVIOUS
  <2>1. CkOf[r] \in Ck /\ Enqueue(r, CkOf[r])
    BY <1>2, ConsumerAssumption
    DEF ConsumerAssumption, DecryptContent, CkCached, CkInFlight, CkFetchStarts
  <2>2. Len(pendingCallbacks[k]) <= Len(pendingCallbacks'[k])
    BY <2>1, EnqueueType
  <2> QED BY <1>1, <2>2
<1>4. FinishFanout
  BY <1>2, <1>3
  DEF Next, Application, EventLoop, DataEnds, CkEnds, Fanout, vars, fetching,
      LearnPublicParams, ObtainDecryptionKey, DkeyComplete, DkeyFail, DecryptedElsewhere,
      ClearCachedContentKeys, ConsumeNotReady, Consume, ConsumeBlock, DataComplete,
      DataMalformed, DataError, CkComplete, CkMalformed, CkError, CkFetchEnds,
      NotifyData, NotifyError, ReadFreedTask
<1>5. k = fanout.ck
  BY <1>1, <1>4 DEF FinishFanout, TypeOK
<1>6. i \in 1..(fanout.next - 1)
  BY <1>4, <1>5, WalkType DEF FinishFanout, VisitedInv
<1> QED BY <1>4, <1>5, <1>6 DEF FinishFanout, VisitedInv, answers

(* Unless an onError callback calls consume(name, block), a queue is erased *)
(* only when every request in it has been told.                             *)
THEOREM NobodyDropped == "reenterOnError" \notin Trouble => (Spec => NoWaiterDropped)
<1> SUFFICES ASSUME "reenterOnError" \notin Trouble PROVE Spec => NoWaiterDropped
  OBVIOUS
<1>1. Init => VisitedInv
  BY DEF Init, VisitedInv
<1>2. TypeOK /\ MarkInv /\ VisitedInv /\ [Next]_vars => VisitedInv'
  BY StepVisited
<1>3. TypeOK /\ VisitedInv /\ [Next]_vars =>
        [\A k \in Ck : pendingCallbacks'[k] = <<>> =>
           \A i \in 1..Len(pendingCallbacks[k]) : told'[pendingCallbacks[k][i]] # <<>>]_vars
  BY StepDropped
<1> QED BY <1>1, <1>2, <1>3, MarksHeld, PTL DEF Spec, NoWaiterDropped
-----------------------------------------------------------------------------
(* The content keys some decryption key of the process opens.               *)
Opened == UNION {Opens[d] : d \in heldKeys \cup ProcessKeys}

(* Keys are never given up.                                                 *)
LEMMA OpenedGrows ==
  ASSUME TypeOK, [Next]_vars
  PROVE  heldKeys \subseteq heldKeys' /\ Opened \subseteq Opened'
<1>1. heldKeys \subseteq heldKeys'
  BY DEF Next, Application, EventLoop, DataEnds, CkEnds, Fanout, vars, keys,
      LearnPublicParams, ObtainDecryptionKey, DkeyComplete, DkeyFail, DecryptedElsewhere,
      ClearCachedContentKeys, ConsumeNotReady, Consume, ConsumeBlock, DataComplete,
      DataMalformed, DataError, CkComplete, CkMalformed, CkError, CkFetchEnds,
      NotifyData, NotifyError, ReadFreedTask, FinishFanout, DecryptContent
<1> QED BY <1>1 DEF Opened

(* No request reaches a decryption before there is a key.                   *)
LEMMA StepKey ==
  ASSUME TypeOK, KeyInv, [Next]_vars
  PROVE  KeyInv'
<1>1. CASE keyCache \in heldKeys
  BY <1>1 DEF KeyInv, Next, Application, EventLoop, DataEnds, CkEnds, Fanout, vars, keys,
      LearnPublicParams, ObtainDecryptionKey, DkeyComplete, DkeyFail, DecryptedElsewhere,
      ClearCachedContentKeys, ConsumeNotReady, Consume, ConsumeBlock, DataComplete,
      DataMalformed, DataError, CkComplete, CkMalformed, CkError, CkFetchEnds,
      NotifyData, NotifyError, ReadFreedTask, FinishFanout, DecryptContent
<1>2. CASE keyCache \notin heldKeys
  BY <1>2 DEF KeyInv, Next, Application, EventLoop, DataEnds, CkEnds, Fanout, vars, keys, fetching,
      LearnPublicParams, ObtainDecryptionKey, DkeyComplete, DkeyFail, DecryptedElsewhere,
      ClearCachedContentKeys, ConsumeNotReady, Consume, ConsumeBlock, DataComplete,
      DataMalformed, DataError, CkComplete, CkMalformed, CkError, CkFetchEnds,
      NotifyData, NotifyError, ReadFreedTask, FinishFanout, ReadyForDecryption, WalkGoesOn
<1> QED BY <1>1, <1>2

(* Telling a request anything but success makes no success of it.           *)
LEMMA TellOpened ==
  ASSUME TypeOK, OpenedInProcess, NEW r \in Request, NEW s \in Seq(Callbacks), Tell(r, s),
         CkOf[r] \in Opened \/ s = <<"onError">>
  PROVE  \A x \in Request :
           (\E i \in 1..Len(told'[x]) : told'[x][i] = "onSuccess") => CkOf[x] \in Opened
<1>1. told[r] \in Seq(Callbacks)
  BY DEF TypeOK, Callbacks
<1>2. \A x \in Request \ {r} : told'[x] = told[x]
  BY DEF TypeOK, Tell
<1>3. CASE s = <<"onError">>
  <2>1. /\ Len(told'[r]) = Len(told[r]) + 1 /\ told'[r][Len(told[r]) + 1] = "onError"
        /\ \A i \in 1..Len(told[r]) : told'[r][i] = told[r][i]
        /\ Len(told[r]) \in Nat
    <3>1. told'[r] = told[r] \o <<"onError">>
      BY <1>3 DEF TypeOK, Tell
    <3>2. <<"onError">> \in Seq(Callbacks) /\ Len(<<"onError">>) = 1
      BY CallbackSeqs
    <3> QED BY <1>1, <3>1, <3>2, ConcatProperties
  <2>2. (\E i \in 1..Len(told'[r]) : told'[r][i] = "onSuccess")
          => \E i \in 1..Len(told[r]) : told[r][i] = "onSuccess"
    BY <2>1
  <2> QED BY <1>2, <2>2 DEF OpenedInProcess, Opened
<1> QED BY <1>2, <1>3 DEF OpenedInProcess, Opened

(* A decryption adds nothing to what the process has opened.                *)
LEMMA DecryptOpened ==
  ASSUME TypeOK, OpenedInProcess, keyCache \in heldKeys, NEW r \in Request, DecryptAndTell(r)
  PROVE  /\ decryptedContentKeyMap' \subseteq Opened
         /\ \A x \in Request :
              (\E i \in 1..Len(told'[x]) : told'[x][i] = "onSuccess") => CkOf[x] \in Opened
<1>1. Decrypts(CkOf[r]) => CkOf[r] \in Opened
  BY DEF Decrypts, OpenedInProcess, Opened
<1>2. CASE ~ Decrypts(CkOf[r])
  BY <1>2, TellOpened, CallbackSeqs DEF DecryptAndTell, OpenedInProcess, Opened
<1>3. CASE Decrypts(CkOf[r])
  BY <1>1, <1>3, TellOpened, CallbackSeqs DEF DecryptAndTell, OpenedInProcess, Opened
<1> QED BY <1>2, <1>3

(* Every step keeps the process to what its keys open.                      *)
LEMMA StepOpened ==
  ASSUME TypeOK, KeyInv, OpenedInProcess, [Next]_vars
  PROVE  OpenedInProcess'
<1> DEFINE Kept == /\ decryptedContentKeyMap' \subseteq Opened
                   /\ \A x \in Request :
                        (\E i \in 1..Len(told'[x]) : told'[x][i] = "onSuccess") => CkOf[x] \in Opened
<1>1. SUFFICES Kept
  BY OpenedGrows DEF OpenedInProcess, Opened
<1>2. CASE UNCHANGED <<told, decryptedContentKeyMap>>
  BY <1>2 DEF OpenedInProcess, Opened
<1>3. ASSUME NEW r \in Request, ConsumeBlock(r) \/ DataComplete(r) PROVE Kept
  <2>1. keyCache \in heldKeys
    BY <1>3 DEF ConsumeBlock, DataComplete, ReadyForDecryption, KeyInv
  <2>2. DecryptAndTell(r) \/ UNCHANGED <<told, decryptedContentKeyMap>>
    BY <1>3 DEF ConsumeBlock, DataComplete, DecryptContent, CkCached, CkInFlight, CkFetchStarts
  <2> QED BY <1>2, <2>1, <2>2, DecryptOpened
<1>4. ASSUME NEW r \in Request, ConsumeNotReady(r) \/ DataError(r) PROVE Kept
  BY <1>4, TellOpened, CallbackSeqs DEF ConsumeNotReady, DataError, OpenedInProcess, Opened
<1>5. CASE NotifyData
  <2>1. keyCache \in heldKeys
    BY <1>5 DEF NotifyData, WalkGoesOn, KeyInv
  <2> QED BY <1>5, <2>1, DecryptOpened, WaiterType DEF NotifyData
<1>6. CASE NotifyError \/ ReadFreedTask
  BY <1>2, <1>6, TellOpened, CallbackSeqs, WaiterType
  DEF NotifyError, ReadFreedTask, OpenedInProcess, Opened
<1>7. CASE ClearCachedContentKeys
  BY <1>7 DEF ClearCachedContentKeys, OpenedInProcess, Opened
<1>8. ASSUME NEW k \in Ck, DecryptedElsewhere(k) PROVE Kept
  BY <1>8 DEF DecryptedElsewhere, OpenedInProcess, Opened
<1> QED
  BY <1>2, <1>3, <1>4, <1>5, <1>6, <1>7, <1>8
  DEF Next, Application, EventLoop, DataEnds, CkEnds, Fanout, vars, answers,
      LearnPublicParams, ObtainDecryptionKey, DkeyComplete, DkeyFail, Consume, DataMalformed,
      CkComplete, CkMalformed, CkError, CkFetchEnds, FinishFanout

(* In any environment, no content key is decrypted, from the network or     *)
(* from the shared map, that no decryption key of the process opens.        *)
THEOREM ConfinedToProcess == Spec => []OpenedInProcess
<1>1. Init => KeyInv /\ OpenedInProcess
  BY DEF Init, KeyInv, OpenedInProcess
<1>2. TypeOK /\ KeyInv /\ OpenedInProcess /\ [Next]_vars => (KeyInv /\ OpenedInProcess)'
  BY StepKey, StepOpened
<1> QED BY <1>1, <1>2, TypeCorrect, PTL DEF Spec
-----------------------------------------------------------------------------
(* Who joins a queue disturbs no place in it that is awaited.               *)
LEMMA PlaceKept ==
  ASSUME TypeOK, MarkInv, NEW r \in Request, DecryptContent(r),
         NEW k \in Ck, NEW i \in 1..Len(pendingCallbacks[k]), Awaits(k, i)
  PROVE  /\ i \in 1..Len(pendingCallbacks'[k])
         /\ pendingCallbacks'[k][i] = pendingCallbacks[k][i] /\ Awaits(k, i)'
<1> DEFINE own == CkOf[r]
<1>1. own \in Ck
  BY ConsumerAssumption DEF ConsumerAssumption
<1>2. CASE CkCached(r, own)
  BY <1>2 DEF CkCached, Awaits, WalkOn
<1>3. CASE (CkInFlight(r, own) \/ CkFetchStarts(r, own)) /\ Enqueue(r, own)
  <2>1. /\ \A x \in Ck \ {own} : pendingCallbacks'[x] = pendingCallbacks[x]
        /\ \A x \in Ck : Len(pendingCallbacks[x]) <= Len(pendingCallbacks'[x])
        /\ \A j \in 1..Len(pendingCallbacks[own]) :
             pendingCallbacks'[own][j] = pendingCallbacks[own][j]
        /\ pendingCallbacks' \in [Ck -> Seq(Request)]
    BY <1>1, <1>3, EnqueueType
  <2>2. pendingCallbacks[k] \in Seq(Request) /\ pendingCallbacks'[k] \in Seq(Request)
    BY <2>1 DEF TypeOK
  <2>3. Len(pendingCallbacks[k]) \in Nat /\ Len(pendingCallbacks'[k]) \in Nat
    BY <2>2
  <2>4. i \in 1..Len(pendingCallbacks'[k]) /\ pendingCallbacks'[k][i] = pendingCallbacks[k][i]
    BY <2>1, <2>3
  <2>5. Awaits(k, i)'
    <3>1. CASE CkInFlight(r, own)
      BY <3>1, WalkType, FanoutAssumption DEF CkInFlight, Awaits, WalkOn, LoopIsFree, Walk
    <3>2. CASE CkFetchStarts(r, own)
      <4>1. ckFetches[own] = 0
        BY <1>1, <3>2 DEF CkFetchStarts, MarkInv, TypeOK
      <4> QED BY <1>1, <3>2, <4>1 DEF CkFetchStarts, Awaits, WalkOn, TypeOK
    <3> QED BY <1>3, <3>1, <3>2
  <2> QED BY <2>4, <2>5
<1> QED BY <1>2, <1>3 DEF DecryptContent, CkInFlight, CkFetchStarts

(* Who enters decryptContent is answered or finds a place in a queue: a mark*)
(* that it meets has a fetch behind it, or a walk that is done with queues. *)
LEMMA EntersInHand ==
  ASSUME TypeOK, MarkInv, NoWaiterStranded, NEW r \in Request, DecryptContent(r),
         fanout # NoFanout => fanout.kind = "data"
  PROVE  told'[r] # <<>> \/ InHand(r)'
<1> DEFINE k == CkOf[r]
<1>1. k \in Ck
  BY ConsumerAssumption DEF ConsumerAssumption
<1>2. CASE CkCached(r, k)
  BY <1>2, DecryptGrows DEF CkCached
<1>3. CASE (CkInFlight(r, k) \/ CkFetchStarts(r, k)) /\ Enqueue(r, k)
  <2>1. /\ Len(pendingCallbacks'[k]) = Len(pendingCallbacks[k]) + 1
        /\ pendingCallbacks'[k][Len(pendingCallbacks[k]) + 1] = r
        /\ Len(pendingCallbacks[k]) \in Nat
    <3> HIDE DEF k
    <3> QED BY <1>1, <1>3, EnqueueType
  <2>2. ckFetches'[k] = 1
    <3>1. CASE CkInFlight(r, k)
      <4>1. ~ WalkOn(k)
        BY <1>1, <3>1 DEF CkInFlight, MarkInv, WalkOn
      <4> QED BY <1>1, <3>1, <4>1 DEF CkInFlight, NoWaiterStranded
    <3>2. CASE CkFetchStarts(r, k)
      BY <1>1, <3>2 DEF CkFetchStarts, MarkInv, TypeOK
    <3> QED BY <1>3, <3>1, <3>2
  <2>3. Len(pendingCallbacks[k]) + 1 \in 1..Len(pendingCallbacks'[k])
    BY <2>1
  <2> QED BY <2>1, <2>2, <2>3 DEF InHand, Awaits
<1> QED BY <1>2, <1>3 DEF DecryptContent, CkInFlight, CkFetchStarts

(* What a request has been told it was not untold.                          *)
LEMMA OnceGrows == ASSUME TypeOK, OnceStep PROVE ToldGrows
<1> SUFFICES ASSUME NEW x \in Request, TellsOnce(x), told[x] = <<>> PROVE ToldGrows
  BY DEF OnceStep, ToldGrows
<1> QED BY OthersUntold DEF ToldGrows

(* A place in a queue is awaited until the one in it is told.               *)
LEMMA QueueInHand ==
  ASSUME TypeOK, MarkInv, VisitedInv, Trouble \subseteq {"successThrows"}, [Next]_vars,
         NEW r \in Request, NEW i \in 1..Len(pendingCallbacks[CkOf[r]]),
         pendingCallbacks[CkOf[r]][i] = r, Awaits(CkOf[r], i)
  PROVE  told'[r] # <<>> \/ InHand(r)'
<1> DEFINE k == CkOf[r]
<1>1. k \in Ck
  BY ConsumerAssumption DEF ConsumerAssumption
<1>2. CASE UNCHANGED <<ckFetches, pendingCallbacks, fanout>>
  BY <1>2 DEF InHand, Awaits, WalkOn
<1>3. ASSUME NEW x \in Request, DecryptContent(x) PROVE InHand(r)'
  <2>1. i \in 1..Len(pendingCallbacks'[k]) /\ pendingCallbacks'[k][i] = r /\ Awaits(k, i)'
    BY <1>1, <1>3, PlaceKept
  <2> QED BY <2>1 DEF InHand
<1>4. ASSUME NEW x \in Ck, CkComplete(x) \/ CkError(x) PROVE InHand(r)'
  <2>1. /\ fanout = NoFanout /\ pendingCallbacks' = pendingCallbacks
        /\ \A y \in Ck \ {x} : ckFetches'[y] = ckFetches[y]
    BY <1>4 DEF CkComplete, CkError, CkFetchEnds, LoopIsFree, TypeOK
  <2>2. fanout' # NoFanout /\ fanout'.ck = x /\ fanout'.next = 1
    BY <1>4, StartWalkType DEF CkComplete, CkError
  <2>3. Awaits(k, i)'
    BY <1>1, <2>1, <2>2 DEF Awaits, WalkOn
  <2> QED BY <2>1, <2>3 DEF InHand
<1>5. CASE NotifyData \/ NotifyError \/ ReadFreedTask
  <2>1. /\ WalkGoesOn /\ Advance /\ told'[Waiter] # <<>>
        /\ UNCHANGED <<pendingCallbacks, ckFetches>>
    BY <1>5, NotifyGrows DEF NotifyData, NotifyError, ReadFreedTask, Escape, fetching
  <2>2. CASE ckFetches[k] = 1
    BY <2>1, <2>2 DEF InHand, Awaits
  <2>3. CASE WalkOn(k) /\ fanout.next <= i
    <3>1. CASE i = fanout.next
      BY <2>1, <2>3, <3>1 DEF Waiter, WalkOn
    <3>2. CASE i # fanout.next
      <4>1. fanout.next \in Nat /\ i \in Nat /\ Len(pendingCallbacks[k]) \in Nat
        BY <1>1, <2>1, WalkType DEF WalkGoesOn, TypeOK
      <4>2. WalkOn(k)' /\ fanout'.next <= i
        BY <2>1, <2>3, <3>2, <4>1, AdvanceType DEF WalkOn
      <4> QED BY <2>1, <4>2 DEF InHand, Awaits
    <3> QED BY <3>1, <3>2
  <2> QED BY <2>2, <2>3 DEF Awaits
<1>6. CASE FinishFanout
  <2>1. /\ fanout # NoFanout /\ fanout.next > fanout.last
        /\ fanout.last = Len(pendingCallbacks[fanout.ck])
        /\ fanout.next \in Nat /\ fanout.last \in Nat /\ fanout.ck \in Ck
    BY <1>6, WalkType DEF FinishFanout, VisitedInv
  <2>2. ~ WalkOn(k)
    <3> SUFFICES ASSUME WalkOn(k) PROVE FALSE
      OBVIOUS
    <3>1. ckFetches[k] = 0 /\ k = fanout.ck
      BY <1>1 DEF MarkInv, WalkOn
    <3>2. fanout.next <= i /\ i <= fanout.last /\ i \in Nat
      BY <2>1, <3>1 DEF Awaits
    <3> QED BY <2>1, <3>2
  <2>3. ckFetches[k] = 1 /\ k # fanout.ck
    BY <2>1, <2>2 DEF Awaits, WalkOn
  <2>4. pendingCallbacks'[k] = pendingCallbacks[k] /\ ckFetches'[k] = 1
    BY <1>1, <1>6, <2>3 DEF FinishFanout, TypeOK
  <2> QED BY <2>4 DEF InHand, Awaits
<1> QED
  BY <1>2, <1>3, <1>4, <1>5, <1>6
  DEF Next, Application, EventLoop, DataEnds, CkEnds, Fanout, vars, fetching, answers,
      LearnPublicParams, ObtainDecryptionKey, DkeyComplete, DkeyFail, DecryptedElsewhere,
      ClearCachedContentKeys, ConsumeNotReady, Consume, ConsumeBlock, DataComplete,
      DataMalformed, DataError, CkMalformed

(* Every step leaves every request in some hand or answered.                *)
LEMMA StepInHand ==
  ASSUME TypeOK, MarkInv, WaitInv, VisitedInv, NoWaiterStranded, NoRequestLost,
         Trouble \subseteq {"successThrows"}, [Next]_vars
  PROVE  NoRequestLost'
<1> SUFFICES ASSUME NEW r \in asked', told'[r] = <<>> PROVE InHand(r)'
  BY DEF NoRequestLost
<1>1. r \in Request
  BY StepType DEF TypeOK
<1>2. r \in asked => told[r] = <<>>
  BY <1>1, StepOnce, OnceGrows DEF ToldGrows
<1>3. ASSUME ConsumeBlock(r) \/ DataComplete(r) PROVE InHand(r)'
  <2>1. DecryptContent(r) /\ (fanout # NoFanout => fanout.kind = "data")
    BY <1>3, WalkType DEF ConsumeBlock, DataComplete, LoopIsFree
  <2> QED BY <1>1, <2>1, EntersInHand
<1>4. ASSUME r \notin asked PROVE InHand(r)'
  <2>1. CASE ConsumeBlock(r)
    BY <1>3, <2>1
  <2>2. CASE Consume(r)
    BY <2>2 DEF Consume, InHand
  <2>3. CASE ConsumeNotReady(r)
    BY <1>1, <2>3, TellGrows, CallbackSeqs DEF ConsumeNotReady
  <2> QED
    BY <1>1, <1>4, <2>1, <2>2, <2>3
    DEF Next, Application, EventLoop, DataEnds, CkEnds, Fanout, vars, answers, fetching,
        LearnPublicParams, ObtainDecryptionKey, DkeyComplete, DkeyFail, DecryptedElsewhere,
        ClearCachedContentKeys, ConsumeNotReady, Consume, ConsumeBlock, DataComplete,
        DataMalformed, DataError, CkComplete, CkMalformed, CkError, CkFetchEnds,
        NotifyData, NotifyError, ReadFreedTask, FinishFanout
<1>5. ASSUME r \in dataFetches PROVE InHand(r)'
  <2>1. CASE DataComplete(r)
    BY <1>3, <2>1
  <2>2. CASE DataError(r)
    BY <1>1, <2>2, TellGrows, CallbackSeqs DEF DataError
  <2>3. ASSUME ~ DataComplete(r), ~ DataError(r) PROVE r \in dataFetches'
    BY <1>1, <1>5, <2>3
    DEF Next, Application, EventLoop, DataEnds, CkEnds, Fanout, vars, answers, fetching,
        LearnPublicParams, ObtainDecryptionKey, DkeyComplete, DkeyFail, DecryptedElsewhere,
        ClearCachedContentKeys, ConsumeNotReady, Consume, ConsumeBlock, DataComplete,
        DataMalformed, DataError, CkComplete, CkMalformed, CkError, CkFetchEnds,
        NotifyData, NotifyError, ReadFreedTask, FinishFanout
  <2> QED BY <2>1, <2>2, <2>3 DEF InHand
<1>6. CASE r \in asked /\ r \notin dataFetches
  <2>1. PICK i \in 1..Len(pendingCallbacks[CkOf[r]]) :
          pendingCallbacks[CkOf[r]][i] = r /\ Awaits(CkOf[r], i)
    BY <1>2, <1>6 DEF NoRequestLost, InHand
  <2> QED BY <1>1, <2>1, QueueInHand
<1> QED BY <1>4, <1>5, <1>6

(* If nothing goes wrong but that onSuccess callbacks throw, every request  *)
(* is in some hand from its call until its callback.                        *)
THEOREM NobodyLost == Trouble \subseteq {"successThrows"} => (Spec => []NoRequestLost)
<1> SUFFICES ASSUME Trouble \subseteq {"successThrows"} PROVE Spec => []NoRequestLost
  OBVIOUS
<1> DEFINE Inv == VisitedInv /\ NoWaiterStranded /\ NoRequestLost
<1>1. Init => Inv
  BY DEF Init, VisitedInv, NoWaiterStranded, NoRequestLost
<1>2. TypeOK /\ MarkInv /\ WaitInv /\ Inv /\ [Next]_vars => Inv'
  BY StepVisited, StepStranded, StepInHand
<1> QED BY <1>1, <1>2, WaitsHeld, PTL DEF Spec
-----------------------------------------------------------------------------
(* A walk has at least one step to make.                                    *)
LEMMA WalkLeftType ==
  ASSUME TypeOK, fanout # NoFanout
  PROVE  WalkLeft \in Nat \ {0} /\ WalkLeft = fanout.last + 2 - fanout.next
BY WalkType DEF WalkLeft

(* In any environment a walk ends: its steps bring the end nearer and no    *)
(* callback that it makes puts the end off.                                 *)
THEOREM WalksEnd == Spec => WalkEnds
<1>1. ASSUME TypeOK, [Next]_vars, fanout # NoFanout
      PROVE  WalkLeft' <= WalkLeft /\ (Fanout => WalkLeft' < WalkLeft)
  <2>1. WalkLeft \in Nat \ {0} /\ WalkLeft = fanout.last + 2 - fanout.next
    BY <1>1, WalkLeftType
  <2>2. fanout.next \in Nat /\ fanout.last \in Nat
    BY <1>1, WalkType
  <2>3. CASE fanout' = NoFanout
    BY <2>1, <2>3 DEF WalkLeft
  <2>4. CASE Fanout /\ fanout' # NoFanout
    <3>1. WalkGoesOn /\ Advance
      BY <2>4 DEF Fanout, NotifyData, NotifyError, ReadFreedTask, FinishFanout, Escape
    <3>2. fanout'.last = fanout.last /\ fanout'.next = fanout.next + 1
      BY <1>1, <3>1, AdvanceType
    <3> QED BY <2>1, <2>2, <2>4, <3>2 DEF WalkLeft
  <2>5. ASSUME ~ Fanout PROVE WalkLeft' = WalkLeft
    <3>1. UNCHANGED fanout \/ fanout' = [fanout EXCEPT !.moved = TRUE]
      BY <1>1, <2>5
      DEF Next, Application, EventLoop, DataEnds, CkEnds, vars, LoopIsFree,
          LearnPublicParams, ObtainDecryptionKey, DkeyComplete, DkeyFail, DecryptedElsewhere,
          ClearCachedContentKeys, ConsumeNotReady, Consume, ConsumeBlock, DataComplete,
          DataMalformed, DataError, CkComplete, CkMalformed, CkError, CkFetchEnds,
          DecryptContent, CkCached, CkInFlight, CkFetchStarts
    <3>2. CASE fanout' = [fanout EXCEPT !.moved = TRUE]
      <4>1. /\ fanout' \in Walk /\ fanout'.last = fanout.last /\ fanout'.next = fanout.next
        BY <1>1, <3>2, WalkType DEF Walk
      <4> QED BY <1>1, <4>1, FanoutAssumption DEF WalkLeft
    <3> QED BY <3>1, <3>2 DEF WalkLeft
  <2>6. WalkLeft' = WalkLeft => WalkLeft' <= WalkLeft
    BY <2>1
  <2> QED BY <2>1, <2>3, <2>4, <2>5, <2>6 DEF WalkLeft
<1>2. TypeOK /\ [Next]_vars =>
        [fanout # NoFanout => WalkLeft' <= WalkLeft /\ (Fanout => WalkLeft' < WalkLeft)]_vars
  BY <1>1
<1> QED BY <1>2, TypeCorrect, PTL DEF Spec, WalkEnds
-----------------------------------------------------------------------------
(* Who is told of a success has its content decrypted, with a key at hand.  *)
LEMMA SuccessHasKey ==
  ASSUME TypeOK, WaitInv, KeyInv, [Next]_vars,
         NEW r \in Request, told'[r] # told[r], told'[r][1] = "onSuccess"
  PROVE  keyCache \in heldKeys
<1>1. ASSUME NEW x \in Request, Tell(x, <<"onError">>), told[x] = <<>> PROVE FALSE
  <2>1. told' = [told EXCEPT ![x] = <<"onError">>]
    BY <1>1, ConcatEmptySeq, CallbackSeqs DEF Tell
  <2> QED BY <2>1 DEF TypeOK
<1>2. ASSUME NEW x \in Request, ConsumeBlock(x) \/ DataComplete(x) PROVE keyCache \in heldKeys
  BY <1>2 DEF ConsumeBlock, DataComplete, ReadyForDecryption, KeyInv
<1>3. CASE NotifyData
  BY <1>3 DEF NotifyData, WalkGoesOn, KeyInv
<1>4. ASSUME NEW x \in Request, ConsumeNotReady(x) \/ DataError(x) PROVE FALSE
  BY <1>1, <1>4 DEF ConsumeNotReady, DataError, WaitInv, UntoldInv
<1>5. CASE NotifyError \/ ReadFreedTask
  BY <1>1, <1>5, WaiterType, WaiterUntold DEF NotifyError, ReadFreedTask
<1> QED
  BY <1>2, <1>3, <1>4, <1>5
  DEF Next, Application, EventLoop, DataEnds, CkEnds, Fanout, vars, answers,
      LearnPublicParams, ObtainDecryptionKey, DkeyComplete, DkeyFail, DecryptedElsewhere,
      ClearCachedContentKeys, Consume, DataMalformed, CkComplete, CkMalformed, CkError,
      CkFetchEnds, FinishFanout

(* Where all decryption keys of a process open the same content keys, the   *)
(* shared map does no harm: a success is one of the key held then.          *)
THEOREM SameKeysSafe == (\A d, e \in DKey : Opens[d] = Opens[e]) => (Spec => KeySatisfiesPolicy)
<1> SUFFICES ASSUME \A d, e \in DKey : Opens[d] = Opens[e] PROVE Spec => KeySatisfiesPolicy
  OBVIOUS
<1>1. ASSUME TypeOK, WaitInv, KeyInv, OpenedInProcess, [Next]_vars,
             NEW r \in Request, told'[r] # told[r], told'[r][Len(told[r]) + 1] = "onSuccess"
      PROVE  CkOf[r] \in Opens[keyCache]
  <2>1. told[r] = <<>> /\ told'[r] \in Answers
    <3>1. PICK x \in Request : told[x] = <<>> /\ TellsOnce(x)
      BY <1>1, StepOnce DEF OnceStep
    <3>2. x = r
      BY <1>1, <3>1, OthersUntold
    <3> QED BY <1>1, <3>1, <3>2 DEF TellsOnce, TypeOK
  <2>2. told'[r][1] = "onSuccess" /\ 1 \in 1..Len(told'[r])
    BY <1>1, <2>1 DEF Answers
  <2>3. keyCache \in heldKeys /\ keyCache \in DKey
    BY <1>1, <2>2, SuccessHasKey DEF TypeOK
  <2>4. OpenedInProcess' /\ TypeOK'
    BY <1>1, StepOpened, StepType
  <2>5. PICK d \in heldKeys' \cup ProcessKeys : CkOf[r] \in Opens[d]
    BY <2>2, <2>4 DEF OpenedInProcess
  <2>6. d \in DKey
    BY <2>4, ConsumerAssumption DEF TypeOK, ConsumerAssumption
  <2> QED BY <2>3, <2>5, <2>6
<1>2. TypeOK /\ WaitInv /\ KeyInv /\ OpenedInProcess /\ [Next]_vars =>
        [\A r \in Request :
           (told'[r] # told[r] /\ told'[r][Len(told[r]) + 1] = "onSuccess")
             => CkOf[r] \in Opens[keyCache]]_vars
  BY <1>1
<1>3. Init => KeyInv /\ OpenedInProcess
  BY DEF Init, KeyInv, OpenedInProcess
<1>4. TypeOK /\ KeyInv /\ OpenedInProcess /\ [Next]_vars => (KeyInv /\ OpenedInProcess)'
  BY StepKey, StepOpened
<1> QED BY <1>2, <1>3, <1>4, WaitsHeld, PTL DEF Spec, KeySatisfiesPolicy
=============================================================================
