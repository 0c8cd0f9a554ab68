------------------------- MODULE ParamFetcherProofs -------------------------
(* Proofs about ParamFetcher, for any holders, authorities and retry limit. *)
EXTENDS ParamFetcher, TLAPS

USE ParamFetcherAssumption DEF ParamFetcherAssumption, Abstract!NoType

(* The initial states satisfy the inductive invariant.                      *)
LEMMA InitIInv == Init => IInv
<1> SUFFICES ASSUME Init PROVE IInv
  OBVIOUS
<1>1. TypeOK
  <2>1. abeType \in [Holder -> KnownTypes]
    BY DEF Init, KnownTypes
  <2>2. pubParams \in [Holder -> Pub \cup {NoPub}] /\ candidate \in [Holder -> Pub \cup {NoPub}]
    BY DEF Init
  <2>3. fetch \in [Holder -> Stages] /\ thrown \in [Holder -> Exceptions]
    BY DEF Init, Stages, Exceptions
  <2>4. retryCount \in [Holder -> 0..MaxRetries] /\ attempts \in [Holder -> Nat]
    BY DEF Init
  <2> QED BY <2>1, <2>2, <2>3, <2>4 DEF TypeOK
<1>2. ParamsFromOneAnswer /\ RetryBudget
  BY DEF Init, ParamsFromOneAnswer, RetryBudget
<1>3. NoSilentFailure /\ FetchInv
  BY DEF Init, NoSilentFailure, FetchInv
<1> QED BY <1>1, <1>2, <1>3 DEF IInv

(* What a call of fetchPublicParams does while no result is known: it       *)
(* expresses an Interest within the budget or throws at its end.            *)
LEMMA FetchPublicParamsIInv ==
  ASSUME IInv, NEW h \in Holder, fetch[h] \in {"unborn", "expressed"},
         FetchPublicParams(h), UNCHANGED <<abeType, pubParams, candidate>>
  PROVE  IInv'
<1>1. CASE retryCount[h] >= MaxRetries
  <2>1. /\ thrown' = [thrown EXCEPT ![h] = "exhausted"]
        /\ fetch' = [fetch EXCEPT ![h] = "idle"]
        /\ UNCHANGED <<retryCount, attempts>>
    BY <1>1 DEF FetchPublicParams, IInv, TypeOK
  <2>2. attempts[h] = MaxRetries
    BY <1>1 DEF IInv, FetchInv, RetryBudget, TypeOK
  <2>3. TypeOK'
    BY <2>1 DEF IInv, TypeOK, Stages, Exceptions
  <2>4. (ParamsFromOneAnswer /\ RetryBudget)'
    BY <2>1, <2>2 DEF IInv, TypeOK, ParamsFromOneAnswer, RetryBudget
  <2>5. (NoSilentFailure /\ FetchInv)'
    BY <2>1 DEF IInv, TypeOK, NoSilentFailure, FetchInv
  <2> QED BY <2>3, <2>4, <2>5 DEF IInv
<1>2. CASE retryCount[h] < MaxRetries
  <2>1. /\ retryCount' = [retryCount EXCEPT ![h] = @ + 1]
        /\ attempts' = [attempts EXCEPT ![h] = @ + 1]
        /\ fetch' = [fetch EXCEPT ![h] = "expressed"]
        /\ UNCHANGED thrown
    BY <1>2 DEF FetchPublicParams, IInv, TypeOK
  <2>2. thrown[h] = "no" /\ attempts[h] = retryCount[h]
    BY DEF IInv, FetchInv
  <2>3. TypeOK'
    BY <2>1, <1>2 DEF IInv, TypeOK, Stages
  <2>4. (ParamsFromOneAnswer /\ RetryBudget)'
    BY <2>1, <2>2, <1>2 DEF IInv, TypeOK, ParamsFromOneAnswer, RetryBudget
  <2>5. (NoSilentFailure /\ FetchInv)'
    BY <2>1, <2>2 DEF IInv, TypeOK, NoSilentFailure, FetchInv
  <2> QED BY <2>3, <2>4, <2>5 DEF IInv
<1> QED BY <1>1, <1>2 DEF IInv, TypeOK

(* Every step preserves the inductive invariant.                            *)
LEMMA StepIInv == IInv /\ [Next]_vars => IInv'
<1> SUFFICES ASSUME IInv, [Next]_vars PROVE IInv'
  OBVIOUS
<1>1. ASSUME NEW h \in Holder, Construct(h) PROVE IInv'
  BY <1>1, FetchPublicParamsIInv DEF Construct
<1>2. ASSUME NEW h \in Holder, OnNackOrTimeout(h) PROVE IInv'
  BY <1>2, FetchPublicParamsIInv DEF OnNackOrTimeout
<1>3. ASSUME NEW h \in Holder, NEW p \in Pub, OnData(h, p) PROVE IInv'
  <2> USE <1>3 DEF OnData
  <2>1. TypeOK'
    BY DEF IInv, TypeOK, Stages
  <2>2. (ParamsFromOneAnswer /\ RetryBudget)'
    BY DEF IInv, TypeOK, ParamsFromOneAnswer, RetryBudget
  <2>3. (NoSilentFailure /\ FetchInv)'
    BY DEF IInv, TypeOK, NoSilentFailure, FetchInv
  <2> QED BY <2>1, <2>2, <2>3 DEF IInv
<1>4. ASSUME NEW h \in Holder, OnValidated(h) PROVE IInv'
  <2> USE <1>4 DEF OnValidated
  <2>1. candidate[h] \in Pub /\ pubParams[h] = NoPub /\ thrown[h] = "no"
    BY DEF IInv, FetchInv
  <2>2. TypeOK'
    BY <2>1 DEF IInv, TypeOK, KnownTypes, Stages, Exceptions
  <2>3. (ParamsFromOneAnswer /\ RetryBudget)'
    BY <2>1 DEF IInv, TypeOK, ParamsFromOneAnswer, RetryBudget
  <2>4. (NoSilentFailure /\ FetchInv)'
    BY <2>1 DEF IInv, TypeOK, NoSilentFailure, FetchInv
  <2> QED BY <2>2, <2>3, <2>4 DEF IInv
<1>5. ASSUME NEW h \in Holder, OnValidationFailure(h) PROVE IInv'
  <2> USE <1>5 DEF OnValidationFailure
  <2>1. pubParams[h] = NoPub
    BY DEF IInv, FetchInv
  <2>2. TypeOK'
    BY DEF IInv, TypeOK, KnownTypes, Stages, Exceptions
  <2>3. (ParamsFromOneAnswer /\ RetryBudget)'
    BY DEF IInv, TypeOK, ParamsFromOneAnswer, RetryBudget
  <2>4. (NoSilentFailure /\ FetchInv)'
    BY <2>1 DEF IInv, TypeOK, NoSilentFailure, FetchInv
  <2> QED BY <2>2, <2>3, <2>4 DEF IInv
<1>6. CASE UNCHANGED vars
  BY <1>6 DEF vars, IInv, TypeOK, ParamsFromOneAnswer, RetryBudget,
              NoSilentFailure, FetchInv
<1> QED
  BY <1>1, <1>2, <1>3, <1>4, <1>5, <1>6 DEF Next, Answered, Validated

(* Nothing a fetcher does leads out of the inductive invariant.             *)
THEOREM Invariance == Spec => []IInv
BY InitIInv, StepIInv, PTL DEF Spec

(* Every variable of every fetcher keeps its type.                          *)
THEOREM TypeCorrect == Spec => []TypeOK
<1>1. IInv => TypeOK
  BY DEF IInv
<1> QED BY <1>1, Invariance, PTL

(* Readable parameters and the readable ABE type come from one answer.      *)
THEOREM ParamsTypeAgree == Spec => []ParamsFromOneAnswer
<1>1. IInv => ParamsFromOneAnswer
  BY DEF IInv
<1> QED BY <1>1, Invariance, PTL

(* No fetcher expresses more than MAX_RETRIES Interests.                    *)
THEOREM BudgetKept == Spec => []RetryBudget
<1>1. IInv => RetryBudget
  BY DEF IInv
<1> QED BY <1>1, Invariance, PTL

(* A fetcher that ends without parameters has thrown.                       *)
THEOREM FailuresAreThrown == Spec => []NoSilentFailure
<1>1. IInv => NoSilentFailure
  BY DEF IInv
<1> QED BY <1>1, Invariance, PTL

(* A fetcher implements PublicParams: the validation of a supported answer  *)
(* is its Learn, that of an unsupported one its Reject, all else stutters.  *)
THEOREM Refinement == Spec => ImplementsPublicParams
<1>1. Init => Abstract!Init
  BY DEF Init, Abstract!Init
<1>2. ASSUME IInv, [Next]_vars PROVE [Abstract!Next]_<<abeType, pubParams>>
  <2>1. ASSUME NEW h \in Holder, OnValidated(h) PROVE Abstract!Next
    <3>1. candidate[h] \in Pub /\ pubParams[h] = NoPub
      BY <1>2, <2>1 DEF OnValidated, IInv, FetchInv
    <3>2. Abstract!Learn(h, candidate[h]) \/ Abstract!Reject(h, candidate[h])
      BY <2>1, <3>1 DEF OnValidated, Abstract!Learn, Abstract!Reject
    <3> QED BY <3>1, <3>2 DEF Abstract!Next
  <2>2. CASE UNCHANGED <<abeType, pubParams>>
    BY <2>2
  <2> QED
    BY <1>2, <2>1, <2>2 DEF Next, Answered, Validated, Construct, OnNackOrTimeout,
       OnData, OnValidationFailure, vars
<1> QED
  BY <1>1, <1>2, Invariance, PTL DEF Spec, ImplementsPublicParams, Abstract!Spec
-----------------------------------------------------------------------------
(* The steps left of a holder are those of its stage and its attempts.      *)
LEMMA StepsKept ==
  ASSUME NEW h \in Holder, fetch'[h] = fetch[h], attempts'[h] = attempts[h]
  PROVE  StepsLeft(h)' = StepsLeft(h)
BY DEF StepsLeft

(* A call of fetchPublicParams expresses one of the Interests left, or ends *)
(* the fetch.                                                               *)
LEMMA FetchNearer ==
  ASSUME IInv, NEW h \in Holder, fetch[h] \in {"unborn", "expressed"}, FetchPublicParams(h)
  PROVE  /\ StepsLeft(h)' < StepsLeft(h)
         /\ \A other \in Holder \ {h} : StepsLeft(other)' = StepsLeft(other)
<1>1. attempts[h] \in 0..MaxRetries /\ attempts \in [Holder -> Nat] /\ fetch \in [Holder -> Stages]
  BY DEF IInv, TypeOK, RetryBudget
<1>2. StepsLeft(h) \in Nat /\ StepsLeft(h) >= MaxRetries - attempts[h] + 2
  BY <1>1 DEF StepsLeft
<1>3. \/ fetch'[h] = "idle"
      \/ fetch'[h] = "expressed" /\ attempts'[h] = attempts[h] + 1
  BY <1>1 DEF FetchPublicParams
<1>4. StepsLeft(h)' < StepsLeft(h)
  BY <1>1, <1>2, <1>3 DEF StepsLeft
<1>5. \A other \in Holder \ {h} : fetch'[other] = fetch[other] /\ attempts'[other] = attempts[other]
  BY <1>1 DEF FetchPublicParams
<1> QED BY <1>4, <1>5, StepsKept

(* Every step brings one fetch nearer its end and leaves the others alone:  *)
(* no fetch is ever started over, whatever answers come.                    *)
THEOREM FetchesAdvance == Spec => FetchAdvances
<1>1. ASSUME IInv, Next
      PROVE  \E h \in Holder :
               /\ StepsLeft(h)' < StepsLeft(h)
               /\ \A other \in Holder \ {h} : StepsLeft(other)' = StepsLeft(other)
  <2> USE <1>1
  <2>1. ASSUME NEW h \in Holder, Construct(h) \/ OnNackOrTimeout(h)
        PROVE  /\ StepsLeft(h)' < StepsLeft(h)
               /\ \A other \in Holder \ {h} : StepsLeft(other)' = StepsLeft(other)
    BY <2>1, FetchNearer DEF Construct, OnNackOrTimeout
  <2>2. ASSUME NEW h \in Holder, NEW p \in Pub, OnData(h, p)
        PROVE  /\ StepsLeft(h)' < StepsLeft(h)
               /\ \A other \in Holder \ {h} : StepsLeft(other)' = StepsLeft(other)
    <3>1. attempts[h] \in 0..MaxRetries /\ fetch \in [Holder -> Stages]
      BY DEF IInv, TypeOK, RetryBudget
    <3>2. StepsLeft(h) >= 2 /\ StepsLeft(h)' = 1
      BY <2>2, <3>1 DEF OnData, StepsLeft
    <3>3. \A other \in Holder \ {h} : fetch'[other] = fetch[other] /\ attempts'[other] = attempts[other]
      BY <2>2, <3>1 DEF OnData
    <3>4. StepsLeft(h)' < StepsLeft(h)
      BY <2>2, <3>1, <3>2 DEF OnData, StepsLeft
    <3> QED BY <3>3, <3>4, StepsKept
  <2>3. ASSUME NEW h \in Holder, Validated(h)
        PROVE  /\ StepsLeft(h)' < StepsLeft(h)
               /\ \A other \in Holder \ {h} : StepsLeft(other)' = StepsLeft(other)
    <3>1. fetch \in [Holder -> Stages]
      BY DEF IInv, TypeOK
    <3>2. /\ fetch[h] = "validating" /\ fetch' = [fetch EXCEPT ![h] = "idle"]
          /\ attempts' = attempts
      BY <2>3 DEF Validated, OnValidated, OnValidationFailure
    <3>3. StepsLeft(h) = 1 /\ StepsLeft(h)' = 0
      BY <3>1, <3>2 DEF StepsLeft
    <3>4. \A other \in Holder \ {h} : fetch'[other] = fetch[other] /\ attempts'[other] = attempts[other]
      BY <3>1, <3>2
    <3> QED BY <3>3, <3>4, StepsKept
  <2> QED BY <2>1, <2>2, <2>3 DEF Next, Answered
<1> QED
  BY <1>1, Invariance, PTL DEF Spec, FetchAdvances
=============================================================================
