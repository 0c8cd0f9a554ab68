---------------------------- MODULE ParamFetcher ----------------------------
(***************************************************************************)
(* ParamFetcher (param-fetcher.hpp, param-fetcher.cpp): the retried fetch  *)
(* and the asynchronous validation of an attribute authority's public      *)
(* parameters, once per Consumer or Producer, whose constructor starts it. *)
(* An exception thrown in a callback leaves Face::processEvents; "thrown"  *)
(* remembers which one did.                                                *)
(***************************************************************************)
EXTENDS Naturals

CONSTANTS
  Holder, Pub, TypeOf, Supported, NoPub,   \* as in PublicParams
  MaxRetries                               \* MAX_RETRIES

VARIABLES
  abeType, pubParams,   \* m_abeType, m_pubParamsCache
  retryCount,           \* m_retryCount
  fetch,                \* what the face or the validator holds for the fetcher
  candidate,            \* the answer handed to the validator
  thrown,               \* the exception that ended the fetch
  attempts              \* history: the Interests expressed

vars == <<abeType, pubParams, retryCount, fetch, candidate, thrown, attempts>>

Stages == {"unborn", "expressed", "validating", "idle"}
Exceptions == {"no", "exhausted", "unsupported", "unauthenticated"}

Abstract == INSTANCE PublicParams

KnownTypes == {Abstract!NoType} \cup {TypeOf[p] : p \in Pub}

ASSUME ParamFetcherAssumption ==
  /\ MaxRetries \in Nat \ {0}
  /\ NoPub \notin Pub

Init ==
  /\ abeType = [h \in Holder |-> Abstract!NoType]
  /\ pubParams = [h \in Holder |-> NoPub]
  /\ retryCount = [h \in Holder |-> 0]
  /\ fetch = [h \in Holder |-> "unborn"]
  /\ candidate = [h \in Holder |-> NoPub]
  /\ thrown = [h \in Holder |-> "no"]
  /\ attempts = [h \in Holder |-> 0]

(* Mutant: the limit is compared with > instead of >=.                      *)
GivesUpLate(h) ==
  \/ /\ retryCount[h] > MaxRetries
     /\ thrown' = [thrown EXCEPT ![h] = "exhausted"]
     /\ fetch' = [fetch EXCEPT ![h] = "idle"]
     /\ UNCHANGED <<retryCount, attempts>>
  \/ /\ retryCount[h] <= MaxRetries
     /\ retryCount' = [retryCount EXCEPT ![h] = @ + 1]
     /\ attempts' = [attempts EXCEPT ![h] = @ + 1]
     /\ fetch' = [fetch EXCEPT ![h] = "expressed"]
     /\ UNCHANGED thrown

(* Mutant: the counter is compared after its increment, as in ++retries.    *)
GivesUpEarly(h) ==
  /\ retryCount' = [retryCount EXCEPT ![h] = @ + 1]
  /\ \/ /\ retryCount[h] + 1 >= MaxRetries
        /\ thrown' = [thrown EXCEPT ![h] = "exhausted"]
        /\ fetch' = [fetch EXCEPT ![h] = "idle"]
        /\ UNCHANGED attempts
     \/ /\ retryCount[h] + 1 < MaxRetries
        /\ attempts' = [attempts EXCEPT ![h] = @ + 1]
        /\ fetch' = [fetch EXCEPT ![h] = "expressed"]
        /\ UNCHANGED thrown

FetchPublicParams(h) ==
  \/ /\ retryCount[h] >= MaxRetries
     /\ thrown' = [thrown EXCEPT ![h] = "exhausted"]
     /\ fetch' = [fetch EXCEPT ![h] = "idle"]
     /\ UNCHANGED <<retryCount, attempts>>
  \/ /\ retryCount[h] < MaxRetries
     /\ retryCount' = [retryCount EXCEPT ![h] = @ + 1]
     /\ attempts' = [attempts EXCEPT ![h] = @ + 1]
     /\ fetch' = [fetch EXCEPT ![h] = "expressed"]
     /\ UNCHANGED thrown

(* The constructor of a Consumer or Producer. *)
Construct(h) ==
  /\ fetch[h] = "unborn"
  /\ FetchPublicParams(h)
  /\ UNCHANGED <<abeType, pubParams, candidate>>

(* The Interest is answered by a Nack, or by nothing: both retry. *)
OnNackOrTimeout(h) ==
  /\ fetch[h] = "expressed"
  /\ FetchPublicParams(h)
  /\ UNCHANGED <<abeType, pubParams, candidate>>

(* Mutant: the parameters are cached before they are validated.             *)
CachesUnvalidated(h, p) ==
  /\ fetch[h] = "expressed"
  /\ retryCount' = [retryCount EXCEPT ![h] = 0]
  /\ fetch' = [fetch EXCEPT ![h] = "validating"]
  /\ candidate' = [candidate EXCEPT ![h] = p]
  /\ abeType' = [abeType EXCEPT ![h] = TypeOf[p]]
  /\ pubParams' = [pubParams EXCEPT ![h] = p]
  /\ UNCHANGED <<thrown, attempts>>

(* A Data packet comes back, carrying p or a forgery of it. *)
OnData(h, p) ==
  /\ fetch[h] = "expressed"
  /\ retryCount' = [retryCount EXCEPT ![h] = 0]
  /\ fetch' = [fetch EXCEPT ![h] = "validating"]
  /\ candidate' = [candidate EXCEPT ![h] = p]
  /\ UNCHANGED <<abeType, pubParams, thrown, attempts>>

(* Mutant: the parameters are stored before the type is checked.            *)
StoresBeforeCheck(h) ==
  /\ fetch[h] = "validating"
  /\ fetch' = [fetch EXCEPT ![h] = "idle"]
  /\ abeType' = [abeType EXCEPT ![h] = TypeOf[candidate[h]]]
  /\ pubParams' = [pubParams EXCEPT ![h] = candidate[h]]
  /\ thrown' = [thrown EXCEPT ![h] =
       IF TypeOf[candidate[h]] \in Supported THEN "no" ELSE "unsupported"]
  /\ UNCHANGED <<retryCount, candidate, attempts>>

(* The type is stored before it is checked, the parameters after. *)
OnValidated(h) ==
  /\ fetch[h] = "validating"
  /\ fetch' = [fetch EXCEPT ![h] = "idle"]
  /\ abeType' = [abeType EXCEPT ![h] = TypeOf[candidate[h]]]
  /\ \/ /\ TypeOf[candidate[h]] \in Supported
        /\ pubParams' = [pubParams EXCEPT ![h] = candidate[h]]
        /\ UNCHANGED thrown
     \/ /\ TypeOf[candidate[h]] \notin Supported
        /\ thrown' = [thrown EXCEPT ![h] = "unsupported"]
        /\ UNCHANGED pubParams
  /\ UNCHANGED <<retryCount, candidate, attempts>>

(* Mutant: a failed validation is only logged, as obtainDecryptionKey does. *)
LogsFailure(h) ==
  /\ fetch[h] = "validating"
  /\ fetch' = [fetch EXCEPT ![h] = "idle"]
  /\ UNCHANGED <<abeType, pubParams, retryCount, candidate, thrown, attempts>>

(* Mutant: a failed validation asks again, outside of the counted retries.  *)
RetriesUncounted(h) ==
  /\ fetch[h] = "validating"
  /\ fetch' = [fetch EXCEPT ![h] = "expressed"]
  /\ UNCHANGED <<abeType, pubParams, retryCount, candidate, thrown, attempts>>

OnValidationFailure(h) ==
  /\ fetch[h] = "validating"
  /\ fetch' = [fetch EXCEPT ![h] = "idle"]
  /\ thrown' = [thrown EXCEPT ![h] = "unauthenticated"]
  /\ UNCHANGED <<abeType, pubParams, retryCount, candidate, attempts>>

Answered(h) == OnNackOrTimeout(h) \/ \E p \in Pub : OnData(h, p)
Validated(h) == OnValidated(h) \/ OnValidationFailure(h)

Next == \E h \in Holder : Construct(h) \/ Answered(h) \/ Validated(h)

(* The face answers every Interest, by its lifetime at the latest, and the *)
(* validator calls exactly one of its two callbacks.                       *)
Fairness == \A h \in Holder : WF_vars(Answered(h)) /\ WF_vars(Validated(h))

Spec == Init /\ [][Next]_vars
FairSpec == Spec /\ Fairness
-----------------------------------------------------------------------------
(* Every variable keeps its type; the counter never passes MAX_RETRIES, and *)
(* only a started fetch hands an answer to the validator.                   *)
TypeOK ==
  /\ abeType \in [Holder -> KnownTypes]
  /\ pubParams \in [Holder -> Pub \cup {NoPub}]
  /\ retryCount \in [Holder -> 0..MaxRetries]
  /\ fetch \in [Holder -> Stages]
  /\ candidate \in [Holder -> Pub \cup {NoPub}]
  /\ thrown \in [Holder -> Exceptions]
  /\ attempts \in [Holder -> Nat]

(* Type and parameters come from the same answer: whenever parameters are   *)
(* readable, getAbeType() is the supported type their packet named, which   *)
(* is what decryptContent and contentKeyGen choose the algorithm by.        *)
ParamsFromOneAnswer ==
  \A h \in Holder : pubParams[h] # NoPub =>
    /\ TypeOf[pubParams[h]] \in Supported
    /\ abeType[h] = TypeOf[pubParams[h]]

(* Resetting the counter on an answer gives nobody a second budget: at most *)
(* MAX_RETRIES Interests are ever expressed, and exactly that many before   *)
(* the fetch is given up.                                                   *)
RetryBudget ==
  \A h \in Holder :
    /\ attempts[h] <= MaxRetries
    /\ thrown[h] = "exhausted" => attempts[h] = MaxRetries

(* No silent failure: a fetcher that waits for nothing either has its       *)
(* parameters or has thrown, and never both.                                *)
NoSilentFailure ==
  \A h \in Holder : fetch[h] = "idle" => (pubParams[h] = NoPub <=> thrown[h] # "no")

(* A constructed holder gets its parameters or an exception in the end.     *)
Settles == \A h \in Holder : fetch[h] # "unborn" ~> fetch[h] = "idle"

(* What is still ahead of a fetch: its Interests, the answer, the verdict.  *)
StepsLeft(h) ==
  CASE fetch[h] = "unborn" -> MaxRetries + 2
    [] fetch[h] = "expressed" -> MaxRetries - attempts[h] + 2
    [] fetch[h] = "validating" -> 1
    [] fetch[h] = "idle" -> 0

(* No Nack, time out, forgery or resetting of the counter starts a fetch    *)
(* over: each step of Next is a step of one holder that brings it nearer    *)
(* its end, and touches no other.                                           *)
FetchAdvances ==
  [][\E h \in Holder :
       /\ StepsLeft(h)' < StepsLeft(h)
       /\ \A other \in Holder \ {h} : StepsLeft(other)' = StepsLeft(other)]_vars

(* The fetcher implements the promise of PublicParams.                      *)
ImplementsPublicParams == Abstract!Spec

(* The inductive invariant.  Until an answer arrives the counter is the     *)
(* number of attempts; an unfinished fetch has neither result nor exception,*)
(* and what the validator holds is an answer.                               *)
FetchInv ==
  \A h \in Holder :
    /\ fetch[h] \in {"unborn", "expressed"} => attempts[h] = retryCount[h]
    /\ fetch[h] # "idle" => pubParams[h] = NoPub /\ thrown[h] = "no"
    /\ fetch[h] = "validating" => candidate[h] \in Pub

IInv ==
  TypeOK /\ ParamsFromOneAnswer /\ RetryBudget /\ NoSilentFailure /\ FetchInv
=============================================================================
