---------------------------- MODULE PublicParams ----------------------------
(***************************************************************************)
(* What a ParamFetcher promises to the Consumer or Producer that owns it:  *)
(* the ABE type and the public parameters read by getAbeType() and         *)
(* getPublicParams() are learnt together, at most once, from one validated *)
(* answer of a supported type.  An answer of an unsupported type may leave *)
(* its type behind, but never its parameters.                              *)
(***************************************************************************)
CONSTANTS
  Holder,     \* the Consumers and Producers, one ParamFetcher each
  Pub,        \* the public parameters an attribute authority may publish
  TypeOf,     \* the ABE type named by the packet that carries them
  Supported,  \* the ABE types the library can use
  NoPub       \* the empty string of a default-constructed PublicParams

VARIABLES
  abeType,    \* m_abeType of each holder's fetcher
  pubParams   \* m_pubParamsCache of each holder's fetcher

NoType == "unset"   \* the empty string of a default-constructed AbeType

Init ==
  /\ abeType = [h \in Holder |-> NoType]
  /\ pubParams = [h \in Holder |-> NoPub]

Learn(h, p) ==
  /\ pubParams[h] = NoPub
  /\ TypeOf[p] \in Supported
  /\ abeType' = [abeType EXCEPT ![h] = TypeOf[p]]
  /\ pubParams' = [pubParams EXCEPT ![h] = p]

Reject(h, p) ==
  /\ pubParams[h] = NoPub
  /\ TypeOf[p] \notin Supported
  /\ abeType' = [abeType EXCEPT ![h] = TypeOf[p]]
  /\ UNCHANGED pubParams

Next == \E h \in Holder, p \in Pub : Learn(h, p) \/ Reject(h, p)

Spec == Init /\ [][Next]_<<abeType, pubParams>>
=============================================================================
