----------------------------- MODULE ConsumeOnce -----------------------------
(***************************************************************************)
(* What Consumer::consume promises to an application: every request is     *)
(* answered, by exactly one call of exactly one of the two callbacks it    *)
(* came with.                                                              *)
(***************************************************************************)
CONSTANT Request   \* the calls of consume

VARIABLES
  asked,           \* the calls made
  told             \* the callbacks each call has received, in order

Init == asked = {} /\ told = [r \in Request |-> <<>>]

Ask(r) ==
  /\ r \notin asked
  /\ asked' = asked \cup {r}
  /\ UNCHANGED told

Answer(r) ==
  /\ r \in asked /\ told[r] = <<>>
  /\ \E callback \in {"onSuccess", "onError"} : told' = [told EXCEPT ![r] = <<callback>>]
  /\ UNCHANGED asked

(* Not ready, or the content key is cached: consume answers as it is called. *)
AskAnswered(r) ==
  /\ r \notin asked /\ told[r] = <<>>
  /\ asked' = asked \cup {r}
  /\ \E callback \in {"onSuccess", "onError"} : told' = [told EXCEPT ![r] = <<callback>>]

Next == \E r \in Request : Ask(r) \/ Answer(r) \/ AskAnswered(r)

Safety == Init /\ [][Next]_<<asked, told>>
Spec == Safety /\ \A r \in Request : WF_<<asked, told>>(Answer(r))
=============================================================================
