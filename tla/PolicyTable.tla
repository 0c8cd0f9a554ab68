----------------------------- MODULE PolicyTable -----------------------------
(***************************************************************************)
(* What a Producer promises its data owner: per data prefix, the rule of   *)
(* the last command it acted on, whatever the order and number of commands.*)
(***************************************************************************)
CONSTANTS
  Prefix,   \* data prefixes
  Rule,     \* policies or attribute lists
  Unset     \* no command for this prefix yet

VARIABLE inForce

Init == inForce = [p \in Prefix |-> Unset]

Set(p, rule) == inForce' = [inForce EXCEPT ![p] = rule]

Next == \E p \in Prefix, rule \in Rule : Set(p, rule)

Spec == Init /\ [][Next]_inForce
=============================================================================
