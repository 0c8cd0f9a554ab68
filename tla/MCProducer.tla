----------------------------- MODULE MCProducer -----------------------------
(* The root and two nested prefixes, names under each of them and under     *)
(* neither, two rules and the empty one.                                    *)
EXTENDS Producer

CONSTANTS a, b, c, p1, p2, ck1, ck2

MCComponent == {a, b, c}
MCPrefix == {<<>>, <<a>>, <<a, b>>}
MCDataName == {<<a, b>>, <<a, c>>, <<c>>}
MCRule == {p1, p2, NoRule}
MCCk == {ck1, ck2}
=============================================================================
