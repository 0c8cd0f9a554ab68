--------------------------- MODULE MCPolicyCommand ---------------------------
(* Three commands: two for one prefix, which they set to different rules,    *)
(* and one for a longer prefix; a name below both, and one below the first.  *)
EXTENDS PolicyCommand

CONSTANTS a, b, p1, p2, c1, c2, c3

MCComponent == {a, b}
MCPrefix == {<<a>>, <<a, b>>}
MCDataName == {<<a>>, <<a, b>>}
MCRule == {p1, p2, NoRule}
MCCk == {}
MCCommand == {c1, c2, c3}
MCPrefixOf == [c \in MCCommand |-> IF c = c3 THEN <<a, b>> ELSE <<a>>]
MCRuleOf == [c \in MCCommand |-> IF c = c2 THEN p2 ELSE p1]
=============================================================================
