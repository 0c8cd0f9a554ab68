------------------------------ MODULE MCNacAbe ------------------------------
EXTENDS NacAbe, TLC

CONSTANTS c1, c2, both, member, open, secret, junk, n, nx

MCSatisfies == member :> {open}

(* A request for n may be answered with nx, which has n as a prefix.         *)
MCUnder == n :> {n, nx} @@ nx :> {nx}

(* Both Consumers in one process, or each in its own.                        *)
MCPlacement == {[c \in Consumer |-> both], [c \in Consumer |-> c]}

MCSymmetry == Permutations({c1, c2})
=============================================================================
