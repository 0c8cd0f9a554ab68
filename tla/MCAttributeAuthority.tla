------------------------ MODULE MCAttributeAuthority ------------------------
(* Two decryptors with a key each, two policies and one that is unusable,     *)
(* three first Interests: two from one decryptor, one from the other.         *)
EXTENDS AttributeAuthority, TLC

CONSTANTS alice, bob, ka, kb, p1, p2, bad, n1, n2, n3

MCIdentity == {alice, bob}
MCKey == {ka, kb}
MCOwnerOf == [k \in MCKey |-> IF k = ka THEN alice ELSE bob]
MCPolicy == {p1, p2, bad}
MCUnusable == {bad}
MCInterest == {n1, n2, n3}
MCKeyOf == [n \in MCInterest |-> IF n = n3 THEN kb ELSE ka]

(* Nothing tells the two Interests for one key apart, or the usable policies. *)
MCSymmetry == Permutations({n1, n2}) \cup Permutations({p1, p2})
=============================================================================
