----------------------------- MODULE MCConsumer -----------------------------
(* Four requests for two content keys, three of them sharing one; a          *)
(* decryption key that opens the shared content key and one that opens none. *)
EXTENDS Consumer

CONSTANTS r1, r2, r3, r4, k1, k2, full, narrow

MCRequest == {r1, r2, r3, r4}
MCCk == {k1, k2}
MCCkOf == [r \in MCRequest |-> IF r = r4 THEN k2 ELSE k1]
MCDKey == {full, narrow}
MCOpens == [d \in MCDKey |-> IF d = full THEN {k1} ELSE {}]
MCNobody == {}
MCOther == {full}
MCNone == {}
MCAll == Troubles
MCBadCk == {"badCk"}
MCReenter == {"reenterOnError"}
=============================================================================
