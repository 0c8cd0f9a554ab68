--------------------------- MODULE MCParamFetcher ---------------------------
(* Two holders; a CP-ABE and a KP-ABE authority answer, and a third one      *)
(* whose packet names a type the library does not know.                      *)
EXTENDS ParamFetcher

CONSTANTS h1, h2, cpPub, kpPub, oddPub

MCHolder == {h1, h2}
MCPub == {cpPub, kpPub, oddPub}
MCSupported == {"CP-ABE", "KP-ABE"}
MCTypeOf == [p \in MCPub |-> CASE p = cpPub -> "CP-ABE"
                               [] p = kpPub -> "KP-ABE"
                               [] p = oddPub -> "OTHER"]
=============================================================================
