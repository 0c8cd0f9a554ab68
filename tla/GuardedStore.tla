---------------------------- MODULE GuardedStore ----------------------------
(***************************************************************************)
(* What the library promises as a whole: a store whose contents are read   *)
(* under the names they were stored under, and by nobody but a process of  *)
(* which some decryptor was registered, with the authority whose public    *)
(* parameters protect the content, for a grant that satisfies its rule.    *)
(***************************************************************************)
CONSTANTS
  Reader,      \* decryptors
  Life,        \* the lives of the authority
  Grant, Satisfies,
  Under,       \* the names a request for a name may be answered with
  Item         \* what may be stored: a name, a content, and the key it is under

VARIABLES
  granted,     \* <<reader, life, grant>>
  stored,      \* the items stored
  reads,       \* the reads of the last step: <<reader, name asked for, content>>
  processOf    \* the process each reader is in

Init == granted = {} /\ stored = {} /\ reads = {}

(* A reader is registered once in each life.                               *)
Register(r, life, grant) ==
  /\ \A g \in Grant : <<r, life, g>> \notin granted
  /\ granted' = granted \cup {<<r, life, grant>>}
  /\ reads' = {} /\ UNCHANGED stored

Store ==
  /\ stored \subseteq stored' /\ stored' \subseteq Item
  /\ reads' = {} /\ UNCHANGED granted

Entitled(process, key) ==
  \E r \in Reader, g \in Grant :
    /\ processOf[r] = process
    /\ <<r, key.life, g>> \in granted
    /\ key.rule \in Satisfies[g]

MayRead(r, asked, content) ==
  \E d \in stored :
    /\ d.content = content
    /\ d.name \in Under[asked]
    /\ Entitled(processOf[r], d.ck.key)

Read ==
  /\ \A e \in reads' : MayRead(e[1], e[2], e[3])
  /\ UNCHANGED <<granted, stored>>

Next ==
  /\ \/ \E r \in Reader, life \in Life, grant \in Grant : Register(r, life, grant)
     \/ Store
     \/ Read
  /\ UNCHANGED processOf

Spec == Init /\ [][Next]_<<granted, stored, reads, processOf>>
=============================================================================
