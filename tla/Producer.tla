------------------------------ MODULE Producer ------------------------------
(***************************************************************************)
(* Producer and CacheProducer (producer.cpp, cache-producer.cpp): the table*)
(* of rules a data owner's commands fill, and the content keys (CKs) that  *)
(* data is produced under.  A rule is a policy (CP-ABE) or a list of       *)
(* attributes (KP-ABE).                                                    *)
(***************************************************************************)
EXTENDS Naturals, Sequences, SequencesExt

CONSTANTS
  Component,     \* name components
  Prefix,        \* data prefixes of commands, sequences of name components
  DataName,      \* names of data to produce, sequences of name components
  Rule,          \* policies or attribute lists, with NoRule the empty one
  NoRule, Unset,
  Ck, NoCk,      \* content keys, each with the random name it is given
  Caching        \* a CacheProducer, which reuses its content keys

VARIABLES
  abeType,       \* m_paramFetcher's type
  pubParams,     \* m_paramFetcher has public parameters
  policies,      \* m_policies
  attributes,    \* m_attributes
  keyCache,      \* m_cpKeyCache or m_kpKeyCache, the one of the ABE type
  issued,        \* history: the rule each CK was encrypted under
  output         \* the last data produced

tables == <<policies, attributes>>
producing == <<keyCache, issued, output>>
producerVars == <<abeType, pubParams, tables, producing>>

CpAbe == "CP-ABE"
KpAbe == "KP-ABE"
NoOutput == [name |-> <<>>, rule |-> NoRule, ck |-> NoCk]

ASSUME ProducerAssumption ==
  /\ Prefix \subseteq Seq(Component) /\ DataName \subseteq Seq(Component)
  /\ NoRule \in Rule /\ Unset \notin Rule
  /\ NoCk \notin Ck
  /\ Caching \in BOOLEAN

ProducerInit ==
  /\ abeType = "unset" /\ pubParams = FALSE
  /\ policies = <<>> /\ attributes = <<>>
  /\ keyCache = [rule \in Rule |-> NoCk]
  /\ issued = [ck \in Ck |-> Unset]
  /\ output = NoOutput

(* The type of an unsupported authority is learnt, its parameters are not.  *)
LearnPublicParams(type) ==
  /\ abeType = "unset"
  /\ abeType' = type
  /\ pubParams' = (type \in {CpAbe, KpAbe})
  /\ UNCHANGED <<tables, producing>>
-----------------------------------------------------------------------------
(* addNewPolicy and addNewAttributes: the first entry for the prefix is     *)
(* overwritten, or an entry appended.                                       *)
Entries(table, p) == {i \in DOMAIN table : table[i].prefix = p}

(* Mutant: the entry is appended whether or not there is one.               *)
AppendsAlways(table, p, rule) == Append(table, [prefix |-> p, rule |-> rule])

(* Mutant: an entry for a prefix of the prefix is taken for its entry.      *)
OverwritesShorter(table, p, rule) ==
  LET found == {i \in DOMAIN table : IsPrefix(table[i].prefix, p)}
  IN  IF found = {} THEN Append(table, [prefix |-> p, rule |-> rule])
      ELSE LET first == CHOOSE i \in found : \A j \in found : i <= j
           IN  [table EXCEPT ![first] = [prefix |-> p, rule |-> rule]]

(* Mutant: an entry once made is kept.                                      *)
KeepsFirst(table, p, rule) ==
  IF Entries(table, p) = {} THEN Append(table, [prefix |-> p, rule |-> rule]) ELSE table

AddNew(table, p, rule) ==
  IF Entries(table, p) = {} THEN Append(table, [prefix |-> p, rule |-> rule])
  ELSE LET first == CHOOSE i \in Entries(table, p) : \A j \in Entries(table, p) : i <= j
       IN  [table EXCEPT ![first] = [prefix |-> p, rule |-> rule]]

(* Mutant: every matching entry is taken, not only a longer one.            *)
BestIsLast(table, n) ==
  LET best[i \in 0..Len(table)] ==
        IF i = 0 THEN [rule |-> NoRule, size |-> 0]
        ELSE IF IsPrefix(table[i].prefix, n)
        THEN [rule |-> table[i].rule, size |-> Len(table[i].prefix)]
        ELSE best[i - 1]
  IN  best

(* findMatchedPolicy and findMatchedAttributes: index and                   *)
(* maxMatchedComponents after the scan has passed i entries.                *)
Best(table, n) ==
  LET best[i \in 0..Len(table)] ==
        IF i = 0 THEN [rule |-> NoRule, size |-> 0]
        ELSE IF IsPrefix(table[i].prefix, n) /\ Len(table[i].prefix) > best[i - 1].size
        THEN [rule |-> table[i].rule, size |-> Len(table[i].prefix)]
        ELSE best[i - 1]
  IN  best

FindMatched(table, n) == Best(table, n)[Len(table)].rule

(* A command whose signature the data owner's certificate verifies.         *)
Reply == IF abeType \in {CpAbe, KpAbe} THEN "success" ELSE "failure"

(* Mutant: whatever is not KP-ABE, not yet known included, is CP-ABE.       *)
FilesUnknownAsCp(p, rule) ==
  /\ policies' = IF abeType # KpAbe THEN AddNew(policies, p, rule) ELSE policies
  /\ attributes' = IF abeType = KpAbe THEN AddNew(attributes, p, rule) ELSE attributes
  /\ UNCHANGED <<abeType, pubParams, producing>>

OnPolicyInterest(p, rule) ==
  /\ policies' = IF abeType = CpAbe THEN AddNew(policies, p, rule) ELSE policies
  /\ attributes' = IF abeType = KpAbe THEN AddNew(attributes, p, rule) ELSE attributes
  /\ UNCHANGED <<abeType, pubParams, producing>>
-----------------------------------------------------------------------------
(* ckDataGen: a CK with a fresh random name, encrypted under the rule.      *)
CkDataGen(rule, ck) ==
  /\ issued[ck] = Unset
  /\ issued' = [issued EXCEPT ![ck] = rule]

(* Mutant: the cache is asked for any key, not for the key of the rule.     *)
ReusesAny(n, rule) ==
  \E ck \in Ck :
    /\ \/ \E other \in Rule : keyCache[other] = ck /\ UNCHANGED <<keyCache, issued>>
       \/ /\ \A other \in Rule : keyCache[other] = NoCk
          /\ CkDataGen(rule, ck)
          /\ keyCache' = [keyCache EXCEPT ![rule] = ck]
    /\ output' = [name |-> n, rule |-> rule, ck |-> ck]

(* produce with a rule, after the checks of ckDataGen have passed           *)
ProduceUnder(n, rule) ==
  \E ck \in Ck :
    /\ \/ /\ Caching /\ keyCache[rule] = ck
          /\ UNCHANGED <<keyCache, issued>>
       \/ /\ Caching /\ keyCache[rule] = NoCk
          /\ CkDataGen(rule, ck)
          /\ keyCache' = [keyCache EXCEPT ![rule] = ck]
       \/ /\ ~ Caching
          /\ CkDataGen(rule, ck)
          /\ UNCHANGED keyCache
    /\ output' = [name |-> n, rule |-> rule, ck |-> ck]

(* produce(name, policy) and produce(name, attributes): the one that is not *)
(* for the authority's type returns nothing.                                *)
Produce(n, rule, type) ==
  /\ pubParams /\ abeType = type
  /\ ProduceUnder(n, rule)
  /\ UNCHANGED <<abeType, pubParams, tables>>

(* produce(name), by the rule matched for the type; without one, nothing    *)
ProduceMatched(n) ==
  /\ pubParams
  /\ \/ /\ abeType = CpAbe /\ FindMatched(policies, n) # NoRule
        /\ ProduceUnder(n, FindMatched(policies, n))
     \/ /\ abeType = KpAbe /\ FindMatched(attributes, n) # NoRule
        /\ ProduceUnder(n, FindMatched(attributes, n))
  /\ UNCHANGED <<abeType, pubParams, tables>>

ClearCache ==
  /\ Caching
  /\ keyCache' = [rule \in Rule |-> NoCk]
  /\ UNCHANGED <<abeType, pubParams, tables, issued, output>>

ProducerStep ==
  \/ \E type \in {CpAbe, KpAbe, "other"} : LearnPublicParams(type)
  \/ \E n \in DataName :
       \/ ProduceMatched(n)
       \/ \E rule \in Rule \ {NoRule}, type \in {CpAbe, KpAbe} : Produce(n, rule, type)
  \/ ClearCache

ProducerNext ==
  ProducerStep \/ \E p \in Prefix, rule \in Rule : OnPolicyInterest(p, rule)

ProducerSpec == ProducerInit /\ [][ProducerNext]_producerVars
-----------------------------------------------------------------------------
Table == IF abeType = KpAbe THEN attributes ELSE policies

(* The rule an entry of the table gives a prefix.                           *)
RuleFor(table, p) ==
  IF Entries(table, p) = {} THEN Unset ELSE table[CHOOSE i \in Entries(table, p) : TRUE].rule

InForce == [p \in Prefix |-> RuleFor(Table, p)]

Entry == [prefix : Prefix, rule : Rule]

(* Every variable keeps its type; a table is filled only once its type is   *)
(* known, and data only produced with parameters.                           *)
ProducerTypeOK ==
  /\ abeType \in {"unset", CpAbe, KpAbe, "other"} /\ pubParams \in BOOLEAN
  /\ policies \in Seq(Entry) /\ (policies # <<>> => abeType = CpAbe)
  /\ attributes \in Seq(Entry) /\ (attributes # <<>> => abeType = KpAbe)
  /\ keyCache \in [Rule -> Ck \cup {NoCk}]
  /\ issued \in [Ck -> Rule \cup {Unset}]
  /\ output \in [name : DataName \cup {<<>>}, rule : Rule, ck : Ck \cup {NoCk}]
  /\ (output.ck # NoCk => pubParams) /\ (pubParams <=> abeType \in {CpAbe, KpAbe})

(* No two entries have the same prefix.                                      *)
Unique(table) == \A i, j \in DOMAIN table : table[i].prefix = table[j].prefix => i = j

(* However commands repeat and interleave, a prefix has one entry: no stale *)
(* rule hides behind the one a command replaced.                            *)
PrefixesUnique == Unique(policies) /\ Unique(attributes)

(* The rule found for a name is the one in force for its longest commanded  *)
(* prefix, in whatever order the entries were made; the root is no prefix.  *)
MatchIsLongest ==
  \A n \in DataName :
    LET commanded == {p \in Prefix \ {<<>>} : IsPrefix(p, n) /\ InForce[p] # Unset}
    IN  FindMatched(Table, n) =
          IF commanded = {} THEN NoRule
          ELSE InForce[CHOOSE p \in commanded : \A q \in commanded : Len(q) <= Len(p)]

(* Data is produced under a CK that was encrypted under the data's own rule,*)
(* and so would be any data the cache serves: no CK is reused across rules. *)
DataUnderItsRule ==
  /\ output.ck # NoCk => issued[output.ck] = output.rule
  /\ \A rule \in Rule : keyCache[rule] # NoCk => issued[keyCache[rule]] = rule

(* The table, entries in the order they were made, implements a map.        *)
TableAbstract == INSTANCE PolicyTable WITH inForce <- InForce
ImplementsPolicyTable == TableAbstract!Spec

(* "This function will automatically find the policy that is previously     *)
(* obtained from the command issued by the data owner" (README.md), also if *)
(* the command was for all names.                                           *)
RootRuleFound ==
  \A n \in DataName :
    (InForce[<<>>] \notin {Unset, NoRule} /\ \A p \in Prefix \ {<<>>} : InForce[p] = Unset)
      => FindMatched(Table, n) = InForce[<<>>]
=============================================================================
