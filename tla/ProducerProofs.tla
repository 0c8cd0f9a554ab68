--------------------------- MODULE ProducerProofs ---------------------------
(* Proofs about Producer and CacheProducer, for any prefixes, rules and keys. *)
EXTENDS Producer, SequenceTheorems, WellFoundedInduction, TLAPS

(* A nonempty set of naturals has a least element: what the proofs about    *)
(* the scan of a table use for induction.                                   *)
LEMMA LeastNat ==
  ASSUME NEW T, T \subseteq Nat, T # {}
  PROVE  \E m \in T : \A k \in T : m <= k
<1> DEFINE Less == {p \in Nat \X Nat : p[1] < p[2]}
<1>1. IsWellFoundedOn(Less, Nat)
  BY NatLessThanWellFounded DEF OpToRel
<1>2. PICK m \in T : \A k \in T : ~ (<<k, m>> \in Less)
  <2> HIDE DEF Less
  <2> QED BY <1>1, WFMin
<1>3. ASSUME NEW k \in T PROVE m <= k
  <2>1. <<k, m>> \notin Less /\ <<k, m>> \in Nat \X Nat
    BY <1>2
  <2>2. ~ (k < m)
    BY <2>1
  <2> QED BY <2>2
<1> QED BY <1>3

(* One step of the scan.                                                    *)
Scan(table, n, i, best) ==
  IF IsPrefix(table[i].prefix, n) /\ Len(table[i].prefix) > best.size
  THEN [rule |-> table[i].rule, size |-> Len(table[i].prefix)]
  ELSE best

(* The recursive function Best exists, and is the scan.                     *)
LEMMA BestIsScan ==
  ASSUME NEW table, NEW n, Len(table) \in Nat
  PROVE  /\ Best(table, n)[0] = [rule |-> NoRule, size |-> 0]
         /\ \A i \in 1..Len(table) : Best(table, n)[i] = Scan(table, n, i, Best(table, n)[i - 1])
<1> DEFINE Start == [rule |-> NoRule, size |-> 0]
           Def(g, i) == IF i = 0 THEN Start ELSE Scan(table, n, i, g[i - 1])
           Upto(g, m) == g = [i \in 0..m |-> Def(g, i)]
           T == {m \in 0..Len(table) : ~ \E g : Upto(g, m)}
<1>1. T = {}
  <2> SUFFICES ASSUME T # {} PROVE FALSE
    OBVIOUS
  <2>1. PICK m \in T : \A k \in T : m <= k
    <3>1. T \subseteq Nat
      OBVIOUS
    <3> HIDE DEF T
    <3> QED BY <3>1, LeastNat
  <2>2. m # 0
    <3> DEFINE g == [i \in 0..0 |-> Start]
    <3>1. g = [i \in 0..0 |-> Def(g, i)]
      OBVIOUS
    <3> QED BY <3>1
  <2>3. m - 1 \in 0..Len(table) /\ m - 1 \notin T
    <3>1. m \in 0..Len(table)
      OBVIOUS
    <3> HIDE DEF T
    <3>2. m - 1 \in 0..Len(table) /\ ~ (m <= m - 1)
      BY <3>1, <2>2
    <3> QED BY <3>2, <2>1
  <2>4. PICK h : Upto(h, m - 1)
    BY <2>3
  <2> DEFINE g == [i \in 0..m |-> IF i = m THEN Scan(table, n, m, h[m - 1]) ELSE h[i]]
  <2>5. ASSUME NEW i \in 0..m PROVE g[i] = Def(g, i)
    <3>1. CASE i = m
      BY <3>1, <2>2
    <3>2. CASE i # m
      <4>1. i \in 0..(m - 1) /\ g[i] = h[i]
        BY <3>2, <2>3
      <4>2. h[i] = Def(h, i)
        <5> HIDE DEF Def
        <5> QED BY <4>1, <2>4
      <4>3. i # 0 => g[i - 1] = h[i - 1]
        BY <4>1
      <4> QED BY <4>1, <4>2, <4>3
    <3> QED BY <3>1, <3>2
  <2>6. Upto(g, m)
    <3> HIDE DEF Def
    <3> QED BY <2>5
  <2> QED BY <2>1, <2>6
<1>2. PICK g : Upto(g, Len(table))
  BY <1>1
<1>3. Best(table, n) = [i \in 0..Len(table) |-> Def(Best(table, n), i)]
  BY <1>2 DEF Best, Scan
<1>4. ASSUME NEW i \in 0..Len(table) PROVE Best(table, n)[i] = Def(Best(table, n), i)
  <2> HIDE DEF Def
  <2> QED BY <1>3
<1> QED BY <1>4

-----------------------------------------------------------------------------
(* What the scan knows after i entries: nothing has matched yet, or it holds *)
(* an entry that matches and is as long as any that does.                   *)
Matches(table, n, j) == IsPrefix(table[j].prefix, n) /\ Len(table[j].prefix) > 0

Seen(table, n, i, best) ==
  \/ /\ best = [rule |-> NoRule, size |-> 0]
     /\ \A j \in 1..i : ~ Matches(table, n, j)
  \/ \E j \in 1..i :
       /\ Matches(table, n, j)
       /\ best = [rule |-> table[j].rule, size |-> Len(table[j].prefix)]
       /\ \A k \in 1..i : Matches(table, n, k) => Len(table[k].prefix) <= Len(table[j].prefix)

(* An entry of a table has a prefix with a length, and a rule.              *)
LEMMA EntryType ==
  ASSUME NEW table \in Seq(Entry), NEW j \in 1..Len(table)
  PROVE  /\ table[j].prefix \in Prefix /\ table[j].rule \in Rule
         /\ table[j].prefix \in Seq(Component) /\ Len(table[j].prefix) \in Nat
<1>1. table[j] \in Entry
  BY ElementOfSeq
<1>2. table[j].prefix \in Prefix /\ table[j].rule \in Rule
  BY <1>1 DEF Entry
<1>3. table[j].prefix \in Seq(Component)
  BY <1>2, ProducerAssumption DEF ProducerAssumption
<1> QED BY <1>2, <1>3, LenProperties

(* The scan keeps what it knows over one more entry.                        *)
LEMMA ScanKeepsSeen ==
  ASSUME NEW table \in Seq(Entry), NEW n, NEW i \in 1..Len(table), NEW best,
         Seen(table, n, i - 1, best)
  PROVE  Seen(table, n, i, Scan(table, n, i, best))
<1> DEFINE size(j) == Len(table[j].prefix)
<1>1. \A j \in 1..Len(table) : size(j) \in Nat
  BY EntryType
<1>2. Len(table) \in Nat /\ 1..i = (1..(i - 1)) \cup {i} /\ 1..i \subseteq 1..Len(table)
  BY LenProperties
<1>3. CASE \A j \in 1..(i - 1) : ~ Matches(table, n, j)
  <2>1. best = [rule |-> NoRule, size |-> 0]
    BY <1>3 DEF Seen
  <2>2. CASE Matches(table, n, i)
    <3>1. Scan(table, n, i, best) = [rule |-> table[i].rule, size |-> size(i)]
      BY <2>1, <2>2 DEF Scan, Matches
    <3>2. \A k \in 1..i : Matches(table, n, k) => size(k) <= size(i)
      BY <1>1, <1>2, <1>3
    <3> QED BY <2>2, <3>1, <3>2 DEF Seen
  <2>3. CASE ~ Matches(table, n, i)
    <3>1. Scan(table, n, i, best) = best
      BY <2>1, <2>3 DEF Scan, Matches
    <3> QED BY <1>2, <1>3, <2>1, <2>3, <3>1 DEF Seen
  <2> QED BY <2>2, <2>3
<1>4. CASE \E j \in 1..(i - 1) : Matches(table, n, j)
  <2>1. PICK j \in 1..(i - 1) :
          /\ Matches(table, n, j)
          /\ best = [rule |-> table[j].rule, size |-> size(j)]
          /\ \A k \in 1..(i - 1) : Matches(table, n, k) => size(k) <= size(j)
    BY <1>4 DEF Seen
  <2>2. size(j) \in Nat /\ size(i) \in Nat /\ size(j) > 0 /\ best.size = size(j)
    BY <1>1, <1>2, <2>1 DEF Matches
  <2>3. CASE IsPrefix(table[i].prefix, n) /\ size(i) > size(j)
    <3>1. Scan(table, n, i, best) = [rule |-> table[i].rule, size |-> size(i)]
      BY <2>2, <2>3 DEF Scan
    <3>2. Matches(table, n, i)
      BY <2>2, <2>3 DEF Matches
    <3>3. \A k \in 1..i : Matches(table, n, k) => size(k) <= size(i)
      BY <1>1, <1>2, <2>1, <2>2, <2>3
    <3> QED BY <3>1, <3>2, <3>3 DEF Seen
  <2>4. CASE ~ (IsPrefix(table[i].prefix, n) /\ size(i) > size(j))
    <3>1. Scan(table, n, i, best) = best
      BY <2>2, <2>4 DEF Scan
    <3>2. Matches(table, n, i) => size(i) <= size(j)
      BY <2>2, <2>4 DEF Matches
    <3>3. \A k \in 1..i : Matches(table, n, k) => size(k) <= size(j)
      BY <1>2, <2>1, <3>2
    <3> QED BY <1>2, <2>1, <3>1, <3>3 DEF Seen
  <2> QED BY <2>3, <2>4
<1> QED BY <1>3, <1>4

(* So it knows it of the whole table at the end, by induction.              *)
LEMMA BestSeen ==
  ASSUME NEW table \in Seq(Entry), NEW n
  PROVE  Seen(table, n, Len(table), Best(table, n)[Len(table)])
<1> DEFINE T == {m \in 0..Len(table) : ~ Seen(table, n, m, Best(table, n)[m])}
<1>1. Len(table) \in Nat
  BY LenProperties
<1>2. T = {}
  <2> SUFFICES ASSUME T # {} PROVE FALSE
    OBVIOUS
  <2>1. PICK m \in T : \A k \in T : m <= k
    <3>1. T \subseteq Nat
      BY <1>1
    <3> HIDE DEF T
    <3> QED BY <3>1, LeastNat
  <2>2. m \in 0..Len(table) /\ ~ Seen(table, n, m, Best(table, n)[m])
    OBVIOUS
  <2>3. m # 0
    <3>1. Seen(table, n, 0, Best(table, n)[0])
      BY <1>1, BestIsScan DEF Seen
    <3> QED BY <2>2, <3>1
  <2>4. m \in 1..Len(table) /\ m - 1 \in 0..Len(table) /\ ~ (m <= m - 1)
    BY <1>1, <2>2, <2>3
  <2>5. m - 1 \notin T
    <3> HIDE DEF T
    <3> QED BY <2>1, <2>4
  <2>6. Seen(table, n, m - 1, Best(table, n)[m - 1])
    BY <2>4, <2>5
  <2>7. Best(table, n)[m] = Scan(table, n, m, Best(table, n)[m - 1])
    BY <1>1, <2>4, BestIsScan
  <2>8. Seen(table, n, m, Best(table, n)[m])
    BY <2>4, <2>6, <2>7, ScanKeepsSeen
  <2> QED BY <2>2, <2>8
<1> QED BY <1>1, <1>2

(* What a lookup finds is a rule.                                           *)
LEMMA FindMatchedType ==
  ASSUME NEW table \in Seq(Entry), NEW n
  PROVE  FindMatched(table, n) \in Rule
<1>1. Len(table) \in Nat
  BY LenProperties
<1>2. NoRule \in Rule
  BY ProducerAssumption DEF ProducerAssumption
<1>3. CASE \E j \in 1..Len(table) : FindMatched(table, n) = table[j].rule
  BY <1>3, EntryType
<1>4. CASE FindMatched(table, n) = NoRule
  BY <1>2, <1>4
<1>5. Seen(table, n, Len(table), Best(table, n)[Len(table)])
  BY BestSeen
<1>6. \/ Best(table, n)[Len(table)] = [rule |-> NoRule, size |-> 0]
      \/ \E j \in 1..Len(table) :
           Best(table, n)[Len(table)] = [rule |-> table[j].rule, size |-> Len(table[j].prefix)]
  BY <1>5, Zenon DEF Seen
<1>7. CASE Best(table, n)[Len(table)] = [rule |-> NoRule, size |-> 0]
  BY <1>4, <1>7 DEF FindMatched
<1>8. ASSUME NEW j \in 1..Len(table),
             Best(table, n)[Len(table)] = [rule |-> table[j].rule, size |-> Len(table[j].prefix)]
      PROVE  FindMatched(table, n) \in Rule
  BY <1>3, <1>8 DEF FindMatched
<1> QED BY <1>6, <1>7, <1>8
-----------------------------------------------------------------------------
(* One prefix has one entry, so its rule is that of any entry for it.       *)
LEMMA RuleForEntry ==
  ASSUME NEW table \in Seq(Entry), Unique(table), NEW j \in 1..Len(table)
  PROVE  RuleFor(table, table[j].prefix) = table[j].rule
<1>1. DOMAIN table = 1..Len(table)
  BY LenProperties
<1>2. Entries(table, table[j].prefix) = {j}
  BY <1>1 DEF Entries, Unique
<1> QED BY <1>2 DEF RuleFor

(* RuleFor yields the rule of an entry of the table, if the prefix has one. *)
LEMMA RuleForMember ==
  ASSUME NEW table \in Seq(Entry), NEW p, RuleFor(table, p) # Unset
  PROVE  \E j \in 1..Len(table) : table[j].prefix = p
<1>1. DOMAIN table = 1..Len(table)
  BY LenProperties
<1> QED BY <1>1 DEF Entries, RuleFor

(* Two prefixes of a name that are as long as each other are the same.      *)
LEMMA PrefixOfLength ==
  ASSUME NEW n \in DataName, NEW p \in Prefix, NEW q \in Prefix,
         IsPrefix(p, n), IsPrefix(q, n), Len(p) = Len(q)
  PROVE  p = q
<1>1. p \in Seq(Component) /\ q \in Seq(Component)
  BY ProducerAssumption DEF ProducerAssumption
<1>2. SubSeq(p, 1, Len(p)) = SubSeq(q, 1, Len(q))
  BY DEF IsPrefix
<1>3. SubSeq(p, 1, Len(p)) = p /\ SubSeq(q, 1, Len(q)) = q
  BY <1>1, SubSeqFull
<1> QED BY <1>2, <1>3

(* The scan finds the rule in force for the longest commanded prefix.       *)
LEMMA FindMatchedLongest ==
  ASSUME NEW table \in Seq(Entry), Unique(table), NEW n \in DataName
  PROVE  LET commanded == {p \in Prefix \ {<<>>} : IsPrefix(p, n) /\ RuleFor(table, p) # Unset}
             longest == CHOOSE p \in commanded : \A q \in commanded : Len(q) <= Len(p)
         IN  \/ commanded = {} /\ FindMatched(table, n) = NoRule
             \/ /\ commanded # {} /\ longest \in commanded /\ \A q \in commanded : Len(q) <= Len(longest)
                /\ FindMatched(table, n) = RuleFor(table, longest)
<1> DEFINE commanded == {p \in Prefix \ {<<>>} : IsPrefix(p, n) /\ RuleFor(table, p) # Unset}
           size(j) == Len(table[j].prefix)
           found == Best(table, n)[Len(table)]
<1>1. Seen(table, n, Len(table), found)
  BY BestSeen
<1>2. \A p \in Prefix : Len(p) \in Nat /\ (p # <<>> <=> Len(p) > 0)
  <2>1. \A p \in Prefix : p \in Seq(Component)
    BY ProducerAssumption DEF ProducerAssumption
  <2> QED BY <2>1, EmptySeq, LenProperties
<1>3. ASSUME NEW j \in 1..Len(table), Matches(table, n, j)
      PROVE  table[j].prefix \in commanded
  <2>1. table[j].prefix \in Prefix /\ table[j].rule \in Rule /\ table[j].prefix # <<>>
    BY <1>2, <1>3, EntryType DEF Matches
  <2>2. RuleFor(table, table[j].prefix) # Unset
    BY <2>1, RuleForEntry, ProducerAssumption DEF ProducerAssumption
  <2> QED BY <1>3, <2>1, <2>2 DEF Matches
<1>4. ASSUME NEW p \in commanded
      PROVE  \E j \in 1..Len(table) : Matches(table, n, j) /\ table[j].prefix = p
  <2>1. PICK j \in 1..Len(table) : table[j].prefix = p
    BY RuleForMember
  <2> QED BY <1>2, <2>1 DEF Matches
<1>5. CASE \A j \in 1..Len(table) : ~ Matches(table, n, j)
  <2>1. commanded = {}
    BY <1>4, <1>5
  <2>2. found = [rule |-> NoRule, size |-> 0]
    BY <1>1, <1>5, Zenon DEF Seen
  <2> QED BY <2>1, <2>2 DEF FindMatched
<1>6. CASE \E j \in 1..Len(table) : Matches(table, n, j)
  <2>1. PICK j \in 1..Len(table) :
          /\ Matches(table, n, j)
          /\ found = [rule |-> table[j].rule, size |-> size(j)]
          /\ \A k \in 1..Len(table) : Matches(table, n, k) => size(k) <= size(j)
    BY <1>1, <1>6 DEF Seen
  <2> DEFINE best == table[j].prefix
             Longest(p) == \A q \in commanded : Len(q) <= Len(p)
  <2>2. best \in commanded /\ Longest(best)
    BY <1>3, <1>4, <2>1
  <2>3. ASSUME NEW p \in commanded, Longest(p) PROVE p = best
    <3>1. Len(p) = Len(best)
      BY <1>2, <2>2, <2>3
    <3> QED BY <2>2, <3>1, PrefixOfLength
  <2>4. (CHOOSE p \in commanded : Longest(p)) = best
    <3> HIDE DEF commanded, best, Longest
    <3> QED BY <2>2, <2>3
  <2>5. FindMatched(table, n) = RuleFor(table, best)
    BY <2>1, RuleForEntry DEF FindMatched
  <2>6. commanded # {}
    BY <2>2
  <2> QED BY <2>2, <2>4, <2>5, <2>6
<1> QED BY <1>5, <1>6
-----------------------------------------------------------------------------
(* A command gives its prefix its rule, and no other prefix another; the    *)
(* table keeps one entry for each.                                          *)
LEMMA AddNewSetsRule ==
  ASSUME NEW table \in Seq(Entry), Unique(table), NEW p \in Prefix, NEW rule \in Rule
  PROVE  /\ AddNew(table, p, rule) \in Seq(Entry)
         /\ Unique(AddNew(table, p, rule))
         /\ \A q : RuleFor(AddNew(table, p, rule), q) = IF q = p THEN rule ELSE RuleFor(table, q)
<1> DEFINE new == [prefix |-> p, rule |-> rule]
           after == AddNew(table, p, rule)
<1>1. new \in Entry /\ new.prefix = p /\ new.rule = rule
  BY DEF Entry
<1>2. Len(table) \in Nat /\ DOMAIN table = 1..Len(table)
  BY LenProperties
<1>3. CASE Entries(table, p) = {}
  <2>1. after = Append(table, new)
    BY <1>3 DEF AddNew
  <2>2. /\ after \in Seq(Entry) /\ Len(after) = Len(table) + 1
        /\ \A i \in 1..Len(table) : after[i] = table[i]
        /\ after[Len(table) + 1] = new
    <3> HIDE DEF new, after
    <3> QED BY <1>1, <2>1, AppendProperties
  <2>3. DOMAIN after = 1..(Len(table) + 1)
    <3> HIDE DEF after
    <3> QED BY <2>2, LenProperties
  <2>4. \A i \in 1..Len(table) : table[i].prefix # p
    BY <1>2, <1>3 DEF Entries
  <2>5. Unique(after)
    <3> HIDE DEF new, after
    <3> QED BY <1>1, <1>2, <2>2, <2>3, <2>4 DEF Unique
  <2>6. RuleFor(after, p) = rule
    <3>1. Len(table) + 1 \in 1..Len(after)
      BY <1>2, <2>2
    <3> HIDE DEF new, after
    <3> QED BY <1>1, <2>2, <2>5, <3>1, RuleForEntry
  <2>7. ASSUME NEW q, q # p PROVE RuleFor(after, q) = RuleFor(table, q)
    <3> HIDE DEF new, after
    <3>1. Entries(after, q) = Entries(table, q)
      BY <1>1, <1>2, <2>2, <2>3, <2>7 DEF Entries
    <3>2. CASE Entries(table, q) = {}
      BY <3>1, <3>2 DEF RuleFor
    <3>3. CASE Entries(table, q) # {}
      <4>1. (CHOOSE i \in Entries(table, q) : TRUE) \in 1..Len(table)
        BY <1>2, <3>3 DEF Entries
      <4> QED BY <2>2, <3>1, <3>3, <4>1 DEF RuleFor
    <3> QED BY <3>2, <3>3
  <2> QED BY <2>2, <2>5, <2>6, <2>7
<1>4. CASE Entries(table, p) # {}
  <2>1. PICK e \in 1..Len(table) : table[e].prefix = p
    BY <1>2, <1>4 DEF Entries
  <2>2. Entries(table, p) = {e}
    BY <1>2, <2>1 DEF Entries, Unique
  <2>3. (CHOOSE i \in Entries(table, p) : \A j \in Entries(table, p) : i <= j) = e
    BY <2>1, <2>2
  <2>4. after = [table EXCEPT ![e] = new]
    BY <1>4, <2>3 DEF AddNew
  <2>5. /\ after \in Seq(Entry) /\ Len(after) = Len(table)
        /\ \A i \in 1..Len(table) : after[i] = IF i = e THEN new ELSE table[i]
    <3> HIDE DEF new, after
    <3> QED BY <1>1, <2>1, <2>4, ExceptSeq
  <2>6. DOMAIN after = 1..Len(table)
    <3> HIDE DEF after
    <3> QED BY <2>5, LenProperties
  <2>7. \A i \in 1..Len(table) : after[i].prefix = table[i].prefix
    <3> HIDE DEF new, after
    <3> QED BY <1>1, <2>1, <2>5
  <2>8. Unique(after)
    <3> HIDE DEF new, after
    <3> QED BY <1>2, <2>6, <2>7 DEF Unique
  <2>9. RuleFor(after, p) = rule
    <3> HIDE DEF new, after
    <3> QED BY <1>1, <2>1, <2>5, <2>8, RuleForEntry
  <2>10. ASSUME NEW q, q # p PROVE RuleFor(after, q) = RuleFor(table, q)
    <3> HIDE DEF new, after
    <3>1. Entries(after, q) = Entries(table, q)
      BY <1>2, <2>6, <2>7 DEF Entries
    <3>2. CASE Entries(table, q) = {}
      BY <3>1, <3>2 DEF RuleFor
    <3>3. CASE Entries(table, q) # {}
      <4>1. (CHOOSE i \in Entries(table, q) : TRUE) \in (1..Len(table)) \ {e}
        BY <1>2, <2>1, <2>10, <3>3 DEF Entries
      <4> QED BY <2>5, <3>1, <3>3, <4>1 DEF RuleFor
    <3> QED BY <3>2, <3>3
  <2> QED BY <2>5, <2>8, <2>9, <2>10
<1> QED BY <1>3, <1>4
-----------------------------------------------------------------------------
(* The inductive invariant: the properties themselves, together.            *)
IInv == ProducerTypeOK /\ PrefixesUnique /\ DataUnderItsRule

(* The initial states satisfy IInv. *)
LEMMA InitIInv == ProducerInit => IInv
<1> SUFFICES ASSUME ProducerInit PROVE IInv
  OBVIOUS
<1> USE ProducerAssumption DEF ProducerAssumption
<1>1. <<>> \in Seq(Entry) /\ DOMAIN <<>> = {}
  BY EmptySeq
<1>2. ProducerTypeOK
  <2>1. policies \in Seq(Entry) /\ attributes \in Seq(Entry) /\ policies = <<>> /\ attributes = <<>>
    BY <1>1 DEF ProducerInit
  <2>2. abeType = "unset" /\ abeType \notin {CpAbe, KpAbe} /\ pubParams = FALSE
    BY DEF ProducerInit, CpAbe, KpAbe
  <2>3. /\ keyCache \in [Rule -> Ck \cup {NoCk}] /\ issued \in [Ck -> Rule \cup {Unset}]
        /\ output \in [name : DataName \cup {<<>>}, rule : Rule, ck : Ck \cup {NoCk}]
        /\ output.ck = NoCk
    BY DEF ProducerInit, NoOutput
  <2> QED BY <2>1, <2>2, <2>3 DEF ProducerTypeOK
<1>3. PrefixesUnique
  BY <1>1 DEF ProducerInit, PrefixesUnique, Unique
<1>4. DataUnderItsRule
  BY DEF ProducerInit, DataUnderItsRule, NoOutput
<1> QED BY <1>2, <1>3, <1>4 DEF IInv

(* A command leaves a table well-formed, and changes nothing else.          *)
LEMMA CommandIInv ==
  ASSUME IInv, NEW p \in Prefix, NEW rule \in Rule, OnPolicyInterest(p, rule)
  PROVE  IInv'
<1> USE DEF IInv, OnPolicyInterest, producing
<1>1. /\ policies \in Seq(Entry) /\ Unique(policies)
      /\ attributes \in Seq(Entry) /\ Unique(attributes)
  BY DEF ProducerTypeOK, PrefixesUnique
<1>2. policies' \in Seq(Entry) /\ Unique(policies')
  BY <1>1, AddNewSetsRule
<1>3. attributes' \in Seq(Entry) /\ Unique(attributes')
  BY <1>1, AddNewSetsRule
<1>4. ProducerTypeOK'
  BY <1>2, <1>3 DEF ProducerTypeOK
<1>5. PrefixesUnique'
  BY <1>2, <1>3 DEF PrefixesUnique, Unique
<1>6. DataUnderItsRule'
  BY DEF DataUnderItsRule
<1> QED BY <1>4, <1>5, <1>6

(* A CK that is not Unset belongs to its rule: no step gives it another.    *)
LEMMA ProduceIInv ==
  ASSUME IInv, pubParams, NEW n \in DataName, NEW rule \in Rule, ProduceUnder(n, rule),
         UNCHANGED <<abeType, pubParams, tables>>
  PROVE  IInv'
<1> USE ProducerAssumption DEF ProducerAssumption, IInv, tables
<1>1. PICK ck \in Ck :
        /\ \/ keyCache[rule] = ck /\ UNCHANGED <<keyCache, issued>>
           \/ CkDataGen(rule, ck) /\ keyCache' = [keyCache EXCEPT ![rule] = ck]
           \/ CkDataGen(rule, ck) /\ UNCHANGED keyCache
        /\ output' = [name |-> n, rule |-> rule, ck |-> ck]
  BY DEF ProduceUnder
<1>2. PrefixesUnique'
  BY DEF PrefixesUnique, Unique
<1>3. output' \in [name : DataName \cup {<<>>}, rule : Rule, ck : Ck \cup {NoCk}]
  BY <1>1
<1>4. CASE keyCache[rule] = ck /\ UNCHANGED <<keyCache, issued>>
  <2>1. ProducerTypeOK'
    BY <1>3, <1>4 DEF ProducerTypeOK
  <2>2. DataUnderItsRule'
    BY <1>1, <1>4 DEF DataUnderItsRule
  <2> QED BY <1>2, <2>1, <2>2
<1>5. CASE CkDataGen(rule, ck) /\ keyCache' \in {keyCache, [keyCache EXCEPT ![rule] = ck]}
  <2>1. ProducerTypeOK'
    BY <1>3, <1>5 DEF ProducerTypeOK, CkDataGen
  <2>2. issued[ck] = Unset /\ issued' = [issued EXCEPT ![ck] = rule]
    BY <1>5 DEF CkDataGen
  <2>3. DataUnderItsRule'
    BY <1>1, <1>5, <2>2 DEF DataUnderItsRule, ProducerTypeOK
  <2> QED BY <1>2, <2>1, <2>3
<1> QED BY <1>1, <1>4, <1>5

(* Every step keeps IInv, one case per action. *)
LEMMA StepIInv == IInv /\ [ProducerNext]_producerVars => IInv'
<1> SUFFICES ASSUME IInv, [ProducerNext]_producerVars PROVE IInv'
  OBVIOUS
<1>1. ASSUME NEW type \in {CpAbe, KpAbe, "other"}, LearnPublicParams(type) PROVE IInv'
  <2> USE DEF IInv, LearnPublicParams, tables, producing
  <2>1. policies' = <<>> /\ attributes' = <<>> /\ output'.ck = NoCk
    <3>1. abeType \notin {CpAbe, KpAbe}
      BY <1>1 DEF CpAbe, KpAbe
    <3> QED BY <1>1, <3>1 DEF ProducerTypeOK
  <2>2. abeType' \in {"unset", CpAbe, KpAbe, "other"}
    BY <1>1
  <2>3. pubParams' \in BOOLEAN /\ (pubParams' <=> abeType' \in {CpAbe, KpAbe})
    <3>1. pubParams' = (type \in {CpAbe, KpAbe}) /\ abeType' = type
      BY <1>1
    <3>2. (type \in {CpAbe, KpAbe}) \in BOOLEAN
      OBVIOUS
    <3> QED BY <3>1, <3>2, Zenon
  <2>4. ProducerTypeOK'
    BY <1>1, <2>1, <2>2, <2>3 DEF ProducerTypeOK
  <2>5. PrefixesUnique' /\ DataUnderItsRule'
    BY <1>1 DEF PrefixesUnique, Unique, DataUnderItsRule
  <2> QED BY <2>4, <2>5
<1>2. ASSUME NEW n \in DataName, ProduceMatched(n) PROVE IInv'
  <2>1. FindMatched(policies, n) \in Rule /\ FindMatched(attributes, n) \in Rule
    BY FindMatchedType DEF IInv, ProducerTypeOK
  <2> QED BY <1>2, <2>1, ProduceIInv DEF ProduceMatched
<1>3. ASSUME NEW n \in DataName, NEW rule \in Rule \ {NoRule}, NEW type \in {CpAbe, KpAbe},
             Produce(n, rule, type)
      PROVE  IInv'
  BY <1>3, ProduceIInv DEF Produce
<1>4. CASE ClearCache
  BY <1>4 DEF IInv, ClearCache, tables, ProducerTypeOK, PrefixesUnique, Unique, DataUnderItsRule
<1>5. ASSUME NEW p \in Prefix, NEW rule \in Rule, OnPolicyInterest(p, rule) PROVE IInv'
  BY <1>5, CommandIInv
<1>6. CASE UNCHANGED producerVars
  BY <1>6 DEF IInv, producerVars, tables, producing, ProducerTypeOK, PrefixesUnique, Unique,
     DataUnderItsRule
<1> QED BY <1>1, <1>2, <1>3, <1>4, <1>5, <1>6 DEF ProducerNext, ProducerStep

(* IInv holds throughout. *)
LEMMA Invariance == ProducerSpec => []IInv
<1> QED BY InitIInv, StepIInv, PTL DEF ProducerSpec

(* Every variable keeps its type, a table is filled only when its type is   *)
(* known, and data is produced only with parameters.                        *)
THEOREM TypeCorrect == ProducerSpec => []ProducerTypeOK
<1>1. IInv => ProducerTypeOK
  BY DEF IInv
<1> QED BY <1>1, Invariance, PTL

(* However commands repeat and interleave, a prefix has one entry.          *)
THEOREM OneEntryPerPrefix == ProducerSpec => []PrefixesUnique
<1>1. IInv => PrefixesUnique
  BY DEF IInv
<1> QED BY <1>1, Invariance, PTL

(* Data is produced under a CK of its own rule, fresh or from the cache.    *)
THEOREM NoKeyAcrossRules == ProducerSpec => []DataUnderItsRule
<1>1. IInv => DataUnderItsRule
  BY DEF IInv
<1> QED BY <1>1, Invariance, PTL

(* findMatchedPolicy and findMatchedAttributes find the rule in force for   *)
(* the longest commanded prefix of a name, for tables of any length.        *)
THEOREM LongestPrefixWins == ProducerSpec => []MatchIsLongest
<1>1. IInv => MatchIsLongest
  <2> SUFFICES ASSUME IInv, NEW n \in DataName
               PROVE  LET commanded == {p \in Prefix \ {<<>>} : IsPrefix(p, n) /\ InForce[p] # Unset}
                      IN  FindMatched(Table, n) =
                            IF commanded = {} THEN NoRule
                            ELSE InForce[CHOOSE p \in commanded : \A q \in commanded : Len(q) <= Len(p)]
    BY DEF MatchIsLongest
  <2> DEFINE commanded == {p \in Prefix \ {<<>>} : IsPrefix(p, n) /\ RuleFor(Table, p) # Unset}
             Longest(p) == \A q \in commanded : Len(q) <= Len(p)
             longest == CHOOSE p \in commanded : Longest(p)
  <2>1. Table \in Seq(Entry) /\ Unique(Table)
    BY DEF IInv, ProducerTypeOK, PrefixesUnique, Table
  <2>2. \/ commanded = {} /\ FindMatched(Table, n) = NoRule
        \/ commanded # {} /\ longest \in commanded /\ FindMatched(Table, n) = RuleFor(Table, longest)
    BY <2>1, FindMatchedLongest
  <2>3. {p \in Prefix \ {<<>>} : IsPrefix(p, n) /\ InForce[p] # Unset} = commanded
    BY DEF InForce
  <2>4. longest \in commanded => RuleFor(Table, longest) = InForce[longest]
    BY DEF InForce
  <2> QED BY <2>2, <2>3, <2>4
<1> QED BY <1>1, Invariance, PTL

(* What each step does to the rules in force: a command sets one, if the    *)
(* type is known, and nothing else changes any.                             *)
LEMMA CommandSetsRule ==
  ASSUME IInv, NEW p \in Prefix, NEW rule \in Rule, OnPolicyInterest(p, rule)
  PROVE  InForce' = IF abeType \in {CpAbe, KpAbe} THEN [InForce EXCEPT ![p] = rule] ELSE InForce
<1>1. CASE abeType \in {CpAbe, KpAbe}
  <2>1. Table' = AddNew(Table, p, rule)
    BY <1>1 DEF OnPolicyInterest, Table, CpAbe, KpAbe
  <2>2. Table \in Seq(Entry) /\ Unique(Table)
    BY DEF IInv, ProducerTypeOK, PrefixesUnique, Table
  <2>3. \A q \in Prefix : RuleFor(Table', q) = IF q = p THEN rule ELSE RuleFor(Table, q)
    BY <2>1, <2>2, AddNewSetsRule
  <2>4. InForce' = [q \in Prefix |-> RuleFor(Table', q)]
    BY DEF InForce
  <2>5. InForce' = [InForce EXCEPT ![p] = rule]
    BY <2>3, <2>4 DEF InForce
  <2> QED BY <1>1, <2>5
<1>2. CASE abeType \notin {CpAbe, KpAbe}
  <2>1. Table' = Table
    BY <1>2 DEF OnPolicyInterest, Table
  <2> QED BY <1>2, <2>1 DEF InForce
<1> QED BY <1>1, <1>2

(* A step other than a command leaves InForce as it is. *)
LEMMA StepKeepsRules ==
  ASSUME IInv, ProducerStep \/ UNCHANGED producerVars
  PROVE  InForce' = InForce
<1>1. ASSUME NEW type \in {CpAbe, KpAbe, "other"}, LearnPublicParams(type) PROVE Table' = Table
  <2>1. policies = <<>> /\ attributes = <<>>
    BY <1>1 DEF LearnPublicParams, IInv, ProducerTypeOK, CpAbe, KpAbe
  <2> QED BY <1>1, <2>1 DEF LearnPublicParams, Table, tables
<1>2. ASSUME UNCHANGED <<abeType, tables>> PROVE Table' = Table
  BY <1>2 DEF Table, tables
<1>3. Table' = Table
  BY <1>1, <1>2 DEF ProducerStep, ProduceMatched, Produce, ClearCache, producerVars
<1> QED BY <1>3 DEF InForce

(* The table implements a map from prefixes to rules: a command sets one    *)
(* prefix, and nothing else changes any.                                    *)
THEOREM Refinement == ProducerSpec => ImplementsPolicyTable
<1>1. ASSUME ProducerInit PROVE TableAbstract!Init
  <2>1. Table = <<>> /\ DOMAIN <<>> = {}
    BY <1>1, EmptySeq DEF ProducerInit, Table
  <2>2. \A p : RuleFor(Table, p) = Unset
    BY <2>1 DEF RuleFor, Entries
  <2> QED BY <2>2 DEF TableAbstract!Init, InForce
<1>2. ASSUME IInv, [ProducerNext]_producerVars PROVE [TableAbstract!Next]_InForce
  <2>1. ASSUME NEW p \in Prefix, NEW rule \in Rule, OnPolicyInterest(p, rule)
        PROVE  TableAbstract!Next \/ InForce' = InForce
    BY <1>2, <2>1, CommandSetsRule DEF TableAbstract!Next, TableAbstract!Set
  <2> QED BY <1>2, <2>1, StepKeepsRules DEF ProducerNext
<1> QED
  BY <1>1, <1>2, Invariance, PTL DEF ProducerSpec, ImplementsPolicyTable, TableAbstract!Spec
=============================================================================
