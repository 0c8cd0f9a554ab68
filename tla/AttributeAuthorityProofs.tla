---------------------- MODULE AttributeAuthorityProofs ----------------------
(***************************************************************************)
(* The theorems of AttributeAuthority.  A step that makes a DKEY is        *)
(* described once, by Making; every other step leaves the DKEYs alone.     *)
(***************************************************************************)
EXTENDS AttributeAuthority, TLAPS

(* The first segment is a segment.                                           *)
LEMMA ZeroSegment == 0 \in Segment /\ Segment \subseteq Nat
BY AuthorityAssumption DEF Segment, AuthorityAssumption

(* Sending a segment adds its DKEY to those sent.                            *)
LEMMA SentGrows ==
  ASSUME NEW d, NEW s, published' = published \cup {<<d, s>>}
  PROVE  Sent' = Sent \cup {d}
<1>1. ASSUME NEW e \in Sent' PROVE e \in Sent \cup {d}
  <2>1. PICK p \in published' : e = p[1]
    BY <1>1 DEF Sent
  <2>2. CASE p \in published
    BY <2>1, <2>2 DEF Sent
  <2>3. CASE p = <<d, s>>
    BY <2>1, <2>3
  <2> QED BY <2>2, <2>3
<1>2. ASSUME NEW e \in Sent \cup {d} PROVE e \in Sent'
  <2>1. CASE e \in Sent
    BY <2>1 DEF Sent
  <2>2. CASE e = d
    <3>1. <<d, s>> \in published' /\ <<d, s>>[1] = d
      OBVIOUS
    <3> QED BY <2>2, <3>1 DEF Sent
  <2> QED BY <2>1, <2>2
<1> QED BY <1>1, <1>2

(* Everything sent is a DKEY.                                                *)
LEMMA SentType == ASSUME TypeOK PROVE Sent \subseteq Dkey
BY DEF TypeOK, Sent
-----------------------------------------------------------------------------
(* What a step that makes the DKEY d under a name does to the state.         *)
Making(d, name, key) ==
  /\ d \in Dkey /\ d.name = name /\ d.key = key
  /\ d.policy = tokens[OwnerOf[key]] /\ d.version = clock + 1 /\ d.life = restarts
  /\ clock' = clock + 1
  /\ segmentMap' = segmentMap \cup {d}
  /\ published' = published \cup {<<d, 0>>} \/ published' = published
  /\ stage' \in [Interest -> {"unsent", "pending", "gone"}]

(* generateDecryptionKeySegments makes one DKEY: its version is later than   *)
(* any other, so it never meets an entry of m_segmentMap under its name.     *)
LEMMA MakesOne ==
  ASSUME TypeOK, SentInv, NEW name \in Key, NEW key \in Key, NEW asking, Registered(key),
         GenerateDecryptionKeySegments(name, key, asking)
  PROVE  \E d \in Dkey : Making(d, name, key)
<1> DEFINE d == [name |-> name, key |-> key, policy |-> tokens[OwnerOf[key]],
                 version |-> clock + 1, life |-> restarts]
<1>1. OwnerOf[key] \in Identity /\ tokens[OwnerOf[key]] \in Policy
  BY AuthorityAssumption DEF AuthorityAssumption, Registered, TypeOK
<1>2. clock \in Nat /\ clock + 1 \in Nat /\ restarts \in Nat
  BY DEF TypeOK
<1>3. d \in Dkey
  BY <1>1, <1>2 DEF Dkey
<1>4. \A e \in segmentMap : e.version # clock + 1
  <2>1. \A e \in segmentMap : e.version \in Nat /\ e.version <= clock
    BY DEF TypeOK, SentInv, Dkey
  <2> QED BY <1>2, <2>1
<1>5. segmentMap' = segmentMap \cup {d}
  BY <1>4 DEF GenerateDecryptionKeySegments, MakeAs, PrivateKeyFor
<1>6. published' = published \cup {<<d, 0>>} \/ published' = published
  BY DEF GenerateDecryptionKeySegments, MakeAs, PrivateKeyFor
<1>7. stage' \in [Interest -> {"unsent", "pending", "gone"}]
  BY DEF GenerateDecryptionKeySegments, MakeAs, TypeOK
<1>8. clock' = clock + 1
  BY DEF GenerateDecryptionKeySegments
<1>9. Making(d, name, key)
  BY <1>3, <1>5, <1>6, <1>7, <1>8 DEF Making
<1> QED BY <1>3, <1>9

(* A certificate's arrival makes a DKEY for the key of its request.          *)
LEMMA CertificateMakes ==
  ASSUME IInv, NEW n \in Interest, OnCertificate(n)
  PROVE  \E name \in Key, d \in Dkey :
           /\ Making(d, name, KeyOf[n])
           /\ late' = {} => name = KeyOf[n]
<1>1. KeyOf[n] \in Key /\ Registered(KeyOf[n])
  BY AuthorityAssumption DEF AuthorityAssumption, OnCertificate, IInv, TokenAwaitsCert
<1>2. CASE GenerateDecryptionKeySegments(KeyOf[n], KeyOf[n], {})
  BY <1>1, <1>2, MakesOne DEF IInv
<1>3. CASE n \in late' /\ \E name \in Key : GenerateDecryptionKeySegments(name, KeyOf[n], {})
  BY <1>1, <1>3, MakesOne DEF IInv
<1> QED BY <1>2, <1>3 DEF OnCertificate

(* A request makes a DKEY for the key it names, or none.                     *)
LEMMA RequestMakes ==
  ASSUME IInv, NEW n \in Interest, OnDecryptionKeyRequest(n)
  PROVE  \/ \E d \in Dkey : Making(d, KeyOf[n], KeyOf[n]) /\ UNCHANGED certFetches
         \/ /\ UNCHANGED <<segmentMap, published, clock>>
            /\ stage' \in [Interest -> {"unsent", "pending", "gone"}]
            /\ certFetches' = IF Registered(KeyOf[n]) THEN certFetches \cup {n} ELSE certFetches
<1>1. KeyOf[n] \in Key
  BY AuthorityAssumption DEF AuthorityAssumption
<1>2. CASE /\ Registered(KeyOf[n]) /\ UNCHANGED certFetches
           /\ GenerateDecryptionKeySegments(KeyOf[n], KeyOf[n], {n})
  BY <1>1, <1>2, MakesOne DEF IInv
<1>3. CASE /\ stage' = [stage EXCEPT ![n] = "pending"]
           /\ certFetches' = IF Registered(KeyOf[n]) THEN certFetches \cup {n} ELSE certFetches
           /\ UNCHANGED <<segmentMap, published, clock>>
  BY <1>3 DEF IInv, TypeOK
<1> QED BY <1>2, <1>3 DEF OnDecryptionKeyRequest
-----------------------------------------------------------------------------
(* The initial states satisfy the inductive invariant.                       *)
LEMMA InitIInv == Init => IInv
<1> SUFFICES ASSUME Init PROVE IInv
  OBVIOUS
<1>1. TypeOK
  BY DEF Init, TypeOK, Nothing
<1>2. TokenAwaitsCert
  BY DEF Init, TokenAwaitsCert
<1>3. SentInv
  BY DEF Init, SentInv, Sent, Nothing
<1> QED BY <1>1, <1>2, <1>3 DEF IInv

(* Making a DKEY keeps the types of what it touches, and SentInv.            *)
LEMMA MakingKeeps ==
  ASSUME IInv, NEW name \in Key, NEW key \in Key, NEW d \in Dkey, Making(d, name, key),
         UNCHANGED assembled
  PROVE  /\ SentInv'
         /\ segmentMap' \subseteq Dkey /\ published' \subseteq Dkey \X Segment /\ clock' \in Nat
<1>1. Sent' \subseteq Sent \cup {d} /\ Sent \subseteq Sent'
  BY SentGrows DEF Making, Sent
<1>2. segmentMap' = segmentMap \cup {d} /\ clock' = clock + 1 /\ d.version = clock + 1
  BY DEF Making
<1>3. clock \in Nat /\ \A e \in segmentMap \cup Sent : e.version \in Nat /\ e.version <= clock
  BY SentType DEF IInv, TypeOK, SentInv, Dkey
<1>4. \A e \in (segmentMap \cup Sent)' : e \in segmentMap \cup Sent \/ e = d
  BY <1>1, <1>2
<1>5. \A e \in (segmentMap \cup Sent)' : e.version <= clock'
  BY <1>2, <1>3, <1>4
<1>6. \A e, f \in (segmentMap \cup Sent)' : e.version = f.version => e = f
  <2>1. \A e \in segmentMap \cup Sent : e.version # d.version
    BY <1>2, <1>3
  <2>2. \A e, f \in segmentMap \cup Sent : e.version = f.version => e = f
    BY DEF IInv, SentInv
  <2> QED BY <1>4, <2>1, <2>2
<1>7. SentInv'
  BY <1>1, <1>5, <1>6 DEF IInv, SentInv
<1>8. segmentMap' \subseteq Dkey /\ clock' \in Nat
  BY <1>2, <1>3 DEF IInv, TypeOK
<1>9. published' \subseteq Dkey \X Segment
  BY ZeroSegment DEF Making, IInv, TypeOK
<1> QED BY <1>7, <1>8, <1>9

(* The state of the DKEYs, their names and their segments.                   *)
dkeys == <<segmentMap, published, clock, assembled>>

(* What leaves the DKEYs alone keeps SentInv.                                *)
LEMMA DkeysKept ==
  ASSUME SentInv, UNCHANGED dkeys
  PROVE  SentInv'
BY DEF SentInv, Sent, dkeys

(* A registration keeps the invariant: no token is taken back.               *)
LEMMA AddKeeps ==
  ASSUME IInv, NEW i \in Identity, NEW policy \in Policy, AddNewPolicy(i, policy)
  PROVE  IInv'
<1>1. TypeOK'
  BY DEF IInv, TypeOK, AddNewPolicy, AddOrUpdateCertificate, Insert, network
<1>2. \A x \in Identity : tokens[x] # Unset => tokens'[x] = tokens[x]
  BY DEF AddNewPolicy, Insert, IInv, TypeOK
<1>3. TokenAwaitsCert'
  BY <1>2, AuthorityAssumption
     DEF AuthorityAssumption, IInv, TypeOK, TokenAwaitsCert, Registered, AddNewPolicy
<1>4. SentInv'
  BY DkeysKept DEF IInv, AddNewPolicy, dkeys, network
<1> QED BY <1>1, <1>3, <1>4 DEF IInv

(* A request keeps the invariant, however it is handled.                     *)
LEMMA RequestKeeps ==
  ASSUME IInv, NEW n \in Interest, OnDecryptionKeyRequest(n)
  PROVE  IInv'
<1>1. UNCHANGED <<tokens, knownKeys, restarts, late, assembled>>
  BY DEF OnDecryptionKeyRequest
<1>2. KeyOf[n] \in Key
  BY AuthorityAssumption DEF AuthorityAssumption
<1>3. CASE \E d \in Dkey : Making(d, KeyOf[n], KeyOf[n]) /\ UNCHANGED certFetches
  <2>1. PICK d \in Dkey : Making(d, KeyOf[n], KeyOf[n])
    BY <1>3
  <2>2. /\ SentInv'
        /\ segmentMap' \subseteq Dkey /\ published' \subseteq Dkey \X Segment /\ clock' \in Nat
    BY <1>1, <1>2, <2>1, MakingKeeps
  <2>3. stage' \in [Interest -> {"unsent", "pending", "gone"}]
    BY <2>1 DEF Making
  <2>4. TypeOK'
    BY <1>1, <1>3, <2>2, <2>3 DEF IInv, TypeOK
  <2>5. TokenAwaitsCert'
    BY <1>1, <1>3 DEF IInv, TokenAwaitsCert, Registered
  <2> QED BY <2>2, <2>4, <2>5 DEF IInv
<1>4. CASE /\ UNCHANGED <<segmentMap, published, clock>>
           /\ stage' \in [Interest -> {"unsent", "pending", "gone"}]
           /\ certFetches' = IF Registered(KeyOf[n]) THEN certFetches \cup {n} ELSE certFetches
  <2>1. TypeOK'
    BY <1>1, <1>4 DEF IInv, TypeOK
  <2>2. TokenAwaitsCert'
    BY <1>1, <1>4 DEF IInv, TokenAwaitsCert, Registered
  <2>3. SentInv'
    BY <1>1, <1>4, DkeysKept DEF IInv, dkeys
  <2> QED BY <2>1, <2>2, <2>3 DEF IInv
<1> QED BY <1>3, <1>4, RequestMakes

(* The arrival of a certificate keeps the invariant.                         *)
LEMMA CertificateKeeps ==
  ASSUME IInv, NEW n \in Interest, OnCertificate(n)
  PROVE  IInv'
<1>1. /\ UNCHANGED <<tokens, knownKeys, restarts, assembled>> /\ certFetches' = certFetches \ {n}
      /\ late' \subseteq late \cup {n}
  BY DEF OnCertificate
<1>2. PICK name \in Key, d \in Dkey : Making(d, name, KeyOf[n])
  BY CertificateMakes
<1>3. KeyOf[n] \in Key
  BY AuthorityAssumption DEF AuthorityAssumption
<1>4. /\ SentInv'
      /\ segmentMap' \subseteq Dkey /\ published' \subseteq Dkey \X Segment /\ clock' \in Nat
  BY <1>1, <1>2, <1>3, MakingKeeps
<1>5. stage' \in [Interest -> {"unsent", "pending", "gone"}]
  BY <1>2 DEF Making
<1>6. TypeOK'
  BY <1>1, <1>4, <1>5 DEF IInv, TypeOK
<1>7. TokenAwaitsCert'
  BY <1>1 DEF IInv, TokenAwaitsCert, Registered
<1> QED BY <1>4, <1>6, <1>7 DEF IInv

(* A further segment of a DKEY of the map is sent.                           *)
LEMMA SegmentKeeps ==
  ASSUME IInv, NEW k \in Key, NEW s \in Segment, OnSegmentRequest(k, s)
  PROVE  IInv'
<1>1. PICK d \in segmentMap : published' = published \cup {<<d, s>>}
  BY DEF OnSegmentRequest
<1>2. UNCHANGED <<authority, stage, clock, restarts, late, assembled>>
  BY DEF OnSegmentRequest
<1>3. Sent' = Sent \cup {d}
  BY <1>1, SentGrows
<1>4. TypeOK'
  BY <1>1, <1>2 DEF IInv, TypeOK, authority
<1>5. TokenAwaitsCert'
  BY <1>2 DEF IInv, TokenAwaitsCert, Registered, authority
<1>6. SentInv'
  <2>1. segmentMap' \cup Sent' = segmentMap \cup Sent /\ Sent \subseteq Sent'
    BY <1>2, <1>3 DEF authority
  <2> QED BY <1>2, <2>1 DEF IInv, SentInv, authority
<1> QED BY <1>4, <1>5, <1>6 DEF IInv

(* A restart forgets registrations and the certificates they wait for alike. *)
LEMMA RestartKeeps == ASSUME IInv, Restart PROVE IInv'
<1>1. TypeOK'
  BY DEF IInv, TypeOK, Restart, Fresh
<1>2. TokenAwaitsCert'
  BY DEF Restart, Fresh, TokenAwaitsCert
<1>3. SentInv'
  <2>1. segmentMap' = {} /\ Sent' = Sent /\ clock' = clock /\ assembled' = assembled
    BY DEF Restart, Fresh, Sent
  <2> QED BY <2>1 DEF IInv, SentInv
<1> QED BY <1>1, <1>2, <1>3 DEF IInv

(* A decryptor takes a first segment, or one of the version it has.          *)
LEMMA ReceiveKeeps ==
  ASSUME IInv, NEW k \in Key, ReceiveFirst(k) \/ \E s \in Segment : Receive(k, s)
  PROVE  IInv'
<1>1. UNCHANGED <<authority, network, clock, restarts, late>>
  BY DEF ReceiveFirst, Receive
<1>2. Sent' = Sent /\ Sent \subseteq Dkey /\ NoDkey \notin Dkey
  BY <1>1, SentType, DkeyAssumption DEF network, Sent, IInv, DkeyAssumption
<1>3. TokenAwaitsCert'
  BY <1>1 DEF IInv, TokenAwaitsCert, Registered, authority
<1>4. CASE ReceiveFirst(k)
  <2>1. PICK d \in Sent : assembled' = [assembled EXCEPT ![k] = [Nothing EXCEPT ![0] = d]]
    BY <1>4 DEF ReceiveFirst
  <2>2. TypeOK'
    BY <1>1, <1>2, <2>1, ZeroSegment DEF IInv, TypeOK, Nothing, authority, network
  <2>3. \A x \in Key \ {k} : assembled'[x] = assembled[x]
    BY <2>1 DEF IInv, TypeOK
  <2>4. assembled'[k][0] = d /\ \A s \in Segment \ {0} : assembled'[k][s] = NoDkey
    BY <2>1, ZeroSegment DEF IInv, TypeOK, Nothing
  <2>5. SentInv'
    BY <1>1, <1>2, <2>3, <2>4 DEF IInv, SentInv, authority, network
  <2> QED BY <1>3, <2>2, <2>5 DEF IInv
<1>5. ASSUME NEW s \in Segment, Receive(k, s) PROVE IInv'
  <2>1. PICK d \in Sent : /\ d.version = assembled[k][0].version
                          /\ assembled' = [assembled EXCEPT ![k][s] = d]
    BY <1>5 DEF Receive
  <2>2. TypeOK'
    BY <1>1, <1>2, <2>1 DEF IInv, TypeOK, authority, network
  <2>3. \A x \in Key \ {k} : assembled'[x] = assembled[x]
    BY <2>1 DEF IInv, TypeOK
  <2>4. assembled'[k][s] = d /\ \A t \in Segment \ {s} : assembled'[k][t] = assembled[k][t]
    BY <2>1 DEF IInv, TypeOK
  <2>5. assembled[k][0] # NoDkey /\ s # 0 /\ assembled[k][0] \in Sent
    BY <1>5, ZeroSegment DEF Receive, IInv, SentInv
  <2>6. SentInv'
    BY <1>1, <1>2, <2>1, <2>3, <2>4, <2>5, ZeroSegment DEF IInv, SentInv, authority, network
  <2> QED BY <1>3, <2>2, <2>6 DEF IInv
<1> QED BY <1>4, <1>5

(* A decryptor gives its segments up.                                        *)
LEMMA EndKeeps == ASSUME IInv, NEW k \in Key, EndFetch(k) PROVE IInv'
<1>1. UNCHANGED <<authority, network, clock, restarts, late>>
  BY DEF EndFetch
<1>2. TypeOK'
  BY <1>1 DEF EndFetch, IInv, TypeOK, Nothing, authority, network
<1>3. TokenAwaitsCert'
  BY <1>1 DEF IInv, TokenAwaitsCert, Registered, authority
<1>4. Sent' = Sent /\ segmentMap' = segmentMap /\ clock' = clock
  BY <1>1 DEF authority, network, Sent
<1>5. \A x \in Key \ {k} : assembled'[x] = assembled[x]
  BY DEF EndFetch, IInv, TypeOK
<1>6. \A s \in Segment : assembled'[k][s] = NoDkey
  BY DEF EndFetch, IInv, TypeOK, Nothing
<1>7. SentInv'
  BY <1>4, <1>5, <1>6 DEF IInv, SentInv
<1> QED BY <1>2, <1>3, <1>7 DEF IInv

(* What remains touches neither registrations nor DKEYs.                     *)
LEMMA QuietKeeps ==
  ASSUME IInv,
         \/ \E n \in Interest : PrvKeyGenThrows(n) \/ Expire(n) \/ OnCertificateFailure(n)
         \/ UNCHANGED vars
  PROVE  IInv'
<1>1. UNCHANGED <<tokens, knownKeys, restarts, late, dkeys>> /\ certFetches' \subseteq certFetches
  BY DEF PrvKeyGenThrows, Expire, OnCertificateFailure, vars, authority, network, dkeys
<1>2. stage' \in [Interest -> {"unsent", "pending", "gone"}]
  BY DEF PrvKeyGenThrows, Expire, OnCertificateFailure, vars, network, IInv, TypeOK
<1>3. TypeOK'
  BY <1>1, <1>2 DEF IInv, TypeOK, dkeys
<1>4. TokenAwaitsCert'
  BY <1>1 DEF IInv, TokenAwaitsCert, Registered
<1>5. SentInv'
  BY <1>1, DkeysKept DEF IInv
<1> QED BY <1>3, <1>4, <1>5 DEF IInv

(* Every step keeps the inductive invariant.                                 *)
LEMMA StepIInv == IInv /\ [Next]_vars => IInv'
<1> SUFFICES ASSUME IInv, [Next]_vars PROVE IInv'
  OBVIOUS
<1>1. ASSUME NEW i \in Identity, NEW policy \in Policy, AddNewPolicy(i, policy) PROVE IInv'
  BY <1>1, AddKeeps
<1>2. ASSUME NEW n \in Interest, OnDecryptionKeyRequest(n) PROVE IInv'
  BY <1>2, RequestKeeps
<1>3. ASSUME NEW n \in Interest, OnCertificate(n) PROVE IInv'
  BY <1>3, CertificateKeeps
<1>4. ASSUME NEW n \in Interest, PrvKeyGenThrows(n) \/ Expire(n) \/ OnCertificateFailure(n) PROVE IInv'
  BY <1>4, QuietKeeps
<1>5. ASSUME NEW k \in Key, ReceiveFirst(k) PROVE IInv'
  BY <1>5, ReceiveKeeps
<1>6. ASSUME NEW k \in Key, EndFetch(k) PROVE IInv'
  BY <1>6, EndKeeps
<1>7. ASSUME NEW k \in Key, NEW s \in Segment \ {0}, OnSegmentRequest(k, s) PROVE IInv'
  BY <1>7, SegmentKeeps
<1>8. ASSUME NEW k \in Key, NEW s \in Segment \ {0}, Receive(k, s) PROVE IInv'
  BY <1>8, ReceiveKeeps
<1>9. CASE Restart
  BY <1>9, RestartKeeps
<1>10. CASE UNCHANGED vars
  BY <1>10, QuietKeeps
<1> QED BY <1>1, <1>2, <1>3, <1>4, <1>5, <1>6, <1>7, <1>8, <1>9, <1>10 DEF Next

(* The inductive invariant holds throughout.                                 *)
LEMMA Invariance == Spec => []IInv
BY InitIInv, StepIInv, PTL DEF Spec

(* Every variable keeps its type, over restarts too.                         *)
THEOREM TypeCorrect == Spec => []TypeOK
<1>1. IInv => TypeOK
  BY DEF IInv
<1> QED BY <1>1, Invariance, PTL

(* getPrivateKey finds the token of every request that waited for its        *)
(* certificate.                                                              *)
THEOREM TokensAwait == Spec => []TokenAwaitsCert
<1>1. IInv => TokenAwaitsCert
  BY DEF IInv
<1> QED BY <1>1, Invariance, PTL

(* No decryptor joins segments of two DKEYs.                                 *)
THEOREM NothingMixed == Spec => []AssembledWhole
<1>1. IInv => AssembledWhole
  BY DEF IInv, SentInv, AssembledWhole
<1> QED BY <1>1, Invariance, PTL
-----------------------------------------------------------------------------
(* Making a DKEY under the name of its key keeps NameInv.                    *)
LEMMA MakingNames ==
  ASSUME NameInv, NEW key \in Key, NEW d \in Dkey, Making(d, key, key), UNCHANGED assembled
  PROVE  NameInv'
<1>1. Sent' \subseteq Sent \cup {d}
  BY SentGrows DEF Making, Sent
<1>2. segmentMap' = segmentMap \cup {d} /\ d.name = d.key
  BY DEF Making
<1> QED BY <1>1, <1>2 DEF NameInv

(* The set of late certificates grows.                                       *)
LEMMA LateGrows == [Next]_vars => late \subseteq late'
BY DEF Next, vars, AddNewPolicy, OnDecryptionKeyRequest, PrvKeyGenThrows, Expire, OnCertificate,
       OnCertificateFailure, OnSegmentRequest, Restart, ReceiveFirst, Receive, EndFetch

(* As long as no certificate has been late, every step keeps the names.      *)
LEMMA StepNames == late' = {} /\ IInv /\ NameInv /\ [Next]_vars => NameInv'
<1> SUFFICES ASSUME late' = {}, IInv, NameInv, [Next]_vars PROVE NameInv'
  OBVIOUS
<1>1. ASSUME segmentMap' \cup Sent' \subseteq segmentMap \cup Sent, UNCHANGED assembled
      PROVE  NameInv'
  BY <1>1 DEF NameInv
<1>2. ASSUME UNCHANGED <<segmentMap, published, assembled>> PROVE NameInv'
  BY <1>2 DEF NameInv, Sent
<1>3. ASSUME NEW n \in Interest, OnDecryptionKeyRequest(n) PROVE NameInv'
  <2>1. KeyOf[n] \in Key /\ UNCHANGED assembled
    BY <1>3, AuthorityAssumption DEF AuthorityAssumption, OnDecryptionKeyRequest
  <2> QED BY <1>2, <1>3, <2>1, RequestMakes, MakingNames
<1>4. ASSUME NEW n \in Interest, OnCertificate(n) PROVE NameInv'
  <2>1. KeyOf[n] \in Key /\ UNCHANGED assembled
    BY <1>4, AuthorityAssumption DEF AuthorityAssumption, OnCertificate
  <2>2. PICK d \in Dkey : Making(d, KeyOf[n], KeyOf[n])
    BY <1>4, CertificateMakes
  <2> QED BY <2>1, <2>2, MakingNames
<1>5. ASSUME NEW k \in Key, NEW s \in Segment \ {0}, OnSegmentRequest(k, s) PROVE NameInv'
  <2>1. PICK d \in segmentMap : published' = published \cup {<<d, s>>}
    BY <1>5 DEF OnSegmentRequest
  <2>2. Sent' = Sent \cup {d} /\ UNCHANGED <<segmentMap, assembled>>
    BY <1>5, <2>1, SentGrows DEF OnSegmentRequest, authority
  <2> QED BY <1>1, <2>2
<1>6. CASE Restart
  <2>1. segmentMap' = {} /\ Sent' = Sent /\ UNCHANGED assembled
    BY <1>6 DEF Restart, Fresh, Sent
  <2> QED BY <1>1, <2>1
<1>7. ASSUME NEW k \in Key, ReceiveFirst(k) PROVE NameInv'
  <2>1. PICK d \in Sent : d.name = k /\ assembled' = [assembled EXCEPT ![k] = [Nothing EXCEPT ![0] = d]]
    BY <1>7 DEF ReceiveFirst
  <2>2. assembled'[k][0] = d /\ \A x \in Key \ {k} : assembled'[x] = assembled[x]
    BY <2>1, ZeroSegment DEF IInv, TypeOK, Nothing
  <2>3. segmentMap' = segmentMap /\ Sent' = Sent
    BY <1>7 DEF ReceiveFirst, authority, network, Sent
  <2> QED BY <2>1, <2>2, <2>3 DEF NameInv
<1>8. ASSUME NEW k \in Key, NEW s \in Segment \ {0}, Receive(k, s) PROVE NameInv'
  <2>1. \A x \in Key : assembled'[x][0] = assembled[x][0]
    BY <1>8, ZeroSegment DEF Receive, IInv, TypeOK
  <2>2. segmentMap' = segmentMap /\ Sent' = Sent
    BY <1>8 DEF Receive, authority, network, Sent
  <2> QED BY <2>1, <2>2 DEF NameInv
<1>9. ASSUME NEW k \in Key, EndFetch(k) PROVE NameInv'
  <2>1. assembled'[k][0] = NoDkey /\ \A x \in Key \ {k} : assembled'[x] = assembled[x]
    BY <1>9, ZeroSegment DEF EndFetch, IInv, TypeOK, Nothing
  <2>2. segmentMap' = segmentMap /\ Sent' = Sent
    BY <1>9 DEF EndFetch, authority, network, Sent
  <2> QED BY <2>1, <2>2 DEF NameInv
<1>10. ASSUME NEW i \in Identity, NEW policy \in Policy, AddNewPolicy(i, policy) PROVE NameInv'
  BY <1>2, <1>10 DEF AddNewPolicy, network
<1>11. ASSUME NEW n \in Interest, PrvKeyGenThrows(n) \/ Expire(n) \/ OnCertificateFailure(n) PROVE NameInv'
  BY <1>2, <1>11 DEF PrvKeyGenThrows, Expire, OnCertificateFailure, authority, network
<1>12. CASE UNCHANGED vars
  BY <1>2, <1>12 DEF vars, authority, network
<1> QED BY <1>3, <1>4, <1>5, <1>6, <1>7, <1>8, <1>9, <1>10, <1>11, <1>12 DEF Next

(* As long as no certificate comes after its request has left the face, a    *)
(* DKEY has the name of the key it is encrypted to, and decryptors get theirs.*)
THEOREM NamesKept == Spec => []NamedUnlessLate
<1> DEFINE NamesInv == late = {} => NameInv
<1>1. Init => NamesInv
  BY ZeroSegment DEF Init, NameInv, Sent, Nothing
<1>2. IInv /\ NamesInv /\ [Next]_vars => NamesInv'
  BY StepNames, LateGrows
<1>3. IInv /\ NamesInv => NamedUnlessLate
  BY ZeroSegment DEF NameInv, IInv, SentInv, NamedByItsKey, NamedUnlessLate
<1> QED BY <1>1, <1>2, <1>3, Invariance, PTL DEF Spec
-----------------------------------------------------------------------------
(* Sending another segment of a DKEY whose first segment a decryptor has     *)
(* sends no other DKEY.                                                      *)
LEMMA SegmentAgain ==
  ASSUME IInv, NEW k \in Key, NEW s \in Segment, OnSegmentRequest(k, s)
  PROVE  Sent' = Sent /\ UNCHANGED <<tokens, segmentMap, restarts>>
<1>1. PICK d \in segmentMap : /\ d.version = assembled[k][0].version
                              /\ published' = published \cup {<<d, s>>}
  BY DEF OnSegmentRequest
<1>2. assembled[k][0] \in Sent
  BY ZeroSegment DEF OnSegmentRequest, IInv, SentInv
<1>3. d \in Sent
  BY <1>1, <1>2 DEF IInv, SentInv
<1>4. Sent' = Sent \cup {d}
  BY <1>1, SentGrows
<1> QED BY <1>3, <1>4 DEF OnSegmentRequest, authority

(* What a step does to the DKEYs sent and to the registrations: it adds a    *)
(* registration, makes a DKEY for a registered key, begins a new life, or    *)
(* does nothing to either.                                                   *)
LEMMA StepKinds ==
  ASSUME IInv, [Next]_vars
  PROVE  \/ \E i \in Identity, policy \in Policy :
              Insert(i, policy) /\ Sent' = Sent /\ UNCHANGED <<segmentMap, restarts>>
         \/ \E name \in Key, key \in Key, d \in Dkey :
              Registered(key) /\ Making(d, name, key) /\ UNCHANGED <<tokens, restarts>>
         \/ Restart /\ Sent' = Sent
         \/ Sent' = Sent /\ UNCHANGED <<tokens, segmentMap, restarts>>
<1> DEFINE Quiet == Sent' = Sent /\ UNCHANGED <<tokens, segmentMap, restarts>>
           Makes == \E name \in Key, key \in Key, d \in Dkey :
                      Registered(key) /\ Making(d, name, key) /\ UNCHANGED <<tokens, restarts>>
<1>1. ASSUME NEW i \in Identity, NEW policy \in Policy, AddNewPolicy(i, policy)
      PROVE  Insert(i, policy) /\ Sent' = Sent /\ UNCHANGED <<segmentMap, restarts>>
  BY <1>1 DEF AddNewPolicy, network, Sent
<1>2. ASSUME NEW n \in Interest, OnDecryptionKeyRequest(n) PROVE Makes \/ Quiet
  <2>1. KeyOf[n] \in Key /\ UNCHANGED <<tokens, restarts>>
    BY <1>2, AuthorityAssumption DEF AuthorityAssumption, OnDecryptionKeyRequest
  <2>2. CASE UNCHANGED <<segmentMap, published, clock>>
    BY <2>1, <2>2 DEF Sent
  <2>3. CASE \E d \in Dkey : Making(d, KeyOf[n], KeyOf[n])
    <3>1. clock' # clock
      BY <2>3 DEF Making, IInv, TypeOK
    <3>2. Registered(KeyOf[n])
      BY <1>2, <3>1 DEF OnDecryptionKeyRequest
    <3> QED BY <2>1, <2>3, <3>2
  <2> QED BY <1>2, <2>2, <2>3, RequestMakes
<1>3. ASSUME NEW n \in Interest, OnCertificate(n) PROVE Makes
  <2>1. KeyOf[n] \in Key /\ UNCHANGED <<tokens, restarts>> /\ Registered(KeyOf[n])
    BY <1>3, AuthorityAssumption DEF AuthorityAssumption, OnCertificate, IInv, TokenAwaitsCert
  <2> QED BY <1>3, <2>1, CertificateMakes
<1>4. ASSUME NEW n \in Interest, PrvKeyGenThrows(n) \/ Expire(n) \/ OnCertificateFailure(n)
      PROVE  Quiet
  BY <1>4 DEF PrvKeyGenThrows, Expire, OnCertificateFailure, authority, network, Sent
<1>5. ASSUME NEW k \in Key, \/ ReceiveFirst(k) \/ EndFetch(k) \/ \E s \in Segment : Receive(k, s)
      PROVE  Quiet
  BY <1>5 DEF ReceiveFirst, EndFetch, Receive, authority, network, Sent
<1>6. ASSUME NEW k \in Key, NEW s \in Segment \ {0}, OnSegmentRequest(k, s) PROVE Quiet
  BY <1>6, SegmentAgain
<1>7. CASE Restart
  BY <1>7 DEF Restart, Sent
<1>8. CASE UNCHANGED vars
  BY <1>8 DEF vars, authority, network, Sent
<1> QED BY <1>1, <1>2, <1>3, <1>4, <1>5, <1>6, <1>7, <1>8 DEF Next

(* What is sent after a DKEY is made.                                        *)
LEMMA MakingSends ==
  ASSUME NEW d, NEW name, NEW key, Making(d, name, key)
  PROVE  Sent' = Sent \/ Sent' = Sent \cup {d}
BY SentGrows DEF Making, Sent
-----------------------------------------------------------------------------
(* For one decryptor and one master key, all DKEYs sent are for one policy.  *)
OneInv ==
  \A d, e \in Sent : d.life = e.life /\ OwnerOf[d.key] = OwnerOf[e.key] => d.policy = e.policy

(* Every step keeps the link between the DKEYs of this life and m_tokens, and*)
(* with it OneInv.                                                           *)
LEMMA StepGrants == IInv /\ GrantInv /\ OneInv /\ [Next]_vars => GrantInv' /\ OneInv'
<1> SUFFICES ASSUME IInv, GrantInv, OneInv, [Next]_vars PROVE GrantInv' /\ OneInv'
  OBVIOUS
<1>1. /\ segmentMap \cup Sent \subseteq Dkey /\ restarts \in Nat
      /\ \A d \in Dkey : /\ d.key \in Key /\ OwnerOf[d.key] \in Identity
                         /\ d.policy # Unset /\ d.life \in Nat
  BY SentType, AuthorityAssumption DEF AuthorityAssumption, Dkey, IInv, TypeOK
<1>2. ASSUME NEW i \in Identity, NEW policy \in Policy,
             Insert(i, policy), Sent' = Sent, UNCHANGED <<segmentMap, restarts>>
      PROVE  GrantInv' /\ OneInv'
  <2>1. \A x \in Identity : tokens[x] # Unset => tokens'[x] = tokens[x]
    BY <1>2 DEF Insert, IInv, TypeOK
  <2>2. \A d \in segmentMap \cup Sent : d.life = restarts => d.policy = tokens'[OwnerOf[d.key]]
    BY <1>1, <2>1 DEF GrantInv
  <2> QED BY <1>2, <2>2 DEF GrantInv, OneInv
<1>3. ASSUME NEW name \in Key, NEW key \in Key, NEW d \in Dkey,
             Registered(key), Making(d, name, key), UNCHANGED <<tokens, restarts>>
      PROVE  GrantInv' /\ OneInv'
  <2>1. segmentMap' = segmentMap \cup {d} /\ (Sent' = Sent \/ Sent' = Sent \cup {d})
    BY <1>3, MakingSends DEF Making
  <2>2. d.life = restarts /\ d.policy = tokens[OwnerOf[d.key]]
    BY <1>3 DEF Making
  <2>3. GrantInv'
    BY <1>1, <1>3, <2>1, <2>2 DEF GrantInv
  <2>4. \A e \in Sent : e.life = restarts => e.policy = tokens[OwnerOf[e.key]]
    BY DEF GrantInv
  <2>5. OneInv'
    BY <2>1, <2>2, <2>4 DEF OneInv
  <2> QED BY <2>3, <2>5
<1>4. CASE Restart /\ Sent' = Sent
  <2>1. restarts' = restarts + 1 /\ segmentMap' = {}
    BY <1>4 DEF Restart, Fresh
  <2>2. \A d \in Sent : d.life <= restarts' /\ d.life # restarts'
    BY <1>1, <2>1 DEF GrantInv
  <2> QED BY <1>4, <2>1, <2>2 DEF GrantInv, OneInv
<1>5. CASE Sent' = Sent /\ UNCHANGED <<tokens, segmentMap, restarts>>
  BY <1>5 DEF GrantInv, OneInv
<1> QED BY <1>2, <1>3, <1>4, <1>5, StepKinds

(* Nobody who registers, asks and asks again, over restarts and over slow    *)
(* certificates, gets DKEYs of one master key for two policies.              *)
THEOREM GrantedOnce == Spec => []OneGrantPerLife
<1>1. Init => GrantInv /\ OneInv
  BY DEF Init, GrantInv, OneInv, Sent
<1>2. OneInv => OneGrantPerLife
  BY DEF OneInv, OneGrantPerLife, Grants!OneGrantPerLife
<1> QED BY <1>1, <1>2, StepGrants, Invariance, PTL DEF Spec
-----------------------------------------------------------------------------
(* The DKEYs sent, as KeyGrant sees them.                                    *)
made == {<<d.life, d.key, d.policy>> : d \in Sent}

(* Making a DKEY for the key of a registered decryptor is a Make if the first*)
(* segment is sent.                                                          *)
LEMMA MakingRefines ==
  ASSUME NEW name, NEW key \in Key, NEW d \in Dkey, Registered(key), Making(d, name, key),
         UNCHANGED <<tokens, restarts>>
  PROVE  Grants!Make(key) \/ UNCHANGED <<restarts, tokens, made>>
<1> DEFINE one == <<restarts, key, tokens[OwnerOf[key]]>>
<1>1. <<d.life, d.key, d.policy>> = one
  BY DEF Making
<1>2. CASE Sent' = Sent
  BY <1>2 DEF made
<1>3. CASE Sent' = Sent \cup {d}
  <2>1. ASSUME NEW p \in made' PROVE p \in made \cup {one}
    BY <1>1, <1>3, <2>1 DEF made
  <2>2. ASSUME NEW p \in made PROVE p \in made'
    BY <1>3, <2>2 DEF made
  <2>3. one \in made'
    BY <1>1, <1>3 DEF made
  <2>4. made' = made \cup {one}
    BY <2>1, <2>2, <2>3
  <2> QED BY <2>4 DEF Grants!Make, made, Registered
<1> QED BY <1>2, <1>3, MakingSends

(* The authority implements KeyGrant: a first registration is a GrantTo, a   *)
(* DKEY sent for the first time a Make, a restart keeps what was given out,  *)
(* and a second registration or any other message is nothing.                *)
THEOREM Refinement == Spec => ImplementsKeyGrant
<1>1. Init => Grants!Init
  BY DEF Init, Grants!Init, Sent
<1>2. ASSUME IInv, [Next]_vars PROVE [Grants!Next]_<<restarts, tokens, made>>
  <2>1. ASSUME Sent' = Sent PROVE made' = made
    BY <2>1 DEF made
  <2>2. ASSUME NEW i \in Identity, NEW policy \in Policy,
               Insert(i, policy), Sent' = Sent, UNCHANGED <<segmentMap, restarts>>
        PROVE  Grants!GrantTo(i, policy) \/ UNCHANGED <<restarts, tokens, made>>
    <3>1. CASE tokens[i] = Unset
      BY <2>1, <2>2, <3>1 DEF Insert, Grants!GrantTo, made, IInv, TypeOK
    <3>2. CASE tokens[i] # Unset
      <4>1. tokens' = [tokens EXCEPT ![i] = tokens[i]]
        BY <2>2, <3>2 DEF Insert
      <4>2. tokens' = tokens
        BY <1>2, <4>1 DEF IInv, TypeOK
      <4> QED BY <2>1, <2>2, <4>2
    <3> QED BY <3>1, <3>2
  <2>3. ASSUME NEW name \in Key, NEW key \in Key, NEW d \in Dkey,
               Registered(key), Making(d, name, key), UNCHANGED <<tokens, restarts>>
        PROVE  (\E k \in Key : Grants!Make(k)) \/ UNCHANGED <<restarts, tokens, made>>
    BY <2>3, MakingRefines
  <2>4. ASSUME Restart, Sent' = Sent PROVE Grants!Restart
    BY <2>1, <2>4 DEF Restart, Fresh, Grants!Restart, made
  <2>5. CASE Sent' = Sent /\ UNCHANGED <<tokens, segmentMap, restarts>>
    BY <2>1, <2>5
  <2> QED BY <1>2, <2>2, <2>3, <2>4, <2>5, StepKinds DEF Grants!Next
<1> QED BY <1>1, <1>2, Invariance, PTL DEF Spec, ImplementsKeyGrant, Grants!Spec, made
=============================================================================
