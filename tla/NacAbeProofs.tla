---------------------------- MODULE NacAbeProofs ----------------------------
(***************************************************************************)
(* Proofs about NacAbe, for any number of Consumers, processes, grants,    *)
(* rules, names, restarts and productions.                                 *)
(***************************************************************************)
EXTENDS NacAbe, TLAPS

(* What the assumption says of the values told apart.                        *)
LEMMA Apart ==
  /\ NacAlgoError # Garbage /\ NacAlgoError \notin 1..MaxMade /\ Garbage \notin 1..MaxMade
  /\ Garbled \notin Data /\ Garbled \notin Abe!ContentKey /\ NacAlgoError \notin Abe!ContentKey
  /\ NacAlgoError \notin Abe!PrivateKey /\ NoKey \notin Abe!PrivateKey
  /\ Garbled \notin Abe!Ciphertext /\ Unset \notin Grant /\ NoParams \notin Life
BY NacAbeAssumption DEF NacAbeAssumption

(* A DKEY that is made is of this life and for what its owner was granted.   *)
LEMMA PrvKeyMade ==
  ASSUME TypeOK, NEW c \in Consumer, grants[c] # Unset,
         Abe!PrvKeyGen(life, grants[c]) # NacAlgoError
  PROVE  /\ grants[c] \in Grant
         /\ Abe!PrvKeyGen(life, grants[c]) = [life |-> life, grant |-> grants[c]]
         /\ Abe!PrvKeyGen(life, grants[c]) \in Abe!PrivateKey
<1>1. grants[c] \in Grant /\ life \in Life
  BY DEF TypeOK
<1>2. Abe!PrvKeyGen(life, grants[c]) = [life |-> life, grant |-> grants[c]]
  BY DEF Abe!PrvKeyGen
<1> QED BY <1>1, <1>2 DEF Abe!PrivateKey

(* A new CK has a new AES key.                                               *)
LEMMA NewCkMade ==
  ASSUME TypeOK, MakesNext, NEW rule \in Rule, NEW k \in NewCk(rule)
  PROVE  k \in Ck /\ k.key.aes = produced'
<1>1. produced' \in 1..MaxMade
  BY NacAbeAssumption DEF TypeOK, MakesNext, NacAbeAssumption
<1>2. params[Producer] \in Life
  BY DEF TypeOK, NewCk, Holder
<1>3. Abe!ContentKeyGen(params[Producer], rule, produced')
        = [aes |-> produced', life |-> params[Producer], rule |-> rule]
  BY DEF NewCk, Abe!ContentKeyGen
<1>4. k \in [word : Word, key : {[aes |-> produced', life |-> params[Producer], rule |-> rule]}]
  BY <1>3 DEF NewCk
<1>5. [aes |-> produced', life |-> params[Producer], rule |-> rule] \in Abe!ContentKey
  BY <1>1, <1>2 DEF Abe!ContentKey
<1> QED BY <1>4, <1>5 DEF Ck

(* The store only grows, and so does what can be said of fetched things.     *)
LEMMA NamedByGrows ==
  ASSUME cks \subseteq cks', NEW ckName, NEW key, NamedBy(ckName, key)
  PROVE  NamedBy(ckName, key)'
BY DEF NamedBy, CkName

LEMMA FetchedForGrows ==
  ASSUME store \subseteq store', NEW w, FetchedFor(w)
  PROVE  FetchedFor(w)'
BY DEF FetchedFor, NameReused, CkName

LEMMA EntitledGrows ==
  ASSUME granted \subseteq granted', UNCHANGED processOf, NEW p, NEW key, Guarded!Entitled(p, key)
  PROVE  Guarded!Entitled(p, key)'
BY DEF Guarded!Entitled

(* Whatever opens a content key in a process, the process is entitled to it. *)
LEMMA DecryptsEntitled ==
  ASSUME IInv, NEW c \in Consumer, keyCache[c] # NoKey, NEW key,
         Abe!Decrypts(processOf[c], params[c], keyCache[c], key)
  PROVE  key \in Abe!ContentKey /\ Guarded!Entitled(processOf[c], key)
<1>1. processOf[c] \in Process /\ keyCache[c] \in Abe!PrivateKey
  BY DEF IInv, TypeOK
<1>2. CASE key \in decryptedContentKeyMap[processOf[c]]
  BY <1>1, <1>2 DEF IInv, TypeOK, MapInv
<1>3. CASE Abe!Opens(params[c], keyCache[c], key)
  <2>1. <<c, key.life, keyCache[c].grant>> \in granted /\ key.rule \in Satisfies[keyCache[c].grant]
    BY <1>3 DEF Abe!Opens, IInv, GrantInv
  <2>2. keyCache[c].grant \in Grant
    BY <1>1 DEF Abe!PrivateKey
  <2> QED BY <1>3, <2>1, <2>2 DEF Abe!Opens, Guarded!Entitled
<1> QED BY <1>2, <1>3 DEF Abe!Decrypts

(* The CKs of one name, when two of them are not one.                        *)
LEMMA SharedOrSame ==
  ASSUME IInv, NEW d \in store, NEW key, NamedBy(CkName(d.ck), key)
  PROVE  CkNameShared(d.ck) \/ key = d.ck.key
<1>1. CASE key = Garbled
  <2>1. PICK k \in cks, l \in cks : k # l /\ CkName(k) = CkName(d.ck) /\ CkName(l) = CkName(d.ck)
    BY <1>1 DEF NamedBy
  <2> QED BY <2>1 DEF CkNameShared
<1>2. CASE key # Garbled
  <2>1. PICK k \in cks : k.key = key /\ CkName(k) = CkName(d.ck)
    BY <1>2 DEF NamedBy
  <2> QED BY <2>1 DEF CkNameShared
<1> QED BY <1>1, <1>2
-----------------------------------------------------------------------------
(* What one decryption may give, from a content key fetched by name.         *)
Explains(c, w, result) ==
  /\ result \in Result
  /\ result \in 1..MaxMade => Guarded!MayRead(c, w.asked, result)
  /\ result = Garbage =>
       IF w.data = Garbled THEN NameReused(w.asked) ELSE CkNameShared(w.data.ck)
  /\ result = NacAlgoError =>
       \/ NameReused(w.asked)
       \/ CkNameShared(w.data.ck)
       \/ params[c] # w.data.ck.key.life
       \/ keyCache[c].life # w.data.ck.key.life
       \/ ~ GrantedFor(c, w.data.ck.key)

LEMMA ResultExplained ==
  ASSUME IInv, NEW c \in Consumer, keyCache[c] # NoKey, NEW w \in Waiter, FetchedFor(w),
         NEW key, NamedBy(w.ckName, key),
         NEW result \in Abe!Results(processOf[c], params[c], keyCache[c], key, CipherText(w.data))
  PROVE  Explains(c, w, result)
<1> DEFINE opened == Abe!Decrypts(processOf[c], params[c], keyCache[c], key)
<1>1. CASE w.data = Garbled
  <2>1. NameReused(w.asked)
    BY <1>1 DEF FetchedFor
  <2>2. CipherText(w.data) = Garbled
    BY <1>1 DEF CipherText
  <2>3. result \in {NacAlgoError, Garbage}
    BY <2>2 DEF Abe!Results, Abe!AesDecrypt
  <2> QED BY <1>1, <2>1, <2>3, Apart DEF Explains, Result
<1>2. CASE w.data # Garbled
  <2> DEFINE d == w.data
  <2>1. d \in store /\ d.name \in Under[w.asked] /\ w.ckName = CkName(d.ck) /\ d.ck \in cks
    BY <1>2 DEF FetchedFor, IInv, FreshInv
  <2>2. d \in Data /\ d.ck.key \in Abe!ContentKey /\ d.content \in 1..MaxMade
    BY <2>1 DEF IInv, TypeOK, Data, Ck
  <2>3. CkNameShared(d.ck) \/ key = d.ck.key
    BY <2>1, SharedOrSame
  <2>4. CipherText(w.data) = [aes |-> d.ck.key.aes, plaintext |-> d.content]
    BY <1>2 DEF CipherText, Abe!Encrypt
  <2>5. CASE ~ opened
    <3>1. result = NacAlgoError
      BY <2>5 DEF Abe!Results
    <3>2. SUFFICES ASSUME ~ CkNameShared(d.ck), params[c] = d.ck.key.life,
                          keyCache[c].life = d.ck.key.life, GrantedFor(c, d.ck.key)
                   PROVE  FALSE
      BY <1>2, <3>1, Apart DEF Explains, Result
    <3>3. key = d.ck.key
      BY <2>3, <3>2
    <3>4. PICK g \in Grant : <<c, key.life, g>> \in granted /\ key.rule \in Satisfies[g]
      BY <3>2, <3>3 DEF GrantedFor
    <3>5. keyCache[c] \in Abe!PrivateKey /\ <<c, key.life, keyCache[c].grant>> \in granted
      BY <3>2, <3>3 DEF IInv, TypeOK, GrantInv
    <3>6. g = keyCache[c].grant
      BY <2>2, <3>3, <3>4, <3>5 DEF IInv, GrantInv, Abe!PrivateKey, Abe!ContentKey
    <3> QED BY <2>2, <2>5, <3>2, <3>3, <3>4, <3>6 DEF Abe!Decrypts, Abe!Opens
  <2>6. CASE opened
    <3>1. key \in Abe!ContentKey /\ Guarded!Entitled(processOf[c], key)
      BY <2>6, DecryptsEntitled
    <3>2. result \in Abe!AesDecrypt(key.aes, CipherText(w.data))
      BY <2>6 DEF Abe!Results
    <3>3. CASE CipherText(w.data) # Garbled /\ d.ck.key.aes = key.aes
      <4>1. result = d.content
        BY <2>4, <3>2, <3>3 DEF Abe!AesDecrypt
      <4>2. PICK k \in cks : k.key = key
        BY <3>1, Apart DEF NamedBy
      <4>3. k = d.ck
        BY <2>1, <3>3, <4>2 DEF IInv, FreshInv
      <4>4. Guarded!MayRead(c, w.asked, result)
        BY <2>1, <3>1, <4>1, <4>2, <4>3 DEF Guarded!MayRead
      <4> QED BY <2>2, <4>1, <4>4, Apart DEF Explains, Result
    <3>4. CASE ~ (CipherText(w.data) # Garbled /\ d.ck.key.aes = key.aes)
      <4>1. result \in {NacAlgoError, Garbage}
        BY <2>4, <3>2, <3>4 DEF Abe!AesDecrypt
      <4>2. CkNameShared(d.ck)
        <5>1. CASE d.ck.key.aes # key.aes
          BY <2>3, <5>1
        <5>2. CASE CipherText(w.data) = Garbled
          BY <2>2, <2>4, <5>2, Apart DEF Abe!ContentKey, Abe!Ciphertext
        <5> QED BY <3>4, <5>1, <5>2
      <4> QED BY <1>2, <4>1, <4>2, Apart DEF Explains, Result
    <3> QED BY <3>3, <3>4
  <2> QED BY <2>5, <2>6
<1> QED BY <1>1, <1>2
-----------------------------------------------------------------------------
(* A decryption for what waited for a content key, with the key fetched.     *)
LEMMA Decryption ==
  ASSUME IInv, NEW c \in Consumer, keyCache[c] # NoKey, NEW waiters \in SUBSET Waiter, NEW key,
         \A w \in waiters : FetchedFor(w) /\ NamedBy(w.ckName, key),
         DecryptFor(c, waiters, key),
         UNCHANGED <<store, cks, granted, params, keyCache, processOf>>
  PROVE  /\ answered' \subseteq [consumer : Consumer, asked : Asked, data : Data \cup {Garbled},
                                 result : Result]
         /\ GarbageHasCause' /\ RefusalHasCause' /\ Guarded!Read
         /\ decryptedContentKeyMap' \in [Process -> SUBSET Abe!ContentKey] /\ MapInv'
<1>1. ASSUME NEW a \in answered'
      PROVE  \E w \in waiters : a.consumer = c /\ a.asked = w.asked /\ a.data = w.data
                                /\ Explains(c, w, a.result)
             /\ a = [consumer |-> c, asked |-> w.asked, data |-> w.data, result |-> a.result]
  <2>1. PICK w \in waiters :
          \E r \in Abe!Results(processOf[c], params[c], keyCache[c], key, CipherText(w.data)) :
            a = [consumer |-> c, asked |-> w.asked, data |-> w.data, result |-> r]
    BY <1>1 DEF DecryptFor
  <2>2. PICK r \in Abe!Results(processOf[c], params[c], keyCache[c], key, CipherText(w.data)) :
          a = [consumer |-> c, asked |-> w.asked, data |-> w.data, result |-> r]
    BY <2>1
  <2>3. Explains(c, w, r)
    BY <2>2, ResultExplained
  <2> QED BY <2>2, <2>3
<1>2. ASSUME NEW a \in answered'
      PROVE  a \in [consumer : Consumer, asked : Asked, data : Data \cup {Garbled}, result : Result]
  BY <1>1, <1>2 DEF Explains, Waiter
<1>3. GarbageHasCause'
  <2> SUFFICES ASSUME NEW a \in answered', a.result = Garbage
               PROVE  (IF a.data = Garbled THEN NameReused(a.asked) ELSE CkNameShared(a.data.ck))'
    BY DEF GarbageHasCause
  <2> QED BY <1>1 DEF Explains, NameReused, CkNameShared, CkName
<1>4. RefusalHasCause'
  <2> SUFFICES ASSUME NEW a \in answered', a.result = NacAlgoError
               PROVE  (\/ NameReused(a.asked)
                       \/ CkNameShared(a.data.ck)
                       \/ params[a.consumer] # a.data.ck.key.life
                       \/ keyCache[a.consumer].life # a.data.ck.key.life
                       \/ ~ GrantedFor(a.consumer, a.data.ck.key))'
    BY DEF RefusalHasCause
  <2>1. PICK w \in waiters : a.consumer = c /\ a.asked = w.asked /\ a.data = w.data
                              /\ Explains(c, w, NacAlgoError)
    BY <1>1
  <2>2. /\ NameReused(a.asked)' = NameReused(w.asked)
        /\ CkNameShared(a.data.ck)' = CkNameShared(w.data.ck)
        /\ GrantedFor(a.consumer, a.data.ck.key)' = GrantedFor(c, w.data.ck.key)
    BY <2>1 DEF NameReused, CkNameShared, CkName, GrantedFor
  <2> QED BY <2>1, <2>2 DEF Explains
<1>5. Guarded!Read
  <2>1. ASSUME NEW a \in answered', a.result \in 1..MaxMade
        PROVE  Guarded!MayRead(a.consumer, a.asked, a.result)
    BY <1>1, <2>1 DEF Explains
  <2> QED BY <2>1 DEF Guarded!Read
<1>6. processOf[c] \in Process
  BY DEF IInv, TypeOK
<1>7. CASE Abe!Decrypts(processOf[c], params[c], keyCache[c], key)
  <2>1. key \in Abe!ContentKey /\ Guarded!Entitled(processOf[c], key)
    BY <1>7, DecryptsEntitled
  <2>2. decryptedContentKeyMap' = [decryptedContentKeyMap EXCEPT ![processOf[c]] = @ \cup {key}]
    BY <1>7 DEF DecryptFor, Abe!Decrypt
  <2>3. decryptedContentKeyMap' \in [Process -> SUBSET Abe!ContentKey]
    BY <1>6, <2>1, <2>2 DEF IInv, TypeOK
  <2>4. ASSUME NEW p \in Process, NEW k \in decryptedContentKeyMap'[p]
        PROVE  Guarded!Entitled(p, k)'
    <3>1. Guarded!Entitled(p, k)
      BY <1>6, <2>1, <2>2, <2>4 DEF IInv, TypeOK, MapInv
    <3> QED BY <3>1, EntitledGrows
  <2> QED BY <1>2, <1>3, <1>4, <1>5, <2>3, <2>4 DEF MapInv
<1>8. CASE ~ Abe!Decrypts(processOf[c], params[c], keyCache[c], key)
  <2>1. decryptedContentKeyMap' = decryptedContentKeyMap
    BY <1>6, <1>8 DEF DecryptFor, Abe!Decrypt, IInv, TypeOK
  <2>2. MapInv'
    BY <2>1, EntitledGrows DEF IInv, MapInv
  <2> QED BY <1>2, <1>3, <1>4, <1>5, <2>1, <2>2 DEF IInv, TypeOK
<1> QED BY <1>7, <1>8
-----------------------------------------------------------------------------
(* What leaves a part of the invariant alone, or adds to what it is about.   *)
LEMMA GrantKept ==
  ASSUME GrantInv, UNCHANGED <<authority, keyCache>>
  PROVE  GrantInv'
BY DEF GrantInv, authority

LEMMA FreshKept ==
  ASSUME FreshInv, UNCHANGED production
  PROVE  FreshInv'
BY DEF FreshInv, production

LEMMA FetchKept ==
  ASSUME FetchInv, cks \subseteq cks', store \subseteq store',
         UNCHANGED <<ckEncAesCache, pending, params, keyCache>>
  PROVE  FetchInv'
BY NamedByGrows, FetchedForGrows DEF FetchInv, ReadyForDecryption

LEMMA MapKept ==
  ASSUME MapInv, granted \subseteq granted', UNCHANGED <<decryptedContentKeyMap, processOf>>
  PROVE  MapInv'
BY EntitledGrows DEF MapInv
-----------------------------------------------------------------------------
LEMMA StepAddNewPolicy ==
  ASSUME IInv, NEW c \in Consumer, NEW grant \in Grant, AddNewPolicy(c, grant)
  PROVE  IInv'
<1>1. /\ grants[c] = Unset /\ grants' = [grants EXCEPT ![c] = grant]
      /\ granted' = granted \cup {<<c, life, grant>>}
      /\ UNCHANGED <<life, dkeys, params, production, reading, processOf>> /\ answered' = {}
  BY DEF AddNewPolicy, NothingAnswered, Authority!GrantTo
<1>2. TypeOK'
  BY <1>1 DEF IInv, TypeOK, production, reading
<1>3. GrantInv'
  <2>1. ASSUME NEW d \in Consumer, NEW g \in Grant
        PROVE  grants'[d] = g <=> <<d, life', g>> \in granted'
    BY <1>1, <2>1, Apart DEF IInv, TypeOK, GrantInv
  <2>2. ASSUME NEW d \in Consumer, NEW l \in Life, NEW g \in Grant, NEW h \in Grant,
               <<d, l, g>> \in granted'
        PROVE  l <= life' /\ (<<d, l, h>> \in granted' => g = h)
    <3>1. <<c, life, g>> \notin granted /\ <<c, life, h>> \notin granted
      BY <1>1, Apart DEF IInv, GrantInv
    <3>2. life <= life
      BY DEF IInv, TypeOK, Life
    <3> QED BY <1>1, <2>2, <3>1, <3>2 DEF IInv, GrantInv
  <2>3. \A d \in dkeys' : <<d.to, d.prv.life, d.prv.grant>> \in granted'
    BY <1>1 DEF IInv, GrantInv
  <2>4. \A d \in Consumer : keyCache'[d] # NoKey =>
          <<d, keyCache'[d].life, keyCache'[d].grant>> \in granted'
    BY <1>1 DEF IInv, GrantInv, reading
  <2> QED BY <2>1, <2>2, <2>3, <2>4 DEF GrantInv
<1>4. FreshInv' /\ FetchInv' /\ MapInv'
  BY <1>1, FreshKept, FetchKept, MapKept DEF IInv, production, reading
<1> QED BY <1>2, <1>3, <1>4 DEF IInv

LEMMA StepOnDecryptionKeyRequest ==
  ASSUME IInv, NEW c \in Consumer, OnDecryptionKeyRequest(c)
  PROVE  IInv'
<1> DEFINE d == Seal(c, Abe!PrvKeyGen(life, grants[c]))
<1>1. /\ grants[c] # Unset /\ Abe!PrvKeyGen(life, grants[c]) # NacAlgoError
      /\ dkeys' = dkeys \cup {d}
      /\ UNCHANGED <<grants, life, granted, params, production, reading, processOf>> /\ answered' = {}
  BY DEF OnDecryptionKeyRequest, NothingAnswered
<1>2. /\ grants[c] \in Grant /\ d = [to |-> c, prv |-> [life |-> life, grant |-> grants[c]]]
      /\ d \in Dkey
  BY <1>1, PrvKeyMade DEF IInv, Seal, Dkey
<1>3. TypeOK'
  BY <1>1, <1>2 DEF IInv, TypeOK, production, reading
<1>4. GrantInv'
  <2>1. <<d.to, d.prv.life, d.prv.grant>> \in granted
    BY <1>2 DEF IInv, GrantInv
  <2> QED BY <1>1, <2>1 DEF IInv, GrantInv, reading
<1>5. FreshInv' /\ FetchInv' /\ MapInv'
  BY <1>1, FreshKept, FetchKept, MapKept DEF IInv, production, reading
<1> QED BY <1>3, <1>4, <1>5 DEF IInv

LEMMA StepRestartAuthority ==
  ASSUME IInv, RestartAuthority
  PROVE  IInv'
<1>1. /\ life' = life + 1 /\ life < MaxRestarts
      /\ grants' = [c \in Consumer |-> Unset]
      /\ UNCHANGED <<granted, dkeys, params, production, reading, processOf>> /\ answered' = {}
  BY DEF RestartAuthority, NothingAnswered, Authority!Restart
<1>2. life \in Nat /\ life' \in Life /\ MaxRestarts \in Nat
  BY <1>1, NacAbeAssumption DEF NacAbeAssumption, IInv, TypeOK, Life
<1>3. TypeOK'
  BY <1>1, <1>2 DEF IInv, TypeOK, production, reading
<1>4. GrantInv'
  <2>1. ASSUME NEW c \in Consumer, NEW l \in Life, NEW g \in Grant, <<c, l, g>> \in granted
        PROVE  l <= life /\ l \in Nat
    BY <2>1 DEF IInv, GrantInv, Life
  <2>2. ASSUME NEW c \in Consumer, NEW g \in Grant
        PROVE  grants'[c] # g /\ <<c, life', g>> \notin granted
    BY <1>1, <1>2, <2>1, Apart
  <2>3. ASSUME NEW c \in Consumer, NEW l \in Life, NEW g \in Grant, NEW h \in Grant,
               <<c, l, g>> \in granted
        PROVE  l <= life' /\ (<<c, l, h>> \in granted => g = h)
    BY <1>1, <1>2, <2>1, <2>3 DEF IInv, GrantInv
  <2> QED BY <1>1, <2>2, <2>3 DEF IInv, GrantInv, reading
<1>5. FreshInv' /\ FetchInv' /\ MapInv'
  BY <1>1, FreshKept, FetchKept, MapKept DEF IInv, production, reading
<1> QED BY <1>3, <1>4, <1>5 DEF IInv
-----------------------------------------------------------------------------
LEMMA StepLearnParams ==
  ASSUME IInv, NEW h \in Holder, LearnParams(h)
  PROVE  IInv'
<1>1. PICK l \in 0..life : /\ params[h] = NoParams /\ params' = [params EXCEPT ![h] = l]
        /\ UNCHANGED <<authority, production, reading, processOf>> /\ answered' = {}
  BY DEF LearnParams, NothingAnswered, PublicParamsData
<1>2. l \in Life
  BY NacAbeAssumption DEF NacAbeAssumption, IInv, TypeOK, Life
<1>3. TypeOK'
  BY <1>1, <1>2 DEF IInv, TypeOK, authority, production, reading
<1>4. FetchInv'
  <2>1. ASSUME NEW c \in Consumer, NEW e \in ckEncAesCache'[c] PROVE NamedBy(e[1], e[2])'
    <3>1. NamedBy(e[1], e[2])
      BY <1>1, <2>1 DEF IInv, FetchInv, reading
    <3> QED BY <1>1, <3>1, NamedByGrows DEF production
  <2>2. ASSUME NEW c \in Consumer, NEW w \in pending'[c]
        PROVE  FetchedFor(w)' /\ ReadyForDecryption(c)'
    <3>1. FetchedFor(w) /\ ReadyForDecryption(c)
      BY <1>1, <2>2 DEF IInv, FetchInv, reading
    <3>2. params'[c] # NoParams /\ keyCache'[c] = keyCache[c]
      BY <1>1, <3>1 DEF ReadyForDecryption, Holder, IInv, TypeOK, reading
    <3> QED BY <1>1, <3>1, <3>2, FetchedForGrows DEF ReadyForDecryption, production
  <2> QED BY <2>1, <2>2 DEF FetchInv
<1>5. GrantInv' /\ FreshInv' /\ MapInv'
  BY <1>1, GrantKept, FreshKept, MapKept DEF IInv, authority, production, reading
<1> QED BY <1>3, <1>4, <1>5 DEF IInv

LEMMA StepNewProducer ==
  ASSUME IInv, NewProducer
  PROVE  IInv'
<1>1. /\ params' = [params EXCEPT ![Producer] = NoParams]
      /\ UNCHANGED <<authority, production, reading, processOf>> /\ answered' = {}
  BY DEF NewProducer, NothingAnswered
<1>2. TypeOK'
  BY <1>1 DEF IInv, TypeOK, authority, production, reading
<1>3. ASSUME NEW c \in Consumer PROVE params'[c] = params[c]
  BY <1>1, NacAbeAssumption DEF NacAbeAssumption, IInv, TypeOK, Holder
<1>4. FetchInv'
  BY <1>1, <1>3, NamedByGrows, FetchedForGrows
     DEF IInv, FetchInv, ReadyForDecryption, production, reading
<1>5. GrantInv' /\ FreshInv' /\ MapInv'
  BY <1>1, GrantKept, FreshKept, MapKept DEF IInv, authority, production, reading
<1> QED BY <1>2, <1>4, <1>5 DEF IInv

LEMMA StepNewConsumer ==
  ASSUME IInv, NEW c \in Consumer, NewConsumer(c)
  PROVE  IInv'
<1>1. /\ pending[c] = {} /\ params' = [params EXCEPT ![c] = NoParams]
      /\ keyCache' = [keyCache EXCEPT ![c] = NoKey]
      /\ ckEncAesCache' = [ckEncAesCache EXCEPT ![c] = {}]
      /\ UNCHANGED <<authority, production, pending, decryptedContentKeyMap, processOf>>
      /\ answered' = {}
  BY DEF NewConsumer, NothingAnswered
<1>2. TypeOK'
  BY <1>1 DEF IInv, TypeOK, authority, production, Holder
<1>3. ASSUME NEW d \in Consumer, d # c
      PROVE  /\ params'[d] = params[d] /\ keyCache'[d] = keyCache[d]
             /\ ckEncAesCache'[d] = ckEncAesCache[d]
  BY <1>1, <1>3 DEF IInv, TypeOK
<1>4. keyCache'[c] = NoKey /\ ckEncAesCache'[c] = {}
  BY <1>1 DEF IInv, TypeOK
<1>5. GrantInv'
  BY <1>1, <1>3, <1>4 DEF IInv, GrantInv, authority
<1>6. FetchInv'
  BY <1>1, <1>3, <1>4, NamedByGrows, FetchedForGrows
     DEF IInv, FetchInv, ReadyForDecryption, production
<1>7. FreshInv' /\ MapInv'
  BY <1>1, FreshKept, MapKept DEF IInv, authority, production
<1> QED BY <1>2, <1>5, <1>6, <1>7 DEF IInv

LEMMA StepObtainDecryptionKey ==
  ASSUME IInv, NEW c \in Consumer, ObtainDecryptionKey(c)
  PROVE  IInv'
<1>1. PICK dkey \in dkeys :
        /\ dkey.to = c /\ keyCache' = [keyCache EXCEPT ![c] = dkey.prv]
        /\ UNCHANGED <<authority, params, production, ckEncAesCache, pending,
                       decryptedContentKeyMap, processOf>>
        /\ answered' = {}
  BY DEF ObtainDecryptionKey, NothingAnswered, Unseals
<1>2. dkey.prv \in Abe!PrivateKey /\ <<c, dkey.prv.life, dkey.prv.grant>> \in granted
  BY <1>1 DEF IInv, TypeOK, Dkey, GrantInv
<1>3. TypeOK'
  BY <1>1, <1>2 DEF IInv, TypeOK, authority, production
<1>4. ASSUME NEW d \in Consumer
      PROVE  keyCache'[d] = IF d = c THEN dkey.prv ELSE keyCache[d]
  BY <1>1 DEF IInv, TypeOK
<1>5. GrantInv'
  BY <1>1, <1>2, <1>4 DEF IInv, GrantInv, authority
<1>6. FetchInv'
  <2>1. ASSUME NEW d \in Consumer, ReadyForDecryption(d) PROVE ReadyForDecryption(d)'
    BY <1>1, <1>2, <1>4, <2>1, Apart DEF ReadyForDecryption
  <2> QED BY <1>1, <2>1, NamedByGrows, FetchedForGrows DEF IInv, FetchInv, production
<1>7. FreshInv' /\ MapInv'
  BY <1>1, FreshKept, MapKept DEF IInv, authority, production
<1> QED BY <1>3, <1>5, <1>6, <1>7 DEF IInv

LEMMA StepClearCachedContentKeys ==
  ASSUME IInv, NEW p \in Process, ClearCachedContentKeys(p)
  PROVE  IInv'
<1>1. /\ decryptedContentKeyMap' = [decryptedContentKeyMap EXCEPT ![p] = {}]
      /\ UNCHANGED <<authority, params, production, keyCache, ckEncAesCache, pending, processOf>>
      /\ answered' = {}
  BY DEF ClearCachedContentKeys, NothingAnswered, Abe!ClearCachedContentKeys
<1>2. TypeOK'
  BY <1>1 DEF IInv, TypeOK, authority, production
<1>3. MapInv'
  <2>1. ASSUME NEW q \in Process, NEW k \in decryptedContentKeyMap'[q] PROVE Guarded!Entitled(q, k)'
    <3>1. Guarded!Entitled(q, k)
      BY <1>1, <2>1 DEF IInv, TypeOK, MapInv
    <3> QED BY <1>1, <3>1, EntitledGrows DEF authority
  <2> QED BY <2>1 DEF MapInv
<1>4. GrantInv' /\ FreshInv' /\ FetchInv'
  BY <1>1, GrantKept, FreshKept, FetchKept DEF IInv, authority, production
<1> QED BY <1>2, <1>3, <1>4 DEF IInv
-----------------------------------------------------------------------------
(* Making CKs and data keeps AES keys and contents apart.                    *)
LEMMA StepProducing ==
  ASSUME IInv, MakesNext, NEW made1 \in SUBSET Ck, NEW put \in SUBSET Data,
         \A k, l \in made1 : k = l /\ k.key.aes = produced',
         \A d \in put : d.ck \in cks \cup made1,
         cks' = cks \cup made1, store' = store \cup put,
         UNCHANGED <<authority, params, reading, processOf>>, answered' = {}
  PROVE  IInv'
<1>1. produced \in Nat /\ produced' = produced + 1 /\ produced' \in 0..MaxMade
  BY NacAbeAssumption DEF NacAbeAssumption, IInv, TypeOK, MakesNext
<1>2. TypeOK'
  BY <1>1 DEF IInv, TypeOK, authority, reading
<1>3. FreshInv'
  <2>1. \A k \in cks : k.key.aes \in Nat /\ k.key.aes <= produced
    BY DEF IInv, TypeOK, FreshInv, Ck, Abe!ContentKey
  <2>2. \A k \in cks' : k.key.aes <= produced'
    BY <1>1, <2>1
  <2>3. ASSUME NEW k \in cks', NEW l \in cks', k.key.aes = l.key.aes PROVE k = l
    BY <1>1, <2>1, <2>3 DEF IInv, FreshInv
  <2>4. \A d \in store' : d.ck \in cks'
    BY DEF IInv, FreshInv
  <2> QED BY <2>2, <2>3, <2>4 DEF FreshInv
<1>4. GrantInv' /\ FetchInv' /\ MapInv'
  BY GrantKept, FetchKept, MapKept DEF IInv, authority, reading
<1> QED BY <1>2, <1>3, <1>4 DEF IInv

LEMMA StepCkDataGen ==
  ASSUME IInv, NEW rule \in Rule, CkDataGen(rule)
  PROVE  IInv'
<1>1. PICK k \in NewCk(rule) : MakesNext /\ cks' = cks \cup {k}
  BY DEF CkDataGen
<1>2. k \in Ck /\ k.key.aes = produced'
  BY <1>1, NewCkMade DEF IInv
<1>3. store' = store \cup {} /\ UNCHANGED <<authority, params, reading, processOf>> /\ answered' = {}
  BY DEF CkDataGen, NothingAnswered
<1>4. {k} \in SUBSET Ck /\ {} \in SUBSET Data
  BY <1>2
<1> QED BY <1>1, <1>2, <1>3, <1>4, StepProducing

LEMMA StepProduce ==
  ASSUME IInv, NEW name \in Name, NEW rule \in Rule, Produce(name, rule)
  PROVE  IInv'
<1>1. PICK k \in NewCk(rule) : MakesNext /\ cks' = cks \cup {k} /\ Put(name, k)
  BY DEF Produce
<1> DEFINE d == [name |-> name, content |-> produced', ck |-> k]
<1>2. k \in Ck /\ k.key.aes = produced'
  BY <1>1, NewCkMade DEF IInv
<1>3. store' = store \cup {d} /\ UNCHANGED <<authority, params, reading, processOf>> /\ answered' = {}
  BY <1>1 DEF Produce, Put, NothingAnswered
<1>4. produced' \in 1..MaxMade
  BY <1>1, NacAbeAssumption DEF NacAbeAssumption, IInv, TypeOK, MakesNext
<1>5. {k} \in SUBSET Ck /\ {d} \in SUBSET Data
  BY <1>2, <1>4 DEF Data
<1>6. \A e \in {d} : e.ck \in cks \cup {k}
  OBVIOUS
<1>7. \A j, l \in {k} : j = l /\ j.key.aes = produced'
  BY <1>2
<1> HIDE DEF d
<1> QED BY <1>1, <1>3, <1>5, <1>6, <1>7, StepProducing

LEMMA StepProduceUnder ==
  ASSUME IInv, NEW name \in Name, NEW k \in cks, ProduceUnder(name, k)
  PROVE  IInv'
<1> DEFINE d == [name |-> name, content |-> produced', ck |-> k]
<1>1. /\ MakesNext /\ cks' = cks \cup {} /\ store' = store \cup {d}
      /\ UNCHANGED <<authority, params, reading, processOf>> /\ answered' = {}
  BY DEF ProduceUnder, Put, NothingAnswered
<1>2. produced' \in 1..MaxMade
  BY <1>1, NacAbeAssumption DEF NacAbeAssumption, IInv, TypeOK, MakesNext
<1>3. {} \in SUBSET Ck /\ {d} \in SUBSET Data
  BY <1>2 DEF Data, IInv, TypeOK
<1>4. \A e \in {d} : e.ck \in cks \cup {}
  OBVIOUS
<1> HIDE DEF d
<1> QED BY <1>1, <1>3, <1>4, StepProducing
-----------------------------------------------------------------------------
(* What is fetched was produced under a name asked for, or mixes two such.   *)
LEMMA FetchedIsFor ==
  ASSUME IInv, NEW asked \in Asked, NEW w \in Fetched(asked)
  PROVE  w \in Waiter /\ FetchedFor(w)
<1> DEFINE whole == {d \in store : d.name \in Under[asked]}
<1>1. PICK d \in whole :
        \/ w = [asked |-> asked, ckName |-> CkName(d.ck), data |-> d]
        \/ /\ w = [asked |-> asked, ckName |-> CkName(d.ck), data |-> Garbled]
           /\ \E e \in whole : e # d /\ e.name = d.name
  BY DEF Fetched
<1>2. d \in Data /\ d # Garbled /\ CkName(d.ck) \in Word \X Rule
  BY <1>1, Apart DEF IInv, TypeOK, Data, Ck, CkName, Abe!ContentKey
<1>3. w \in Waiter
  BY <1>1, <1>2 DEF Waiter
<1> QED BY <1>1, <1>2, <1>3 DEF FetchedFor, NameReused

LEMMA FetchedKeyNamed ==
  ASSUME IInv, NEW ckName, NEW key \in FetchedKeys(ckName)
  PROVE  NamedBy(ckName, key) /\ key \in Abe!ContentKey \cup {Garbled}
<1>1. CASE \E k \in cks : CkName(k) = ckName /\ key = k.key
  <2>1. PICK k \in cks : CkName(k) = ckName /\ key = k.key
    BY <1>1
  <2>2. key \in Abe!ContentKey
    BY <2>1 DEF IInv, TypeOK, Ck
  <2> QED BY <2>1, <2>2, Apart DEF NamedBy
<1>2. CASE key = Garbled /\ \E k, l \in cks : CkName(k) = ckName /\ CkName(l) = ckName /\ k # l
  BY <1>2 DEF NamedBy
<1> QED BY <1>1, <1>2 DEF FetchedKeys

(* A step that decrypts, in the words of Decryption.                         *)
Decrypting(c, waiters, key) ==
  /\ keyCache[c] # NoKey /\ waiters \in SUBSET Waiter
  /\ \A w \in waiters : FetchedFor(w) /\ NamedBy(w.ckName, key)
  /\ DecryptFor(c, waiters, key)
  /\ UNCHANGED <<authority, params, production, keyCache, processOf>>

LEMMA DataCompleteDecrypts ==
  ASSUME IInv, NEW c \in Consumer, NEW asked \in Asked, DataComplete(c, asked)
  PROVE  \/ /\ \E waiters, key : Decrypting(c, waiters, key)
            /\ UNCHANGED <<pending, ckEncAesCache>>
         \/ \E w \in Waiter :
              /\ FetchedFor(w) /\ ReadyForDecryption(c)
              /\ pending' = [pending EXCEPT ![c] = @ \cup {w}]
              /\ UNCHANGED <<authority, params, production, keyCache, ckEncAesCache,
                             decryptedContentKeyMap, processOf>>
              /\ answered' = {}
<1>1. /\ ReadyForDecryption(c)
      /\ UNCHANGED <<authority, params, production, keyCache, ckEncAesCache, processOf>>
  BY DEF DataComplete
<1>2. PICK w \in Fetched(asked) :
        \/ (\E e \in ckEncAesCache[c] : e[1] = w.ckName /\ DecryptFor(c, {w}, e[2]))
           /\ UNCHANGED pending
        \/ /\ pending' = [pending EXCEPT ![c] = @ \cup {w}]
           /\ answered' = {} /\ UNCHANGED decryptedContentKeyMap
  BY DEF DataComplete
<1>3. w \in Waiter /\ FetchedFor(w)
  BY FetchedIsFor
<1>4. ASSUME NEW e \in ckEncAesCache[c], e[1] = w.ckName, DecryptFor(c, {w}, e[2])
      PROVE  Decrypting(c, {w}, e[2])
  BY <1>1, <1>3, <1>4 DEF Decrypting, IInv, FetchInv, ReadyForDecryption
<1> QED BY <1>1, <1>2, <1>3, <1>4

LEMMA CkCompleteDecrypts ==
  ASSUME IInv, NEW c \in Consumer, NEW ckName \in Word \X Rule, CkComplete(c, ckName)
  PROVE  \E key \in Abe!ContentKey \cup {Garbled} :
           /\ Decrypting(c, WaitersFor(c, ckName), key) /\ NamedBy(ckName, key)
           /\ ckEncAesCache' = [ckEncAesCache EXCEPT ![c] = @ \cup {<<ckName, key>>}]
           /\ pending' = [pending EXCEPT ![c] = @ \ WaitersFor(c, ckName)]
<1>1. PICK key \in FetchedKeys(ckName) :
        /\ ckEncAesCache' = [ckEncAesCache EXCEPT ![c] = @ \cup {<<ckName, key>>}]
        /\ DecryptFor(c, WaitersFor(c, ckName), key)
  BY DEF CkComplete
<1>2. NamedBy(ckName, key) /\ key \in Abe!ContentKey \cup {Garbled}
  BY FetchedKeyNamed
<1>3. /\ WaitersFor(c, ckName) \in SUBSET Waiter /\ keyCache[c] # NoKey
      /\ \A w \in WaitersFor(c, ckName) : FetchedFor(w) /\ w.ckName = ckName
  BY DEF CkComplete, WaitersFor, IInv, TypeOK, FetchInv, ReadyForDecryption
<1>4. Decrypting(c, WaitersFor(c, ckName), key)
  BY <1>1, <1>2, <1>3 DEF Decrypting, CkComplete
<1> QED BY <1>1, <1>2, <1>4 DEF CkComplete

LEMMA DecryptingKeeps ==
  ASSUME IInv, NEW c \in Consumer, NEW waiters, NEW key, Decrypting(c, waiters, key)
  PROVE  /\ answered' \subseteq [consumer : Consumer, asked : Asked, data : Data \cup {Garbled},
                                 result : Result]
         /\ GarbageHasCause' /\ RefusalHasCause' /\ Guarded!Read
         /\ decryptedContentKeyMap' \in [Process -> SUBSET Abe!ContentKey] /\ MapInv'
BY Decryption DEF Decrypting, authority, production

LEMMA StepDataComplete ==
  ASSUME IInv, NEW c \in Consumer, NEW asked \in Asked, DataComplete(c, asked)
  PROVE  IInv'
<1>1. ASSUME NEW waiters, NEW key, Decrypting(c, waiters, key), UNCHANGED <<pending, ckEncAesCache>>
      PROVE  IInv'
  <2>1. UNCHANGED <<authority, params, production, keyCache, processOf>>
    BY <1>1 DEF Decrypting
  <2>2. TypeOK'
    BY <1>1, <2>1, DecryptingKeeps DEF IInv, TypeOK, authority, production
  <2>3. GrantInv' /\ FreshInv' /\ FetchInv'
    BY <1>1, <2>1, GrantKept, FreshKept, FetchKept DEF IInv, production
  <2> QED BY <1>1, <2>2, <2>3, DecryptingKeeps DEF IInv
<1>2. ASSUME NEW w \in Waiter, FetchedFor(w), ReadyForDecryption(c),
             pending' = [pending EXCEPT ![c] = @ \cup {w}],
             UNCHANGED <<authority, params, production, keyCache, ckEncAesCache,
                         decryptedContentKeyMap, processOf>>,
             answered' = {}
      PROVE  IInv'
  <2>1. TypeOK'
    BY <1>2 DEF IInv, TypeOK, authority, production
  <2>2. FetchInv'
    <3>1. ASSUME NEW d \in Consumer, NEW v \in pending'[d]
          PROVE  FetchedFor(v) /\ ReadyForDecryption(d)
      BY <1>2, <3>1 DEF IInv, TypeOK, FetchInv
    <3>2. ASSUME NEW d \in Consumer, NEW v \in pending'[d]
          PROVE  (FetchedFor(v) /\ ReadyForDecryption(d))'
      BY <1>2, <3>1, <3>2, FetchedForGrows DEF ReadyForDecryption, production
    <3>3. \A d \in Consumer : \A e \in ckEncAesCache'[d] : NamedBy(e[1], e[2])'
      BY <1>2, NamedByGrows DEF IInv, FetchInv, production
    <3> QED BY <3>2, <3>3 DEF FetchInv
  <2>3. GrantInv' /\ FreshInv' /\ MapInv'
    BY <1>2, GrantKept, FreshKept, MapKept DEF IInv, authority, production
  <2> QED BY <2>1, <2>2, <2>3 DEF IInv
<1> QED BY <1>1, <1>2, DataCompleteDecrypts

LEMMA StepCkComplete ==
  ASSUME IInv, NEW c \in Consumer, NEW ckName \in Word \X Rule, CkComplete(c, ckName)
  PROVE  IInv'
<1>1. PICK key \in Abe!ContentKey \cup {Garbled} :
        /\ Decrypting(c, WaitersFor(c, ckName), key) /\ NamedBy(ckName, key)
        /\ ckEncAesCache' = [ckEncAesCache EXCEPT ![c] = @ \cup {<<ckName, key>>}]
        /\ pending' = [pending EXCEPT ![c] = @ \ WaitersFor(c, ckName)]
  BY CkCompleteDecrypts
<1>2. UNCHANGED <<authority, params, production, keyCache, processOf>>
  BY <1>1 DEF Decrypting
<1>3. TypeOK'
  <2>1. ckEncAesCache' \in
          [Consumer -> SUBSET ((Word \X Rule) \X (Abe!ContentKey \cup {Garbled}))]
    BY <1>1 DEF IInv, TypeOK
  <2>2. pending' \in [Consumer -> SUBSET Waiter]
    BY <1>1 DEF IInv, TypeOK
  <2> QED BY <1>1, <1>2, <2>1, <2>2, DecryptingKeeps DEF IInv, TypeOK, authority, production
<1>4. FetchInv'
  <2>1. ASSUME NEW d \in Consumer, NEW e \in ckEncAesCache'[d] PROVE NamedBy(e[1], e[2])'
    <3>1. e \in ckEncAesCache[d] \/ e = <<ckName, key>>
      BY <1>1, <2>1 DEF IInv, TypeOK
    <3>2. NamedBy(e[1], e[2])
      BY <1>1, <3>1 DEF IInv, FetchInv
    <3> QED BY <1>2, <3>2, NamedByGrows DEF production
  <2>2. ASSUME NEW d \in Consumer, NEW w \in pending'[d]
        PROVE  (FetchedFor(w) /\ ReadyForDecryption(d))'
    <3>1. w \in pending[d]
      BY <1>1, <2>2 DEF IInv, TypeOK
    <3> QED BY <1>2, <3>1, FetchedForGrows DEF IInv, FetchInv, ReadyForDecryption, production
  <2> QED BY <2>1, <2>2 DEF FetchInv
<1>5. GrantInv' /\ FreshInv'
  BY <1>2, GrantKept, FreshKept DEF IInv
<1> QED BY <1>1, <1>3, <1>4, <1>5, DecryptingKeeps DEF IInv

LEMMA StepCkError ==
  ASSUME IInv, NEW c \in Consumer, NEW ckName \in Word \X Rule, CkError(c, ckName)
  PROVE  IInv'
<1>1. /\ pending' = [pending EXCEPT ![c] = @ \ WaitersFor(c, ckName)]
      /\ UNCHANGED <<authority, params, production, keyCache, ckEncAesCache,
                     decryptedContentKeyMap, processOf>>
      /\ answered' = {}
  BY DEF CkError, NothingAnswered
<1>2. TypeOK'
  BY <1>1 DEF IInv, TypeOK, authority, production
<1>3. FetchInv'
  <2>1. ASSUME NEW d \in Consumer, NEW w \in pending'[d] PROVE w \in pending[d]
    BY <1>1, <2>1 DEF IInv, TypeOK
  <2> QED BY <1>1, <2>1, NamedByGrows, FetchedForGrows
          DEF IInv, FetchInv, ReadyForDecryption, production
<1>4. GrantInv' /\ FreshInv' /\ MapInv'
  BY <1>1, GrantKept, FreshKept, MapKept DEF IInv, authority, production
<1> QED BY <1>2, <1>3, <1>4 DEF IInv
-----------------------------------------------------------------------------
LEMMA Starts == Init => IInv
<1> SUFFICES ASSUME Init PROVE IInv
  OBVIOUS
<1>1. /\ life = 0 /\ granted = {} /\ dkeys = {} /\ cks = {} /\ store = {} /\ produced = 0
      /\ answered = {} /\ grants = [c \in Consumer |-> Unset]
      /\ params = [h \in Holder |-> NoParams] /\ keyCache = [c \in Consumer |-> NoKey]
      /\ ckEncAesCache = [c \in Consumer |-> {}] /\ pending = [c \in Consumer |-> {}]
      /\ decryptedContentKeyMap = [p \in Process |-> {}] /\ processOf \in Placement
  BY DEF Init, Authority!Init
<1>2. TypeOK
  BY <1>1, NacAbeAssumption DEF NacAbeAssumption, TypeOK, Life
<1>3. GrantInv
  BY <1>1, Apart DEF GrantInv
<1> QED BY <1>1, <1>2, <1>3 DEF IInv, FreshInv, FetchInv, MapInv

LEMMA StepIInv == IInv /\ [Next]_vars => IInv'
<1> SUFFICES ASSUME IInv, [Next]_vars PROVE IInv'
  OBVIOUS
<1>1. CASE AuthorityStep
  BY <1>1, StepAddNewPolicy, StepOnDecryptionKeyRequest, StepRestartAuthority DEF AuthorityStep
<1>2. CASE \E h \in Holder : LearnParams(h)
  BY <1>2, StepLearnParams
<1>3. CASE ProducerStep
  BY <1>3, StepNewProducer, StepCkDataGen, StepProduce, StepProduceUnder DEF ProducerStep
<1>4. CASE ConsumerStep
  BY <1>4, StepNewConsumer, StepObtainDecryptionKey, StepDataComplete, StepCkComplete,
     StepCkError, StepClearCachedContentKeys DEF ConsumerStep
<1>5. CASE UNCHANGED vars
  <2>1. UNCHANGED <<authority, params, production, reading, answered, processOf>>
    BY <1>5 DEF vars
  <2>2. TypeOK'
    BY <2>1 DEF IInv, TypeOK, authority, production, reading
  <2> QED BY <2>1, <2>2, GrantKept, FreshKept, FetchKept, MapKept
          DEF IInv, authority, production, reading
<1> QED BY <1>1, <1>2, <1>3, <1>4, <1>5 DEF Next

(* The inductive invariant holds throughout.                                 *)
THEOREM Invariance == Spec => []IInv
BY Starts, StepIInv, PTL DEF Spec

(* Every variable keeps its type.                                            *)
THEOREM TypeCorrect == Spec => []TypeOK
<1>1. IInv => TypeOK
  BY DEF IInv
<1> QED BY <1>1, Invariance, PTL
-----------------------------------------------------------------------------
(* What a step is, as GuardedStore sees it.                                  *)
LEMMA StepIs ==
  ASSUME IInv, Next
  PROVE  \/ \E c \in Consumer, grant \in Grant : AddNewPolicy(c, grant)
         \/ /\ store \subseteq store' /\ answered' = {} /\ UNCHANGED <<granted, processOf>>
         \/ \E c \in Consumer : \E waiters, key : Decrypting(c, waiters, key)
<1>1. CASE AuthorityStep
  <2>1. ASSUME NEW c \in Consumer, OnDecryptionKeyRequest(c)
        PROVE  answered' = {} /\ UNCHANGED <<store, granted, processOf>>
    BY <2>1 DEF OnDecryptionKeyRequest, NothingAnswered, production
  <2>2. ASSUME RestartAuthority PROVE answered' = {} /\ UNCHANGED <<store, granted, processOf>>
    BY <2>2 DEF RestartAuthority, NothingAnswered, production
  <2> QED BY <1>1, <2>1, <2>2 DEF AuthorityStep
<1>2. ASSUME NEW h \in Holder, LearnParams(h)
      PROVE  answered' = {} /\ UNCHANGED <<store, granted, processOf>>
  BY <1>2 DEF LearnParams, NothingAnswered, authority, production
<1>3. CASE ProducerStep
  <2>1. answered' = {} /\ UNCHANGED <<granted, processOf>>
    BY <1>3 DEF ProducerStep, NewProducer, CkDataGen, Produce, ProduceUnder, NothingAnswered, authority
  <2>2. store \subseteq store'
    BY <1>3 DEF ProducerStep, NewProducer, CkDataGen, Produce, ProduceUnder, Put, production
  <2> QED BY <2>1, <2>2
<1>4. CASE ConsumerStep
  <2>1. ASSUME NEW c \in Consumer, NewConsumer(c) \/ ObtainDecryptionKey(c)
        PROVE  answered' = {} /\ UNCHANGED <<store, granted, processOf>>
    BY <2>1 DEF NewConsumer, ObtainDecryptionKey, NothingAnswered, authority, production
  <2>2. ASSUME NEW c \in Consumer, NEW ckName \in Word \X Rule, CkError(c, ckName)
        PROVE  answered' = {} /\ UNCHANGED <<store, granted, processOf>>
    BY <2>2 DEF CkError, NothingAnswered, authority, production
  <2>3. ASSUME NEW p \in Process, ClearCachedContentKeys(p)
        PROVE  answered' = {} /\ UNCHANGED <<store, granted, processOf>>
    BY <2>3 DEF ClearCachedContentKeys, NothingAnswered, authority, production
  <2>4. ASSUME NEW c \in Consumer, NEW asked \in Asked, DataComplete(c, asked)
        PROVE  \/ answered' = {} /\ UNCHANGED <<store, granted, processOf>>
               \/ \E waiters, key : Decrypting(c, waiters, key)
    BY <2>4, DataCompleteDecrypts DEF authority, production
  <2>5. ASSUME NEW c \in Consumer, NEW ckName \in Word \X Rule, CkComplete(c, ckName)
        PROVE  \E waiters, key : Decrypting(c, waiters, key)
    BY <2>5, CkCompleteDecrypts
  <2> QED BY <1>4, <2>1, <2>2, <2>3, <2>4, <2>5 DEF ConsumerStep
<1> QED BY <1>1, <1>2, <1>3, <1>4 DEF Next

(* What is given, or refused, has its cause in the state it is given in.     *)
LEMMA StepAnswers ==
  IInv /\ GarbageHasCause /\ RefusalHasCause /\ [Next]_vars => GarbageHasCause' /\ RefusalHasCause'
<1> SUFFICES ASSUME IInv, GarbageHasCause, RefusalHasCause, [Next]_vars
             PROVE  GarbageHasCause' /\ RefusalHasCause'
  OBVIOUS
<1>1. CASE answered' = {}
  BY <1>1 DEF GarbageHasCause, RefusalHasCause
<1>2. ASSUME NEW c \in Consumer, NEW waiters, NEW key, Decrypting(c, waiters, key)
      PROVE  GarbageHasCause' /\ RefusalHasCause'
  BY <1>2, DecryptingKeeps
<1>3. CASE UNCHANGED vars
  <2>1. UNCHANGED <<answered, store, cks, params, keyCache, granted>>
    BY <1>3 DEF vars, authority, production, reading
  <2>2. GarbageHasCause'
    BY <2>1 DEF GarbageHasCause, NameReused, CkNameShared, CkName
  <2>3. RefusalHasCause'
    <3> SUFFICES ASSUME NEW a \in answered, a.result = NacAlgoError
                 PROVE  (\/ NameReused(a.asked)
                         \/ CkNameShared(a.data.ck)
                         \/ params[a.consumer] # a.data.ck.key.life
                         \/ keyCache[a.consumer].life # a.data.ck.key.life
                         \/ ~ GrantedFor(a.consumer, a.data.ck.key))'
      BY <2>1 DEF RefusalHasCause
    <3>1. /\ NameReused(a.asked)' = NameReused(a.asked)
          /\ CkNameShared(a.data.ck)' = CkNameShared(a.data.ck)
          /\ GrantedFor(a.consumer, a.data.ck.key)' = GrantedFor(a.consumer, a.data.ck.key)
      BY <2>1 DEF NameReused, CkNameShared, CkName, GrantedFor
    <3> QED BY <2>1, <3>1 DEF RefusalHasCause
  <2> QED BY <2>2, <2>3
<1>4. ASSUME NEW c \in Consumer, NEW grant \in Grant, AddNewPolicy(c, grant) PROVE answered' = {}
  BY <1>4 DEF AddNewPolicy, NothingAnswered
<1> QED BY <1>1, <1>2, <1>3, <1>4, StepIs

(* A Consumer is given something that nobody produced only if a name was     *)
(* used twice, of the data or of a CK.                                       *)
THEOREM GarbageExplained == Spec => []GarbageHasCause
<1>1. Init => GarbageHasCause /\ RefusalHasCause
  BY DEF Init, GarbageHasCause, RefusalHasCause
<1> QED BY <1>1, StepAnswers, Invariance, PTL DEF Spec

(* A decryptor that was granted access is refused only for those reasons, or *)
(* because it holds parameters or a DKEY of another life of the authority.   *)
THEOREM RefusalExplained == Spec => []RefusalHasCause
<1>1. Init => GarbageHasCause /\ RefusalHasCause
  BY DEF Init, GarbageHasCause, RefusalHasCause
<1> QED BY <1>1, StepAnswers, Invariance, PTL DEF Spec
-----------------------------------------------------------------------------
(* What the last step gave, as GuardedStore sees it.                         *)
reads == {<<a.consumer, a.asked, a.result>> : a \in {b \in answered : b.result \in 1..MaxMade}}

-----------------------------------------------------------------------------
(* What does not touch the cache or who waits, or forgets both, keeps them   *)
(* apart.                                                                    *)
LEMMA KeysKept ==
  ASSUME OneKeyPerName,
         \A c \in Consumer : /\ ckEncAesCache'[c] \subseteq ckEncAesCache[c]
                             /\ pending'[c] \subseteq pending[c]
  PROVE  OneKeyPerName'
BY DEF OneKeyPerName, WaitersFor

(* The steps after which a cached name has a second key or a waiter would be *)
(* those that cache a CK or let a request wait for one.                      *)
LEMMA StepKeys == IInv /\ OneKeyPerName /\ [Next]_vars => OneKeyPerName'
<1> SUFFICES ASSUME IInv, OneKeyPerName, [Next]_vars PROVE OneKeyPerName'
  OBVIOUS
<1> DEFINE Less == \A c \in Consumer : /\ ckEncAesCache'[c] \subseteq ckEncAesCache[c]
                                       /\ pending'[c] \subseteq pending[c]
<1>1. ASSUME UNCHANGED <<ckEncAesCache, pending>> PROVE OneKeyPerName'
  BY <1>1, KeysKept
<1>2. CASE AuthorityStep
  BY <1>1, <1>2 DEF AuthorityStep, AddNewPolicy, OnDecryptionKeyRequest, RestartAuthority, reading
<1>3. ASSUME NEW h \in Holder, LearnParams(h) PROVE OneKeyPerName'
  BY <1>1, <1>3 DEF LearnParams, reading
<1>4. CASE ProducerStep
  BY <1>1, <1>4 DEF ProducerStep, NewProducer, CkDataGen, Produce, ProduceUnder, reading
<1>5. ASSUME NEW c \in Consumer, NewConsumer(c) PROVE OneKeyPerName'
  <2>1. Less
    BY <1>5 DEF NewConsumer, IInv, TypeOK
  <2> QED BY <2>1, KeysKept
<1>6. ASSUME NEW c \in Consumer, ObtainDecryptionKey(c) PROVE OneKeyPerName'
  BY <1>1, <1>6 DEF ObtainDecryptionKey
<1>7. ASSUME NEW p \in Process, ClearCachedContentKeys(p) PROVE OneKeyPerName'
  BY <1>1, <1>7 DEF ClearCachedContentKeys
<1>8. ASSUME NEW c \in Consumer, NEW ckName \in Word \X Rule, CkError(c, ckName)
      PROVE  OneKeyPerName'
  <2>1. Less
    BY <1>8 DEF CkError, IInv, TypeOK
  <2> QED BY <2>1, KeysKept
<1>9. ASSUME NEW c \in Consumer, NEW asked \in Asked, DataComplete(c, asked)
      PROVE  OneKeyPerName'
  <2>1. UNCHANGED ckEncAesCache
    BY <1>9 DEF DataComplete
  <2>2. CASE UNCHANGED pending
    BY <1>1, <2>1, <2>2
  <2>3. ASSUME NEW w, \A e \in ckEncAesCache[c] : e[1] # w.ckName,
               pending' = [pending EXCEPT ![c] = @ \cup {w}]
        PROVE  OneKeyPerName'
    <3>1. ASSUME NEW d \in Consumer, NEW v \in pending'[d], NEW e \in ckEncAesCache[d]
          PROVE  v.ckName # e[1]
      BY <2>3, <3>1 DEF IInv, TypeOK, OneKeyPerName, WaitersFor
    <3> QED BY <2>1, <3>1 DEF OneKeyPerName, WaitersFor
  <2> QED BY <1>9, <2>2, <2>3 DEF DataComplete
<1>10. ASSUME NEW c \in Consumer, NEW ckName \in Word \X Rule, CkComplete(c, ckName)
       PROVE  OneKeyPerName'
  <2>1. PICK key : /\ ckEncAesCache' = [ckEncAesCache EXCEPT ![c] = @ \cup {<<ckName, key>>}]
                   /\ pending' = [pending EXCEPT ![c] = @ \ WaitersFor(c, ckName)]
    BY <1>10 DEF CkComplete
  <2>2. \A e \in ckEncAesCache[c] : e[1] # ckName
    BY <1>10 DEF CkComplete, OneKeyPerName
  <2>3. ASSUME NEW d \in Consumer, d # c
        PROVE  ckEncAesCache'[d] = ckEncAesCache[d] /\ pending'[d] = pending[d]
    BY <2>1, <2>3 DEF IInv, TypeOK
  <2>4. /\ ckEncAesCache'[c] = ckEncAesCache[c] \cup {<<ckName, key>>}
        /\ pending'[c] = pending[c] \ WaitersFor(c, ckName)
    BY <2>1 DEF IInv, TypeOK
  <2>5. ASSUME NEW e \in ckEncAesCache'[c], NEW f \in ckEncAesCache'[c], e[1] = f[1] PROVE e = f
    BY <2>2, <2>4, <2>5 DEF OneKeyPerName
  <2>6. ASSUME NEW e \in ckEncAesCache'[c], NEW v \in pending'[c] PROVE v.ckName # e[1]
    BY <2>4, <2>6 DEF OneKeyPerName, WaitersFor
  <2> QED BY <2>3, <2>5, <2>6 DEF OneKeyPerName, WaitersFor
<1>11. CASE UNCHANGED vars
  BY <1>1, <1>11 DEF vars, reading
<1>12. CASE ConsumerStep
  BY <1>5, <1>6, <1>7, <1>8, <1>9, <1>10, <1>12 DEF ConsumerStep
<1> QED BY <1>2, <1>3, <1>4, <1>11, <1>12 DEF Next

(* A Consumer has one content key for a name, however often the name is      *)
(* used, and nobody waits for a CK that is there.                            *)
THEOREM KeysByName == Spec => []OneKeyPerName
<1>1. Init => OneKeyPerName
  BY DEF Init, OneKeyPerName
<1> QED BY <1>1, StepKeys, Invariance, PTL DEF Spec
-----------------------------------------------------------------------------
(* The DKEYs sent, as KeyGrant sees them.                                    *)
made == {<<d.prv.life, d.to, d.prv.grant>> : d \in dkeys}

(* A DKEY that is sent is a Make: it is for what the one who asks is         *)
(* registered for, and of this life.                                         *)
LEMMA RequestIsMake ==
  ASSUME IInv, NEW c \in Consumer, OnDecryptionKeyRequest(c)
  PROVE  Authority!Make(c)
<1> DEFINE d == Seal(c, Abe!PrvKeyGen(life, grants[c]))
           one == <<life, c, grants[c]>>
<1>1. /\ grants[c] # Unset /\ Abe!PrvKeyGen(life, grants[c]) # NacAlgoError
      /\ dkeys' = dkeys \cup {d} /\ UNCHANGED <<life, grants>>
  BY DEF OnDecryptionKeyRequest
<1>2. d = [to |-> c, prv |-> [life |-> life, grant |-> grants[c]]]
  BY <1>1, PrvKeyMade DEF IInv, Seal
<1>3. <<d.prv.life, d.to, d.prv.grant>> = one
  BY <1>2
<1> HIDE DEF d
<1>4. ASSUME NEW p \in made' PROVE p \in made \cup {one}
  BY <1>1, <1>3, <1>4 DEF made
<1>5. ASSUME NEW p \in made PROVE p \in made'
  BY <1>1, <1>5 DEF made
<1>6. one \in made'
  BY <1>1, <1>3 DEF made
<1>7. made' = made \cup {one}
  BY <1>4, <1>5, <1>6
<1> QED BY <1>1, <1>7 DEF Authority!Make, made

(* What is no step of the authority does nothing to its part of the state.   *)
LEMMA OthersLeaveAuthority ==
  ASSUME Next, ~ AuthorityStep
  PROVE  UNCHANGED <<life, grants, dkeys>>
<1>1. CASE \E h \in Holder : LearnParams(h)
  BY <1>1 DEF LearnParams, authority
<1>2. CASE ProducerStep
  BY <1>2 DEF ProducerStep, NewProducer, CkDataGen, Produce, ProduceUnder, authority
<1>3. CASE ConsumerStep
  BY <1>3 DEF ConsumerStep, NewConsumer, ObtainDecryptionKey, DataComplete, CkComplete, CkError,
              ClearCachedContentKeys, authority
<1> QED BY <1>1, <1>2, <1>3 DEF Next

(* The library has the authority that KeyGrant promises: producers,          *)
(* Consumers and the network only ever see what AttributeAuthority, which    *)
(* implements KeyGrant, may do.                                              *)
THEOREM AuthorityWithin == Spec => Authority!Spec
<1>1. Init => Authority!Init
  BY DEF Init
<1>2. ASSUME IInv, [Next]_vars PROVE [Authority!Next]_<<life, grants, made>>
  <2>1. ASSUME NEW c \in Consumer, NEW grant \in Grant, AddNewPolicy(c, grant)
        PROVE  Authority!GrantTo(c, grant)
    BY <2>1 DEF AddNewPolicy
  <2>2. ASSUME NEW c \in Consumer, OnDecryptionKeyRequest(c) PROVE Authority!Make(c)
    BY <1>2, <2>2, RequestIsMake
  <2>3. ASSUME RestartAuthority PROVE Authority!Restart
    BY <2>3 DEF RestartAuthority
  <2>4. CASE AuthorityStep
    BY <2>1, <2>2, <2>3, <2>4 DEF AuthorityStep, Authority!Next
  <2>5. CASE UNCHANGED <<life, grants, dkeys>>
    BY <2>5 DEF made
  <2>6. UNCHANGED vars => UNCHANGED <<life, grants, dkeys>>
    BY DEF vars, authority
  <2> QED BY <1>2, <2>4, <2>5, <2>6, OthersLeaveAuthority
<1> QED BY <1>1, <1>2, Invariance, PTL DEF Spec, Authority!Spec, made
-----------------------------------------------------------------------------
(* The library implements GuardedStore: what a Consumer is given was         *)
(* produced under a name it asked for, and a decryptor of its process was    *)
(* granted access to it.                                                     *)
THEOREM Refinement == Spec => ImplementsGuardedStore
<1>1. Init => Guarded!Init
  BY DEF Init, Guarded!Init
<1>2. ASSUME IInv, [Next]_vars PROVE [Guarded!Next]_<<granted, store, reads, processOf>>
  <2>1. ASSUME NEW c \in Consumer, NEW grant \in Grant, AddNewPolicy(c, grant) PROVE Guarded!Next
    <3>1. /\ grants[c] = Unset /\ granted' = granted \cup {<<c, life, grant>>}
          /\ answered' = {} /\ UNCHANGED <<store, processOf>>
      BY <2>1 DEF AddNewPolicy, NothingAnswered, Authority!GrantTo, production
    <3>2. \A g \in Grant : <<c, life, g>> \notin granted
      BY <1>2, <3>1, Apart DEF IInv, GrantInv
    <3>3. life \in Life
      BY <1>2 DEF IInv, TypeOK
    <3>4. Guarded!Register(c, life, grant)
      BY <3>1, <3>2 DEF Guarded!Register
    <3> QED BY <3>1, <3>3, <3>4 DEF Guarded!Next
  <2>2. ASSUME store \subseteq store', answered' = {}, UNCHANGED <<granted, processOf>>
        PROVE  Guarded!Next
    <3>1. store' \subseteq Data
      BY <1>2, StepIInv DEF IInv, TypeOK
    <3>2. Guarded!Store
      BY <2>2, <3>1 DEF Guarded!Store
    <3> QED BY <2>2, <3>2 DEF Guarded!Next
  <2>3. ASSUME NEW c \in Consumer, NEW waiters, NEW key, Decrypting(c, waiters, key)
        PROVE  Guarded!Next
    <3>1. Guarded!Read
      BY <1>2, <2>3, DecryptingKeeps
    <3> QED BY <2>3, <3>1 DEF Guarded!Next, Decrypting
  <2>4. CASE UNCHANGED vars
    BY <2>4 DEF vars, authority, production, reads
  <2> QED BY <1>2, <2>1, <2>2, <2>3, <2>4, StepIs
<1> QED BY <1>1, <1>2, Invariance, PTL DEF Spec, ImplementsGuardedStore, Guarded!Spec, reads
=============================================================================
