------------------------------- MODULE NacAbe -------------------------------
(***************************************************************************)
(* The library as a whole: an attribute authority that may restart, a      *)
(* producer, and Consumers that may share a process and with it one map of *)
(* decrypted content keys.  Each part is taken by what it promises:        *)
(*   the authority      KeyGrant, which AttributeAuthority implements;     *)
(*   the parameters     PublicParams, which ParamFetcher implements:       *)
(*                      learnt once, by one Consumer or Producer object;   *)
(*   a Consumer         requests for a content key (CK) wait together and  *)
(*                      are answered together, as in module Consumer;      *)
(*   ABESupport         AbeSupport.                                        *)
(* The network keeps all that was ever sent and delivers any of it.        *)
(***************************************************************************)
EXTENDS Naturals, FiniteSets

CONSTANTS
  Consumer, Process,
  Placement,        \* the ways Consumers may be placed in processes
  Grant, Unset, Rule, Unusable, Satisfies,   \* as in KeyGrant and AbeSupport
  Name, Under,      \* data names, and the names that have each as a prefix
  Asked,            \* the names applications ask for
  Word,             \* the random 32-bit words that end the names of CKs
  Producer,         \* the one producer
  NoParams, NoKey, NacAlgoError, Garbled, Garbage,
  MaxRestarts,      \* bound: restarts of the authority
  MaxSpread,        \* bound: restarts, and decryptors registered, taken together
  MaxWaiters,       \* bound: what waits in one Consumer at a time
  MaxMade           \* bound: steps in which the producer makes something

VARIABLES
  life,             \* the authority's life: its master key and parameters
  grants,           \* what each decryptor is registered for, as in KeyGrant
  dkeys,            \* the DKEYs sent, in this life of the authority and before
  params,           \* the parameters each Consumer and the producer have
  keyCache,         \* m_keyCache of each Consumer
  ckEncAesCache,    \* m_ckEncAesCache: <<name of a CK, encrypted content key>>
  pending,          \* m_pendingCallbacks: what waits for a CK
  cks,              \* the CKs made
  store,            \* the data produced
  produced,         \* the producer's steps, from which random AES keys come
  decryptedContentKeyMap,   \* as in AbeSupport
  processOf,        \* the process of each Consumer, chosen at the start
  granted,          \* history: <<consumer, life, grant>>
  answered          \* what the last step decrypted, or could not, and for whom

Life == 0..MaxRestarts
Holder == Consumer \cup {Producer}

authority == <<life, grants, granted, dkeys>>
production == <<cks, store, produced>>
reading == <<keyCache, ckEncAesCache, pending, decryptedContentKeyMap>>
vars == <<authority, params, production, reading, answered, processOf>>

Abe == INSTANCE AbeSupport WITH Random <- 1..MaxMade, Plaintext <- 1..MaxMade

Authority == INSTANCE KeyGrant
  WITH Identity <- Consumer, Key <- Consumer, OwnerOf <- [c \in Consumer |-> c], Policy <- Grant,
       made <- {<<d.prv.life, d.to, d.prv.grant>> : d \in dkeys}

(* A DKEY is sealed to the RSA key of a Consumer.                            *)
Dkey == [to : Consumer, prv : Abe!PrivateKey]
Ck == [word : Word, key : Abe!ContentKey]
Data == [name : Name, content : 1..MaxMade, ck : Ck]

(* The name of a CK: /<producer>/CK/<random word>/ENC-BY/<rule>              *)
CkName(k) == <<k.word, k.key.rule>>

Waiter == [asked : Asked, ckName : Word \X Rule, data : Data \cup {Garbled}]

ASSUME NacAbeAssumption ==
  /\ MaxRestarts \in Nat /\ MaxSpread \in Nat /\ MaxWaiters \in Nat /\ MaxMade \in Nat
  /\ Producer \notin Consumer /\ Placement \subseteq [Consumer -> Process]
  /\ Under \in [Name -> SUBSET Name] /\ Asked \subseteq Name
  /\ Unset \notin Grant /\ NoParams \notin Life /\ NoKey \notin Abe!PrivateKey
  /\ Unusable \subseteq Grant \cup Rule /\ Satisfies \in [Grant -> SUBSET Rule]
  /\ NacAlgoError \notin 1..MaxMade /\ Garbage \notin 1..MaxMade
  /\ NacAlgoError \notin Abe!PrivateKey \cup Abe!ContentKey
  /\ Garbled \notin Data \cup Abe!ContentKey \cup Abe!Ciphertext
  /\ NacAlgoError # Garbage

Init ==
  /\ dkeys = {} /\ Authority!Init /\ granted = {}
  /\ params = [h \in Holder |-> NoParams]
  /\ keyCache = [c \in Consumer |-> NoKey]
  /\ ckEncAesCache = [c \in Consumer |-> {}] /\ pending = [c \in Consumer |-> {}]
  /\ cks = {} /\ store = {} /\ produced = 0 /\ answered = {}
  /\ decryptedContentKeyMap = [p \in Process |-> {}]
  /\ processOf \in Placement
-----------------------------------------------------------------------------
NothingAnswered == answered' = {} /\ UNCHANGED processOf

(* The authority.                                                            *)
Spread(l, registrations) == l + Cardinality({g[1] : g \in registrations})

AddNewPolicy(c, grant) ==
  /\ UNCHANGED dkeys /\ Authority!GrantTo(c, grant)
  /\ granted' = granted \cup {<<c, life, grant>>}
  /\ Spread(life, granted') <= MaxSpread
  /\ UNCHANGED <<params, production, reading>> /\ NothingAnswered

(* encryptDataContentWithCK: an AES key seals the DKEY, and c's RSA key that.*)
Seal(c, prv) == [to |-> c, prv |-> prv]

(* For a grant that OpenABE cannot parse there is no DKEY: the exception     *)
(* leaves the event loop.                                                    *)
OnDecryptionKeyRequest(c) ==
  /\ grants[c] # Unset /\ Abe!PrvKeyGen(life, grants[c]) # NacAlgoError
  /\ dkeys' = dkeys \cup {Seal(c, Abe!PrvKeyGen(life, grants[c]))}
  /\ UNCHANGED <<life, grants, granted, params, production, reading>> /\ NothingAnswered

(* The authority's process ends, by an exception or otherwise, and another   *)
(* one starts: its constructor makes a master key of its own.                *)
RestartAuthority ==
  /\ life < MaxRestarts /\ Spread(life + 1, granted) <= MaxSpread
  /\ UNCHANGED dkeys /\ Authority!Restart
  /\ UNCHANGED <<granted, params, production, reading>> /\ NothingAnswered

(* onPublicParamsRequest: the parameters of this life.  The network may hold *)
(* those of earlier ones.                                                    *)
PublicParamsData == 0..life
-----------------------------------------------------------------------------
(* The parameters are fetched by the constructors only, and never again.     *)
LearnParams(h) ==
  /\ params[h] = NoParams
  /\ \E l \in PublicParamsData : params' = [params EXCEPT ![h] = l]
  /\ UNCHANGED <<authority, production, reading>> /\ NothingAnswered

(* A new Producer object takes the place of the producer's.                  *)
NewProducer ==
  /\ params[Producer] # NoParams
  /\ params' = [params EXCEPT ![Producer] = NoParams]
  /\ UNCHANGED <<authority, production, reading>> /\ NothingAnswered

(* A new Consumer object takes the place of an idle one in its process.      *)
NewConsumer(c) ==
  /\ params[c] # NoParams /\ pending[c] = {}
  /\ params' = [params EXCEPT ![c] = NoParams]
  /\ keyCache' = [keyCache EXCEPT ![c] = NoKey]
  /\ ckEncAesCache' = [ckEncAesCache EXCEPT ![c] = {}]
  /\ UNCHANGED <<authority, production, pending, decryptedContentKeyMap>> /\ NothingAnswered
-----------------------------------------------------------------------------
(* The producer.                                                             *)
MakesNext == produced < MaxMade /\ produced' = produced + 1

(* The CKs that ckDataGen may make now: its word is drawn at random.         *)
NewCk(rule) ==
  IF params[Producer] = NoParams \/ Abe!ContentKeyGen(params[Producer], rule, produced') = NacAlgoError
  THEN {}
  ELSE [word : Word, key : {Abe!ContentKeyGen(params[Producer], rule, produced')}]

CkDataGen(rule) ==
  /\ MakesNext
  /\ \E k \in NewCk(rule) : cks' = cks \cup {k}
  /\ UNCHANGED <<authority, params, store, reading>> /\ NothingAnswered

(* getCkEncryptedData: the name has no version.                              *)
Put(name, k) == store' = store \cup {[name |-> name, content |-> produced', ck |-> k]}

(* produce with a rule, given or found, makes a CK for the one content.      *)
Produce(name, rule) ==
  /\ MakesNext
  /\ \E k \in NewCk(rule) : cks' = cks \cup {k} /\ Put(name, k)
  /\ UNCHANGED <<authority, params, reading>> /\ NothingAnswered

(* produce with a CK and the name of its data.                               *)
ProduceUnder(name, k) ==
  /\ MakesNext /\ k \in cks
  /\ Put(name, k)
  /\ UNCHANGED <<authority, params, cks, reading>> /\ NothingAnswered
-----------------------------------------------------------------------------
(* The Consumers.                                                            *)

(* Mutant: the DKEY is not sealed to anyone's key.                           *)
UnsealsAny(c, dkey) == TRUE

(* decryptDataContent: the TPM decrypts with the Consumer's own RSA key, and *)
(* throws if the DKEY is not sealed to it.  It may be sent another's: of one *)
(* made when its certificate came late, the name is anyone's.                *)
Unseals(c, dkey) == dkey.to = c

ObtainDecryptionKey(c) ==
  /\ \E dkey \in dkeys :
       /\ Unseals(c, dkey)
       /\ keyCache' = [keyCache EXCEPT ![c] = dkey.prv]
  /\ UNCHANGED <<authority, params, production, ckEncAesCache, pending, decryptedContentKeyMap>>
  /\ NothingAnswered

ReadyForDecryption(c) == params[c] # NoParams /\ keyCache[c] # NoKey

CipherText(data) ==
  IF data = Garbled THEN Garbled ELSE Abe!Encrypt(data.ck.key, data.content)

(* What a request for "asked" may be answered with: segments of one name, of *)
(* whichever production of that name each is.                                *)
Fetched(asked) ==
  LET whole == {d \in store : d.name \in Under[asked]}
      joined == {d \in whole : \E e \in whole : e # d /\ e.name = d.name}
  IN  {[asked |-> asked, ckName |-> CkName(d.ck), data |-> d] : d \in whole} \cup
      {[asked |-> asked, ckName |-> CkName(d.ck), data |-> Garbled] : d \in joined}

(* cpDecrypt or kpDecrypt, and the callback of each waiter.                  *)
DecryptFor(c, waiters, key) ==
  LET p == processOf[c]
      results(w) == Abe!Results(p, params[c], keyCache[c], key, CipherText(w.data))
  IN  /\ Abe!Decrypt(p, params[c], keyCache[c], key)
      /\ \E result \in [waiters -> UNION {results(w) : w \in waiters}] :
           /\ \A w \in waiters : result[w] \in results(w)
           /\ answered' = {[consumer |-> c, asked |-> w.asked, data |-> w.data,
                            result |-> result[w]] : w \in waiters}

(* Mutant: a CK in the cache is found by its random word alone.              *)
LooksUpWord(c, asked) ==
  /\ ReadyForDecryption(c)
  /\ \E w \in Fetched(asked) :
       \/ /\ \E e \in ckEncAesCache[c] : e[1][1] = w.ckName[1] /\ DecryptFor(c, {w}, e[2])
          /\ UNCHANGED pending
       \/ /\ ckEncAesCache[c] = {} /\ Cardinality(pending[c]) < MaxWaiters
          /\ pending' = [pending EXCEPT ![c] = @ \cup {w}]
          /\ answered' = {} /\ UNCHANGED decryptedContentKeyMap
  /\ UNCHANGED <<authority, params, production, keyCache, ckEncAesCache, processOf>>

(* consume and the fetch of its data; a Consumer that was ready stays so.    *)
DataComplete(c, asked) ==
  /\ ReadyForDecryption(c)
  /\ \E w \in Fetched(asked) :
       \/ /\ \E e \in ckEncAesCache[c] : e[1] = w.ckName /\ DecryptFor(c, {w}, e[2])
          /\ UNCHANGED pending
       \/ /\ \A e \in ckEncAesCache[c] : e[1] # w.ckName
          /\ Cardinality(pending[c]) < MaxWaiters
          /\ pending' = [pending EXCEPT ![c] = @ \cup {w}]
          /\ answered' = {}
          /\ UNCHANGED decryptedContentKeyMap
  /\ UNCHANGED <<authority, params, production, keyCache, ckEncAesCache, processOf>>

(* Mutant: the rule is cut off a CK's name when it is fetched.               *)
FetchedByWord(ckName) == {k.key : k \in {l \in cks : l.word = ckName[1]}}

(* The encrypted keys that a fetch of a CK may bring.                        *)
FetchedKeys(ckName) ==
  LET named == {k \in cks : CkName(k) = ckName}
  IN  {k.key : k \in named} \cup (IF \E k, l \in named : k # l THEN {Garbled} ELSE {})

WaitersFor(c, ckName) == {w \in pending[c] : w.ckName = ckName}

(* Mutant: the cache is filled under the name without its random word.       *)
CachesByRule(c, ckName) ==
  /\ WaitersFor(c, ckName) # {}
  /\ \E key \in FetchedKeys(ckName) :
       /\ ckEncAesCache' = [ckEncAesCache EXCEPT ![c] = @ \cup {<<ckName[2], key>>}]
       /\ DecryptFor(c, WaitersFor(c, ckName), key)
  /\ pending' = [pending EXCEPT ![c] = @ \ WaitersFor(c, ckName)]
  /\ UNCHANGED <<authority, params, production, keyCache, processOf>>

(* Mutant: those who waited are told and not forgotten.                      *)
KeepsWaiters(c, ckName) ==
  /\ WaitersFor(c, ckName) # {}
  /\ \E key \in FetchedKeys(ckName) :
       /\ ckEncAesCache' = [ckEncAesCache EXCEPT ![c] = @ \cup {<<ckName, key>>}]
       /\ DecryptFor(c, WaitersFor(c, ckName), key)
  /\ UNCHANGED <<authority, params, production, pending, keyCache, processOf>>

CkComplete(c, ckName) ==
  /\ WaitersFor(c, ckName) # {}
  /\ \E key \in FetchedKeys(ckName) :
       /\ ckEncAesCache' = [ckEncAesCache EXCEPT ![c] = @ \cup {<<ckName, key>>}]
       /\ DecryptFor(c, WaitersFor(c, ckName), key)
  /\ pending' = [pending EXCEPT ![c] = @ \ WaitersFor(c, ckName)]
  /\ UNCHANGED <<authority, params, production, keyCache, processOf>>

(* onError tells the waiters, and nothing was decrypted.                     *)
CkError(c, ckName) ==
  /\ WaitersFor(c, ckName) # {}
  /\ pending' = [pending EXCEPT ![c] = @ \ WaitersFor(c, ckName)]
  /\ UNCHANGED <<authority, params, production, keyCache, ckEncAesCache, decryptedContentKeyMap>>
  /\ NothingAnswered

ClearCachedContentKeys(p) ==
  /\ Abe!ClearCachedContentKeys(p)
  /\ UNCHANGED <<authority, params, production, keyCache, ckEncAesCache, pending>> /\ NothingAnswered
-----------------------------------------------------------------------------
AuthorityStep ==
  \/ \E c \in Consumer, grant \in Grant : AddNewPolicy(c, grant)
  \/ \E c \in Consumer : OnDecryptionKeyRequest(c)
  \/ RestartAuthority

ProducerStep ==
  \/ NewProducer
  \/ \E rule \in Rule : CkDataGen(rule)
  \/ \E name \in Name, rule \in Rule : Produce(name, rule)
  \/ \E name \in Name, k \in cks : ProduceUnder(name, k)

ConsumerStep ==
  \/ \E c \in Consumer : NewConsumer(c) \/ ObtainDecryptionKey(c)
  \/ \E c \in Consumer, asked \in Asked : DataComplete(c, asked)
  \/ \E c \in Consumer, ckName \in Word \X Rule : CkComplete(c, ckName) \/ CkError(c, ckName)
  \/ \E p \in Process : ClearCachedContentKeys(p)

Next ==
  \/ AuthorityStep
  \/ \E h \in Holder : LearnParams(h)
  \/ ProducerStep
  \/ ConsumerStep

Spec == Init /\ [][Next]_vars
-----------------------------------------------------------------------------
Result == 1..MaxMade \cup {NacAlgoError, Garbage}

(* Every variable keeps its type.                                            *)
TypeOK ==
  /\ life \in Life
  /\ grants \in [Consumer -> Grant \cup {Unset}]
  /\ granted \subseteq Consumer \X Life \X Grant
  /\ dkeys \subseteq Dkey
  /\ params \in [Holder -> Life \cup {NoParams}]
  /\ keyCache \in [Consumer -> Abe!PrivateKey \cup {NoKey}]
  /\ ckEncAesCache \in [Consumer -> SUBSET ((Word \X Rule) \X (Abe!ContentKey \cup {Garbled}))]
  /\ pending \in [Consumer -> SUBSET Waiter]
  /\ cks \subseteq Ck /\ store \subseteq Data /\ produced \in 0..MaxMade
  /\ decryptedContentKeyMap \in [Process -> SUBSET Abe!ContentKey]
  /\ processOf \in [Consumer -> Process]
  /\ answered \subseteq [consumer : Consumer, asked : Asked, data : Data \cup {Garbled},
                         result : Result]

Guarded == INSTANCE GuardedStore
  WITH Reader <- Consumer, Item <- Data, stored <- store,
       reads <- {<<a.consumer, a.asked, a.result>> :
                   a \in {b \in answered : b.result \in 1..MaxMade}}

(* The library implements GuardedStore: whatever restarts, whichever names   *)
(* are used twice and whoever shares a process, what a Consumer is given was *)
(* produced under a name it asked for, and a decryptor of its process was    *)
(* granted access to it by the authority it was protected with.              *)
ImplementsGuardedStore == Guarded!Spec

NameReused(asked) ==
  \E d, e \in store : d # e /\ d.name = e.name /\ d.name \in Under[asked]

CkNameShared(k) == \E l \in cks : l # k /\ CkName(l) = CkName(k)

(* A Consumer is given something that nobody produced only if the name it    *)
(* asked for was produced twice, or the random words of two CKs agree.       *)
GarbageHasCause ==
  \A a \in answered : a.result = Garbage =>
    IF a.data = Garbled THEN NameReused(a.asked) ELSE CkNameShared(a.data.ck)

GrantedFor(c, key) ==
  \E g \in Grant : <<c, key.life, g>> \in granted /\ key.rule \in Satisfies[g]

(* A Consumer never holds two content keys under one name, though names are  *)
(* shared and requests for a CK come and go: no request waits, and no fetch  *)
(* is made, for a CK that it has.                                            *)
OneKeyPerName ==
  \A c \in Consumer : \A e \in ckEncAesCache[c] :
    /\ \A f \in ckEncAesCache[c] : e[1] = f[1] => e = f
    /\ WaitersFor(c, e[1]) = {}

(* A decryptor that was granted access is refused, after everything it needs *)
(* has been fetched, only for those reasons or because the authority         *)
(* restarted: its parameters or its DKEY are not those of the content.       *)
RefusalHasCause ==
  \A a \in answered : a.result = NacAlgoError =>
    \/ NameReused(a.asked)
    \/ CkNameShared(a.data.ck)
    \/ params[a.consumer] # a.data.ck.key.life
    \/ keyCache[a.consumer].life # a.data.ck.key.life
    \/ ~ GrantedFor(a.consumer, a.data.ck.key)

(* The inductive invariant.  A decryptor has one grant in each life, and     *)
(* every DKEY sent, held or used is for a grant of the one who has it.       *)
GrantInv ==
  /\ \A c \in Consumer, g \in Grant :
       grants[c] = g <=> <<c, life, g>> \in granted
  /\ \A c \in Consumer, l \in Life, g, h \in Grant :
       <<c, l, g>> \in granted => l <= life /\ (<<c, l, h>> \in granted => g = h)
  /\ \A d \in dkeys : <<d.to, d.prv.life, d.prv.grant>> \in granted
  /\ \A c \in Consumer : keyCache[c] # NoKey =>
       <<c, keyCache[c].life, keyCache[c].grant>> \in granted

(* AES keys and contents tell CKs and data apart.                            *)
FreshInv ==
  /\ \A k \in cks : k.key.aes <= produced
  /\ \A k, l \in cks : k.key.aes = l.key.aes => k = l
  /\ \A d \in store : d.ck \in cks

(* What was fetched is what the producer made, or a mix of two such things.  *)
NamedBy(ckName, key) ==
  IF key = Garbled
  THEN \E k, l \in cks : k # l /\ CkName(k) = ckName /\ CkName(l) = ckName
  ELSE \E k \in cks : k.key = key /\ CkName(k) = ckName

FetchedFor(w) ==
  IF w.data = Garbled THEN NameReused(w.asked)
  ELSE w.data \in store /\ w.data.name \in Under[w.asked] /\ w.ckName = CkName(w.data.ck)

FetchInv ==
  /\ \A c \in Consumer : \A e \in ckEncAesCache[c] : NamedBy(e[1], e[2])
  /\ \A c \in Consumer : \A w \in pending[c] : FetchedFor(w) /\ ReadyForDecryption(c)

MapInv ==
  \A p \in Process : \A key \in decryptedContentKeyMap[p] : Guarded!Entitled(p, key)

IInv == TypeOK /\ GrantInv /\ FreshInv /\ FetchInv /\ MapInv
=============================================================================
