------------------------- MODULE AttributeAuthority -------------------------
(***************************************************************************)
(* AttributeAuthority with its two subclasses (attribute-authority.cpp) and*)
(* its TrustConfig (trust-config.cpp), and the decryptors' fetches of their*)
(* decryption keys (DKEYs) as ndn-cxx's SegmentFetcher makes them.         *)
(*                                                                         *)
(* A decryptor's first Interest names its RSA key.  The authority makes a  *)
(* DKEY for what the key's owner is registered for, encrypts it to the key,*)
(* cuts it into segments under a new version, and answers with the first.  *)
(* The certificate may have to be fetched in between.  The other segments  *)
(* are asked for by name.                                                  *)
(***************************************************************************)
EXTENDS Naturals

CONSTANTS
  Identity, Key, OwnerOf, Policy, Unset,   \* as in KeyGrant
  Unusable,          \* the policies that OpenABE cannot parse
  Interest, KeyOf,   \* the first Interests of fetches, and the key each names
  LastSegment,       \* a DKEY has the segments 0 .. LastSegment
  NoDkey,
  MaxDkeys,          \* bound: DKEYs made
  MaxRestarts        \* bound: restarts of the authority

VARIABLES
  tokens,        \* m_tokens
  knownKeys,     \* the keys of m_trustConfig's m_knownKeys
  segmentMap,    \* m_segmentMap: the DKEYs whose segments can be asked for
  stage,         \* where each first Interest is; pending: in the authority's face
  certFetches,   \* the requests a certificate is being fetched for
  clock,         \* the time versions are made from
  restarts,      \* history: the authority's restarts
  late,          \* history: the requests that had left the face when their certificate came
  published,     \* the segments sent, which the network may deliver at any time
  assembled      \* the segments each decryptor has, with the DKEY each is of

authority == <<tokens, knownKeys, segmentMap, certFetches>>
network == <<stage, published>>
vars == <<authority, network, clock, restarts, late, assembled>>

ASSUME AuthorityAssumption ==
  /\ OwnerOf \in [Key -> Identity]
  /\ Unset \notin Policy /\ Unusable \subseteq Policy
  /\ KeyOf \in [Interest -> Key]
  /\ LastSegment \in Nat /\ MaxDkeys \in Nat /\ MaxRestarts \in Nat

(* A DKEY: the key its name has and the key it is encrypted to, what it is   *)
(* for, its version, and the life of the authority whose master key made it. *)
Dkey == [name : Key, key : Key, policy : Policy, version : Nat, life : Nat]

ASSUME DkeyAssumption == NoDkey \notin Dkey

Segment == 0..LastSegment
Nothing == [s \in Segment |-> NoDkey]

Fresh ==
  /\ tokens' = [i \in Identity |-> Unset] /\ knownKeys' = {}
  /\ segmentMap' = {} /\ certFetches' = {}

Init ==
  /\ tokens = [i \in Identity |-> Unset] /\ knownKeys = {}
  /\ segmentMap = {} /\ certFetches = {}
  /\ stage = [n \in Interest |-> "unsent"] /\ published = {}
  /\ clock = 0 /\ restarts = 0 /\ late = {}
  /\ assembled = [k \in Key |-> Nothing]
-----------------------------------------------------------------------------
(* Mutant: a second policy replaces the first.                               *)
InsertOrAssign(i, policy) == tokens' = [tokens EXCEPT ![i] = policy]

(* std::map::insert *)
Insert(i, policy) ==
  tokens' = [tokens EXCEPT ![i] = IF @ = Unset THEN policy ELSE @]

(* TrustConfig: certificates are known by the names of their keys.           *)
AddOrUpdateCertificate(k) == knownKeys' = knownKeys \cup {k}
FoundLocally(k) == k \in knownKeys

(* addNewPolicy with a decryptor's certificate, or with its name only        *)
AddNewPolicy(i, policy) ==
  /\ Insert(i, policy)
  /\ \/ \E k \in Key : OwnerOf[k] = i /\ AddOrUpdateCertificate(k)
     \/ UNCHANGED knownKeys
  /\ UNCHANGED <<segmentMap, certFetches, network, clock, restarts, late, assembled>>

(* The lookup both subclasses make before a request is handled.              *)
Registered(k) == tokens[OwnerOf[k]] # Unset

(* getPrivateKey: a key for what m_tokens has for the certificate's identity.*)
PrivateKeyFor(k) == tokens[OwnerOf[k]]

(* The Interests for a key that the authority's face has not answered yet.   *)
PendingFor(k) == {n \in Interest : stage[n] = "pending" /\ KeyOf[n] = k}

(* generateDecryptionKeySegments, and face.put of the first segment: every   *)
(* pending Interest for the name is satisfied, and if there is none the      *)
(* segment is not sent.  "asking" is the request being handled, if any.      *)
MakeAs(name, key, version, asking) ==
  LET made == [name |-> name, key |-> key, policy |-> PrivateKeyFor(key),
               version |-> version, life |-> restarts]
      satisfied == PendingFor(name) \cup asking
  IN  /\ clock < MaxDkeys
      /\ segmentMap' = IF \E d \in segmentMap : d.name = name /\ d.version = version
                       THEN segmentMap ELSE segmentMap \cup {made}
      /\ stage' = [n \in Interest |-> IF n \in satisfied THEN "gone" ELSE stage[n]]
      /\ published' = IF satisfied = {} THEN published ELSE published \cup {<<made, 0>>}

(* Mutant: the version is that of a clock that has not gone on.              *)
MakesInOneInstant(name, key, asking) ==
  MakeAs(name, key, IF clock = 0 THEN 1 ELSE clock, asking) /\ clock' = clock + 1

(* Making a DKEY takes longer than the clock's resolution.                   *)
GenerateDecryptionKeySegments(name, key, asking) ==
  /\ PrivateKeyFor(key) \notin Unusable
  /\ MakeAs(name, key, clock + 1, asking)
  /\ clock' = clock + 1

(* Mutant: the identity is not looked up first.                              *)
ServesAnyone(n) ==
  /\ stage[n] = "unsent" /\ ~ FoundLocally(KeyOf[n])
  /\ certFetches' = certFetches \cup {n}
  /\ stage' = [stage EXCEPT ![n] = "pending"]
  /\ UNCHANGED <<tokens, knownKeys, segmentMap, published, clock, restarts, late, assembled>>

(* A first Interest arrives.  From an unregistered decryptor it is ignored;  *)
(* with a known certificate it is answered; else the certificate is fetched. *)
OnDecryptionKeyRequest(n) ==
  /\ stage[n] = "unsent"
  /\ \/ /\ Registered(KeyOf[n]) /\ FoundLocally(KeyOf[n])
        /\ GenerateDecryptionKeySegments(KeyOf[n], KeyOf[n], {n})
        /\ UNCHANGED certFetches
     \/ /\ ~ (Registered(KeyOf[n]) /\ FoundLocally(KeyOf[n]))
        /\ stage' = [stage EXCEPT ![n] = "pending"]
        /\ certFetches' = IF Registered(KeyOf[n]) THEN certFetches \cup {n} ELSE certFetches
        /\ UNCHANGED <<segmentMap, published, clock>>
  /\ UNCHANGED <<tokens, knownKeys, restarts, late, assembled>>

(* The lifetime of a request ends before it is answered.                     *)
Expire(n) ==
  /\ stage[n] = "pending"
  /\ stage' = [stage EXCEPT ![n] = "gone"]
  /\ UNCHANGED <<authority, published, clock, restarts, late, assembled>>

(* Mutant: the DKEY is named by whichever request is pending.                *)
AnswersAnother(n) ==
  /\ n \in certFetches /\ stage[n] = "pending"
  /\ certFetches' = certFetches \ {n}
  /\ \E m \in Interest :
       /\ stage[m] = "pending"
       /\ GenerateDecryptionKeySegments(KeyOf[m], KeyOf[n], {})
  /\ UNCHANGED <<tokens, knownKeys, restarts, late, assembled>>

(* The fetched certificate is validated.  The callback holds the request by  *)
(* reference: of one that has left the face it reads freed memory, which may *)
(* be untouched or hold another request by now.                              *)
OnCertificate(n) ==
  /\ n \in certFetches
  /\ certFetches' = certFetches \ {n}
  /\ \/ /\ stage[n] = "pending"
        /\ GenerateDecryptionKeySegments(KeyOf[n], KeyOf[n], {})
        /\ UNCHANGED late
     \/ /\ stage[n] = "gone"
        /\ \E name \in Key : GenerateDecryptionKeySegments(name, KeyOf[n], {})
        /\ late' = late \cup {n}
  /\ UNCHANGED <<tokens, knownKeys, restarts, assembled>>

(* For a policy that OpenABE cannot parse prvKeyGen throws out of the event  *)
(* loop, for a request or for its certificate: there is no DKEY.             *)
PrvKeyGenThrows(n) ==
  /\ Registered(KeyOf[n]) /\ PrivateKeyFor(KeyOf[n]) \in Unusable
  /\ \/ /\ stage[n] = "unsent" /\ FoundLocally(KeyOf[n])
        /\ stage' = [stage EXCEPT ![n] = "pending"]
        /\ UNCHANGED certFetches
     \/ /\ n \in certFetches
        /\ certFetches' = certFetches \ {n}
        /\ UNCHANGED stage
  /\ UNCHANGED <<tokens, knownKeys, segmentMap, published, clock, restarts, late, assembled>>

(* Nack, time out or a failed validation: logged.                            *)
OnCertificateFailure(n) ==
  /\ n \in certFetches
  /\ certFetches' = certFetches \ {n}
  /\ UNCHANGED <<tokens, knownKeys, segmentMap, network, clock, restarts, late, assembled>>

(* A decryptor asks for a further segment of the DKEY whose first it has.    *)
OnSegmentRequest(k, s) ==
  /\ assembled[k][0] # NoDkey /\ Registered(k)
  /\ \E d \in segmentMap :
       /\ d.name = k /\ d.version = assembled[k][0].version
       /\ published' = published \cup {<<d, s>>}
  /\ UNCHANGED <<authority, stage, clock, restarts, late, assembled>>

(* The authority's process ends and another one starts, with a master key of *)
(* its own.                                                                  *)
Restart ==
  /\ restarts < MaxRestarts
  /\ restarts' = restarts + 1
  /\ Fresh
  /\ stage' = [n \in Interest |-> IF stage[n] = "pending" THEN "gone" ELSE stage[n]]
  /\ UNCHANGED <<published, clock, late, assembled>>
-----------------------------------------------------------------------------
(* The DKEYs of which a segment has been sent.                               *)
Sent == {p[1] : p \in published}

(* SegmentFetcher: the first segment to arrive fixes the version.            *)
ReceiveFirst(k) ==
  /\ assembled[k][0] = NoDkey
  /\ \E d \in Sent :
       /\ <<d, 0>> \in published /\ d.name = k
       /\ assembled' = [assembled EXCEPT ![k] = [Nothing EXCEPT ![0] = d]]
  /\ UNCHANGED <<authority, network, clock, restarts, late>>

Receive(k, s) ==
  /\ assembled[k][0] # NoDkey /\ assembled[k][s] = NoDkey
  /\ \E d \in Sent :
       /\ <<d, s>> \in published
       /\ d.name = k /\ d.version = assembled[k][0].version
       /\ assembled' = [assembled EXCEPT ![k][s] = d]
  /\ UNCHANGED <<authority, network, clock, restarts, late>>

(* The fetch fails, or is over, and the decryptor may start another.         *)
EndFetch(k) ==
  /\ assembled[k][0] # NoDkey
  /\ assembled' = [assembled EXCEPT ![k] = Nothing]
  /\ UNCHANGED <<authority, network, clock, restarts, late>>

Next ==
  \/ \E i \in Identity, policy \in Policy : AddNewPolicy(i, policy)
  \/ \E n \in Interest :
       \/ OnDecryptionKeyRequest(n) \/ PrvKeyGenThrows(n) \/ Expire(n)
       \/ OnCertificate(n) \/ OnCertificateFailure(n)
  \/ \E k \in Key :
       \/ ReceiveFirst(k) \/ EndFetch(k)
       \/ \E s \in Segment \ {0} : OnSegmentRequest(k, s) \/ Receive(k, s)
  \/ Restart

Spec == Init /\ [][Next]_vars
-----------------------------------------------------------------------------
(* Every variable keeps its type.                                            *)
TypeOK ==
  /\ tokens \in [Identity -> Policy \cup {Unset}]
  /\ knownKeys \subseteq Key
  /\ segmentMap \subseteq Dkey
  /\ stage \in [Interest -> {"unsent", "pending", "gone"}]
  /\ certFetches \subseteq Interest
  /\ clock \in Nat /\ restarts \in Nat /\ late \subseteq Interest
  /\ published \subseteq Dkey \X Segment
  /\ assembled \in [Key -> [Segment -> Dkey \cup {NoDkey}]]

(* A registration checked when a request arrives still stands when the       *)
(* certificate does: m_tokens.at does not throw out of the event loop.       *)
TokenAwaitsCert == \A n \in certFetches : Registered(KeyOf[n])

(* A decryptor never joins segments of two DKEYs, though requests interleave *)
(* and the authority may restart between the segments.                       *)
AssembledWhole ==
  \A k \in Key, s \in Segment :
    assembled[k][s] # NoDkey => assembled[k][s] = assembled[k][0]

(* "/AA-prefix/DKEY/<key name block>/<version>/<segment>"                    *)
(* (attribute-authority.cpp:80): the name of a DKEY, by which decryptors get *)
(* it, is that of the key it is encrypted to.                                *)
NamedByItsKey ==
  /\ \A d \in segmentMap : d.name = d.key
  /\ \A k \in Key : assembled[k][0] # NoDkey => assembled[k][0].key = k

(* So it is as long as no certificate comes after its request has left the   *)
(* face: restarts, overlapping requests and requests answered together do no *)
(* harm to names.                                                            *)
NamedUnlessLate == late = {} => NamedByItsKey

Grants == INSTANCE KeyGrant
  WITH life <- restarts, grants <- tokens,
       made <- {<<d.life, d.key, d.policy>> : d \in Sent}

(* The authority implements KeyGrant: a DKEY is made for a registered        *)
(* decryptor, for its first policy, to a key of its own.                     *)
ImplementsKeyGrant == Grants!Spec

(* A decryptor that registers, asks and asks again, over restarts and over   *)
(* certificates that take their time, never gets DKEYs of one master key for *)
(* two policies, which it could use together.                                *)
OneGrantPerLife == Grants!OneGrantPerLife

(* The inductive invariant: versions tell DKEYs apart, and a decryptor has   *)
(* segments of one version only.                                             *)
SentInv ==
  /\ \A d \in segmentMap \cup Sent : d.version <= clock
  /\ \A d, e \in segmentMap \cup Sent : d.version = e.version => d = e
  /\ \A k \in Key, s \in Segment :
       assembled[k][s] # NoDkey =>
         /\ {assembled[k][s], assembled[k][0]} \subseteq Sent
         /\ assembled[k][s].version = assembled[k][0].version

IInv == TypeOK /\ TokenAwaitsCert /\ SentInv

(* What a DKEY of this life was made for is what its owner is registered for.*)
GrantInv ==
  /\ \A d \in segmentMap : d.life = restarts
  /\ \A d \in segmentMap \cup Sent :
       d.life <= restarts /\ (d.life = restarts => d.policy = tokens[OwnerOf[d.key]])

(* As long as certificates come in time, names are those of the keys.        *)
NameInv ==
  /\ \A d \in segmentMap \cup Sent : d.name = d.key
  /\ \A k \in Key : assembled[k][0] # NoDkey => assembled[k][0].name = k
=============================================================================
