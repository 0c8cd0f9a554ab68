----------------------------- MODULE AbeSupport -----------------------------
(***************************************************************************)
(* ABESupport (algo/abe-support.cpp), which stands between the library and *)
(* OpenABE, and the values it passes around, taken symbolically: a key or  *)
(* a ciphertext is what it was made from, and opens as OpenABE promises.   *)
(* There is one ABESupport in a process, with one map of the content keys  *)
(* decrypted so far.                                                       *)
(***************************************************************************)
CONSTANTS
  Process,     \* the processes that decrypt
  Life,        \* the setups made, one in each life of the attribute authority
  Grant,       \* what private keys are made for: attributes (CP-ABE) or a policy (KP-ABE)
  Rule,        \* what content keys are made for: a policy (CP-ABE) or attributes (KP-ABE)
  Unusable,    \* the grants and rules that OpenABE cannot parse
  Satisfies,   \* the rules each grant satisfies
  Random,      \* random AES keys
  Plaintext,   \* contents
  NacAlgoError,
  Garbled,     \* what is left when segments of two objects are joined
  Garbage      \* what a wrong AES key may make of a ciphertext

VARIABLE decryptedContentKeyMap   \* m_decryptedContentKeyMap of each process

(* init makes the public parameters and the master key of one setup, and     *)
(* both are known here by the life of the authority that made them.          *)
PrivateKey == [life : Life, grant : Grant]

(* The encrypted AES key is all of these, sealed by the parameters.          *)
ContentKey == [aes : Random, life : Life, rule : Rule]

Ciphertext == [aes : Random, plaintext : Plaintext]

(* prvKeyGen *)
PrvKeyGen(life, grant) ==
  IF grant \in Unusable THEN NacAlgoError ELSE [life |-> life, grant |-> grant]

(* contentKeyGen *)
ContentKeyGen(params, rule, aes) ==
  IF rule \in Unusable THEN NacAlgoError
  ELSE [aes |-> aes, life |-> params, rule |-> rule]

(* encrypt *)
Encrypt(key, plaintext) == [aes |-> key.aes, plaintext |-> plaintext]

(* OpenABE's context.decrypt, in a context of its own for every call: the    *)
(* parameters, the private key and the content key must be of one setup.     *)
Opens(params, prv, key) ==
  /\ key \in ContentKey
  /\ params = key.life /\ prv.life = key.life
  /\ key.rule \in Satisfies[prv.grant]

(* OpenABESymKeyEnc does not authenticate: a wrong key may go unnoticed.     *)
AesDecrypt(aes, cipher) ==
  IF cipher # Garbled /\ cipher.aes = aes THEN {cipher.plaintext}
  ELSE {NacAlgoError, Garbage}

(* decrypt: a content key found in the map needs no private key.             *)
Decrypts(process, params, prv, key) ==
  key \in decryptedContentKeyMap[process] \/ Opens(params, prv, key)

Results(process, params, prv, key, cipher) ==
  IF Decrypts(process, params, prv, key) THEN AesDecrypt(key.aes, cipher) ELSE {NacAlgoError}

Decrypt(process, params, prv, key) ==
  decryptedContentKeyMap' =
    [decryptedContentKeyMap EXCEPT
       ![process] = IF Decrypts(process, params, prv, key) THEN @ \cup {key} ELSE @]

ClearCachedContentKeys(process) ==
  /\ decryptedContentKeyMap[process] # {}
  /\ decryptedContentKeyMap' = [decryptedContentKeyMap EXCEPT ![process] = {}]
=============================================================================
