------------------------------ MODULE KeyGrant ------------------------------
(***************************************************************************)
(* What an attribute authority promises: a decryption key is made for the  *)
(* key of a registered decryptor, for what the decryptor was granted first *)
(* and with the authority's master key; a grant does not change while the  *)
(* authority lives.  Keys outlive the authority that made them.            *)
(***************************************************************************)
EXTENDS Naturals

CONSTANTS
  Identity,        \* decryptors
  Key, OwnerOf,    \* their RSA keys, and the identity in each key's name
  Policy, Unset    \* attribute lists or policies

VARIABLES
  life,            \* the authority's life, which stands for its master key
  grants,          \* what each identity is registered for
  made             \* the decryption keys given out: <<life, RSA key, policy>>

Init == life = 0 /\ grants = [i \in Identity |-> Unset] /\ made = {}

GrantTo(i, policy) ==
  /\ grants[i] = Unset
  /\ grants' = [grants EXCEPT ![i] = policy]
  /\ UNCHANGED <<life, made>>

Make(k) ==
  /\ grants[OwnerOf[k]] # Unset
  /\ made' = made \cup {<<life, k, grants[OwnerOf[k]]>>}
  /\ UNCHANGED <<life, grants>>

(* The authority's process ends, and another one starts.                    *)
Restart ==
  /\ life' = life + 1
  /\ grants' = [i \in Identity |-> Unset]
  /\ UNCHANGED made

Next ==
  \/ \E i \in Identity, policy \in Policy : GrantTo(i, policy)
  \/ \E k \in Key : Make(k)
  \/ Restart

Spec == Init /\ [][Next]_<<life, grants, made>>

(* Two decryption keys of one master key for one decryptor are for the same  *)
(* grant: nobody holds a combination of attributes that was not registered   *)
(* together.                                                                 *)
OneGrantPerLife ==
  \A m, n \in made :
    m[1] = n[1] /\ OwnerOf[m[2]] = OwnerOf[n[2]] => m[3] = n[3]
=============================================================================
