# NAC-ABE: a TLA+ development

NAC-ABE is a C++ library for access control over Named Data Networking: data is
encrypted under an AES key, the AES key under an attribute-based content key (CK),
and whoever holds a decryption key (DKEY) that satisfies the CK's policy can read
the data. This directory models the library's protocol machines in TLA+, checks
them with TLC on small instances and proves the most important results with TLAPS
for instances of any size.

Line references are to the repository (`src/` is its library, `src/README.md` in
`PROJECT.json` the repository's own README).

## 1. The system

### Components, their state and operations

| Component | State | Operations and callbacks |
|---|---|---|
| `ParamFetcher` (`src/param-fetcher.cpp`) | `m_abeType`, `m_pubParamsCache`, `m_retryCount` | `fetchPublicParams`, answer, nack, time out, validation success and failure |
| `Consumer` (`src/consumer.cpp`) | `m_keyCache`, `m_ckEncAesCache`, `m_ckInterestsSent`, `m_pendingCallbacks`, a `ParamFetcher` | `obtainDecryptionKey`, three forms of `consume`, `decryptContent`, completion and error of each fetch, `onCkeyData` |
| `ABESupport` (`src/algo/abe-support.cpp`) | one per process: `m_decryptedContentKeyMap`, the OpenABE contexts | key generation, encryption, `decrypt`, `clearCachedContentKeys` |
| `Producer` (`src/producer.cpp`) | `m_policies`, `m_attributes`, the owner's certificate, a `ParamFetcher` | `produce` with a policy, with attributes, or by the rule commanded for the name; `onPolicyInterest` |
| `CacheProducer` (`src/cache-producer.cpp`) | `m_cpKeyCache`, `m_kpKeyCache` | `produce` with a reused CK, `clearCache` |
| `DataOwner` (`src/data-owner.cpp`) | none of its own; the face holds what is pending | `commandProducerPolicy`, its reply, nack and time out |
| `AttributeAuthority`, `Cp...`, `Kp...` (`src/attribute-authority.cpp`) | `m_pubParams`, `m_masterKey`, `m_tokens`, `m_segmentMap`, a `TrustConfig` | `addNewPolicy`, `onDecryptionKeyRequest`, `onPublicParamsRequest` |
| `TrustConfig` (`src/trust-config.cpp`) | `m_knownKeys` | add, look up, fetch a certificate from the network |
| `ndn-crypto`, value types, `json-helper` | none | stateless transformations |

### Interactions

All components of a process share one event loop (`Face::processEvents`). A
handler runs to its end before the next one starts; what interleaves is the
*order* of the handlers, and application code that a handler calls back in the
middle of its work. Between processes there are Interests and Data.

* A Consumer and a Producer each fetch the authority's public parameters in their
  constructor, through a `ParamFetcher`.
* A Consumer fetches its DKEY from the authority, then data and CKs from producers,
  each with an ndn-cxx `SegmentFetcher`. Requests for one CK share one fetch; when it
  ends, the handler walks over the waiters and calls each one's callback.
* All Consumers of a process share `ABESupport`, and with it the map of CKs that
  have been decrypted before.
* A data owner sends a Producer signed commands that set the rule for a prefix; the
  Producer looks the rule up when it produces data.

### What is hard

* **Callbacks in the middle of a loop.** An `onSuccess` or `onError` callback may call
  `consume` again, or throw, while `m_pendingCallbacks[ck]` is being walked.
* **Partial failure.** An exception leaves a handler between two updates: which of
  queue, in-flight mark and cache has been changed then?
* **State read at one time and used at another.** The readiness check is made when a
  request is made, the key is used when its CK arrives.
* **Retries and late messages.** A counter that limits retries is reset by an answer
  that may be forged; a command may be acted on after its Interest has timed out, or twice.
* **Replies nobody verifies.** A data owner takes any Data of a command's name for the Producer's reply.
* **A request that outlives its answer.** The authority fetches a certificate while a DKEY request
  waits, and refers to the request when the certificate comes.
* **State shared between objects.** The process-wide map of decrypted CKs.
* **Two lives of an authority.** A restart makes new parameters and a new master key, while the old parameters,
  DKEYs and CKs live on in Consumers, producers and network caches.
* **Names without versions.** What is produced twice under one name, and CKs whose random words agree, can be
  taken for each other, or be joined segment by segment.

`PROJECT.json` lists these hazards line by line with the properties that catch them.

### What makes each component correct

* `ParamFetcher`: type and parameters come from one validated answer; a bounded number
  of Interests; the fetch ends in parameters or an exception.
* `Consumer`: each request is answered once, by one callback; one fetch per CK; no
  request is dropped or waits for nothing; nothing is decrypted without a key.
* `Producer`: one entry per prefix, the longest commanded prefix decides, a CK is used
  for the rule it was encrypted under.
* `DataOwner` with `Producer`: the Producer's own answer is true; the rule in force is that of the last
  command acted on; a careful owner knows the rule in force, and the rule the Producer finds
  for a name, unless a command for it was repeated or answered by somebody else.
* `AttributeAuthority`: a DKEY is made for a registered identity, for the policy
  registered, encrypted to a key of that identity and named by that key; under one master key an
  identity gets one policy; a decryptor never joins segments of two DKEYs.
* All of them together: what a Consumer is given was produced under a name it asked for, and a decryptor of its
  process was granted access to it by the authority it was protected with; whoever was granted access
  is refused only for a reason that can be named.

## 2. The modules

| Module | Models | Kind |
|---|---|---|
| `PublicParams` | what a `ParamFetcher` promises its holder | abstract specification |
| `ParamFetcher` | `src/param-fetcher.cpp`, any number of holders | component |
| `ConsumeOnce` | what `consume` promises an application | abstract specification |
| `Consumer` | `src/consumer.cpp` and the decrypted-key map of `src/algo/abe-support.cpp` | component |
| `PolicyTable` | a map from prefixes to rules | abstract specification |
| `Producer` | `src/producer.cpp`, `src/cache-producer.cpp` | component |
| `PolicyCommand` | `src/data-owner.cpp`, the network, and `Producer` (extended) | composition |
| `KeyGrant` | what an attribute authority promises | abstract specification |
| `AttributeAuthority` | `src/attribute-authority.cpp`, `src/trust-config.cpp`, and the decryptors that fetch DKEYs | component |
| `GuardedStore` | what the library promises as a whole | abstract specification |
| `AbeSupport` | `src/algo/abe-support.cpp` and the values it passes around, symbolically | part of `NacAbe` |
| `NacAbe` | authority, producer and Consumers end to end, over `KeyGrant` and `AbeSupport` | composition |
| `...Proofs` | theorems about the module of that name | proofs |
| `MC...` | small instances for TLC | model checking |

Definitions marked `Mutant:` next to the one they alter are plausible mistakes. Each
property has one; replacing the definition by its mutant makes TLC refute the property.
They take no part in any specification.

### ParamFetcher

Each holder's fetch is `unborn` (its constructor has not run), `expressed`,
`validating` (the validator has the answer) or `idle`. `FetchPublicParams` is the
function of that name, called by `Construct` and by `OnNackOrTimeout`; `OnData` resets the
counter and hands the answer to the validator (`onAttributePubParams` up to `validate`);
`OnValidated` and `OnValidationFailure` are its two lambdas. `thrown` stands for the
exception that leaves `processEvents`, `attempts` counts Interests and is history.
The answer a fetcher is given may be any element of `Pub`, forged or not; the validator
accepts or refuses any of them.

### Consumer

One action per entry point and per completion, all of a handler's effects in it. The
three parts of `decryptContent` (lines 205 to 277) are `CkCached`, `CkInFlight` and
`CkFetchStarts`, named after its comments. The exception to "a handler is a step" is the
walk over the waiters: `CkComplete` and `CkError` only start it, `NotifyData`,
`NotifyError` and `ReadFreedTask` make one callback each, and `FinishFanout` erases the
queue and the mark. Between two of them the application may act (`AppMayCall`), but no
other handler runs (`LoopIsFree`). The loop is a range-based one, so it walks over the
vector as it was at the start (`last`); if a callback pushes onto that vector it may be
reallocated, and the rest of the walk reads freed tasks (`moved`, `ReadFreedTask`): undefined
behaviour, modelled as the two outcomes a build produces: an empty callback that is
skipped by the test before the call, or a stale one that is still called.

`Trouble` names what an environment may do wrong, so that each run says under which
assumptions its properties hold: callbacks that throw (`successThrows`, `errorThrows`),
an `onError` callback that calls `consume(name, block)` (`reenterOnError`), data that is no
encrypted content (`badContent`), content that does not decrypt under its own CK (`badCipher`), CK objects without an encrypted key (`badCk`).
Re-entrance from `onSuccess`, and through the two other forms of `consume`, is always
allowed.

`Opens[d]` is the set of CKs whose policy the key `d` satisfies: what OpenABE computes.
`Decrypts` is `ABESupport::decrypt`, which asks `decryptedContentKeyMap` first.
`DecryptedElsewhere` stands for the other Consumers of the process.

### Producer

`policies` and `attributes` are the vectors, a sequence of entries each; `AddNew` is
`addNewPolicy` and `addNewAttributes`, `Best` the loop of `findMatchedPolicy` and
`findMatchedAttributes` after `i` entries. `ProduceUnder` makes or reuses a CK;
`CkDataGen` gives a fresh one its rule. A rule is a model value, an empty policy or
attribute list is `NoRule`: it may be commanded, but `produce` is not called with it (an
empty attribute list is undefined behaviour in `src/algo/abe-support.cpp:62`).
`LearnPublicParams` is what `ParamFetcher` does to its holder, as `PublicParams` states it.

The branch of `onPolicyInterest` that asks the validator (lines 328 to 339) cannot be
reached: the constructor that sets the filter has stored the owner's certificate.
A command whose signature that certificate does not verify is refused without a change
of state; it is no action.

### PolicyCommand

Each call of `commandProducerPolicy` is a command of its own. `interests` and `replies`
are sets of what is on its way, so nothing is ordered; both can be lost. A nack means that the
Interest was turned back, so it removes it. A time out may come at any moment while the
command is open, also when the Interest or the reply is still on its way. A reply to an
Interest the face has given up is dropped. The owner may command whenever it likes; `patient` records
whether it has so far sent a command only after the last one was answered and none timed out.

Neither side knows more about a message than the code does:

* The Producer verifies the signature of a command (`src/producer.cpp:322`), and looks at no nonce, time or sequence
  number, so an Interest that is delivered once more is acted on once more; the repository's
  own test expresses one twice (`tests/unit-tests/producer.t.cpp` 116 and 140). `RepeatInterest` puts a command that was sent on its
  way again, while the first is, or after it was delivered, lost or nacked; `repeated` records it.
* The owner matches a reply by name and looks at its content, and verifies no signature, although the callback is called
  `validationCallback` (`src/data-owner.cpp` 55 to 70). `AnotherReplies` concludes an open command by
  anybody's Data, with any content; `byOthers` records it. `DeliverReply` is the same callback with what the Producer sent.

The properties name these two causes instead of assuming them away: `AnswersAreTrue` is about answers that are not by
others, `AckedInForce` allows for the rule of a command that was repeated or answered by others, for its own prefix only, and
`OwnerKnowsMatch` holds for the names none of whose prefixes has such a command.

### AttributeAuthority

The two subclasses differ in what a policy is (a list of attributes or a policy string) and in
nothing the model tells apart, so `Policy` stands for both and `tokens` for both `m_tokens`.
A member of `Interest` is one first Interest of a DKEY fetch, and `KeyOf` the key it names: it is
`unsent`, `pending` in the authority's face, or `gone` (satisfied, expired, or lost with the process).
`OnDecryptionKeyRequest` is the handler together with the look-up in `m_tokens` its caller makes.
A pending Interest is never looked at again unless its certificate is being fetched
(`certFetches`) or `face.put` of a segment for the same name satisfies it: that is what
`satisfied` in `MakeAs` computes. A `Dkey` records the key in its name and the key it is encrypted
to apart, because `OnCertificate` takes the first from the request, which the callback holds by
reference (line 108), and the second from the certificate. If the request has left the face by
then, the name is read from freed memory: it may be untouched, hold another request, or make the
process crash, which is `Restart`. `late` records the requests whose
certificate came too late.

A version is the time at which the DKEY is made (`appendVersion`), so `clock` advances with each;
`life` tells the lives of the authority apart, each of which has a master key of its own. What has been
sent (`published`) may be delivered at any time, also by a cache after the authority has forgotten it.
`ReceiveFirst`, `Receive`, `EndFetch` and the guard of `OnSegmentRequest` are ndn-cxx's `SegmentFetcher` on
the decryptor's side. A validated answer is taken to be a certificate of the key asked for: otherwise the
constructor of `Certificate` throws or the answer is refused, which is `OnCertificateFailure`. (The header says
of a decryptor added by name only that the authority "will throw an error when the decryptor asks for
the key", `src/attribute-authority.hpp:102`; the code fetches its certificate, and so does the model.)

A policy that OpenABE cannot parse (`Unusable`; the empty attribute list is another one, for which `pop_back` of an
empty string is undefined) is accepted by `addNewPolicy`. `prvKeyGen` throws for it when a DKEY is asked for, out of the
handler or out of the certificate's callback: `PrvKeyGenThrows`.

### AbeSupport and NacAbe

`AbeSupport` has one operator for each function of `ABESupport` and one for what they pass on. A private key is
what it was made from, a setup and a grant; an encrypted content key is its AES key, the setup and the rule. `Opens` says when
OpenABE decrypts one with the other, `AesDecrypt` what a wrong AES key does: `OpenABESymKeyEnc` does not authenticate, so
the result is an exception or `Garbage`. The CP and KP variants of each function differ in the string they
make of a rule or a grant, and the model in nothing. `decryptedContentKeyMap` is one map per process.

`NacAbe` puts the library together, each part taken by what the other modules show of it. The authority is
`KeyGrant` (an instance), which `AttributeAuthority` implements; a Consumer object learns parameters once, as in
`PublicParams`; requests wait together for a CK and are answered together, as in `Consumer`. So the actions are larger
than handlers' steps: `DataComplete` is a `consume` whose data has been fetched, `CkComplete` and `CkError` the end of the
fetch of a CK with its fan-out, `ObtainDecryptionKey` a fetch of a DKEY with its decryption in the TPM. What the callbacks of
a fan-out may do is the subject of `Consumer`, and how a DKEY comes under a wrong name that of
`AttributeAuthority`; here any DKEY ever sent may be delivered to anyone.

* `life` numbers the authority's lives. `RestartAuthority` gives it new parameters and a new master key, which are known by
  the number; `PublicParamsData` is what `onPublicParamsRequest` sends, or the network still has. `granted` is history.
* `NewProducer` and `NewConsumer` put a new object in the place of an old one: the only way to fetch parameters again.
* A CK's name is its random word and its rule (`CkName`); data is known by its name, the number of its production and its
  CK. `Fetched` is what an Interest with `CanBePrefix` may bring: data of that name or a name below it (`Under`), or `Garbled`,
  segments of two productions of one name joined. `FetchedKeys` is the same for a CK. A joined object is taken to parse:
  one that does not is `DataMalformed` or `CkMalformed` of module `Consumer`.
* `processOf` places Consumers in processes. `answered` holds what the last step decrypted or could not, and for whom.

## 3. What the runs check

| Run | Question | Answer |
|---|---|---|
| `param_fetcher` | Does a fetcher keep its promise under nacks, time outs, forged answers and unsupported types? | yes; refines `PublicParams`, no answer starts it over, always ends |
| `consumer` | Is every request answered exactly once if nothing goes wrong, whatever the order of fetches, keys and re-entrant calls? | yes; a request is always where something will reach it; refines `ConsumeOnce`, liveness included |
| `consumer_trouble` | What survives everything `Trouble` lists? | one fetch per CK; no request is answered twice (but that an `onSuccess` that throws is followed by `onError`); nothing is decrypted that no key of the process opens; every walk ends |
| `consumer_bad_ck` | Are waiters told if a CK object is malformed? | no: see finding 1 |
| `consumer_reenter` | Are all waiters told of an error? | not if an `onError` callback calls `consume(name, block)`: finding 2 |
| `consumer_shared_keys` | Does a Consumer decrypt only what its own key opens? | no, the map is the process's: finding 3 |
| `producer` | Is the table a map, does the longest prefix win, is a CK used for its rule only? | yes; refines `PolicyTable` |
| `producer_root` | Is a rule for the root prefix found? | no: finding 4 |
| `policy_command` | Over a network that repeats Interests and lets others reply: are the Producer's answers true, does the table follow the commands acted on, does each command end? Does an owner that waits for each answer know the rule in force, and the one a name gets? | yes; up to the command in doubt and those repeated or answered by others, and in full for a name that has none |
| `authority` | Requests, registrations, certificates and a restart interleaved: is each DKEY one grant's, and does no decryptor mix two, be it their policies or their segments? | yes; refines `KeyGrant`; a DKEY is named by the key it is encrypted to until a certificate comes late |
| `authority_late` | Is a DKEY named by the key it is encrypted to, however late certificates come? | no: finding 5 |
| `nac_abe` | With restarts, reused names and shared processes: who reads what, and when does a decryptor that was granted access not read? | refines `GuardedStore`; a name has one content key in a cache; garbage and refusals have the causes `GarbageHasCause` and `RefusalHasCause` list |

### Bounds, and why they are enough

* `MCParamFetcher`: two holders (their fetchers share nothing, two show it), three answers
  (one per supported type and an unsupported one), the code's own limit of 10 retries.
* `MCConsumer`: four requests, three of them for one CK, so that a request can join before,
  during and after a fetch or a walk and a re-entrant one can join behind two waiters; a
  second CK whose fetch and walk interleave with the first's; two keys, one of which opens
  the shared CK and neither the other, so that keys fail, change and replace each other.
  `MaxDkeyFetches` = 1 bounds the key fetches in flight at one time, not their number.
* `MCProducer`: the root, a prefix and a longer one below it; names below both, below one and
  below neither; two rules and the empty one; two CKs, so that the third key asked for must
  come from a cache or not at all. Commands are not bounded.
* `MCPolicyCommand`: three commands, two for one prefix with different rules, one for a longer
  prefix: two can overtake each other while a third is open. One of them is repeated or answered by others
  (`MaxDisturbances`). No content keys, so nothing is produced: what is produced has no effect on commands, and is
  checked by `producer`.

* `MCAttributeAuthority`: two decryptors with a key each, one of which makes two requests, so that
  requests for one name and for two names overlap; two policies that can be used, so that a registration can be
  repeated with the other one and DKEYs differ, and one that cannot; two segments, so that a DKEY can be mixed; one restart (`MaxRestarts`), so that the
  segments before and after it can meet. Every request makes at most one DKEY, so
  `MaxDkeys` = 3 cuts nothing off.

* `MCNacAbe`: two Consumers, in one process or in two (`Placement`); one grant, a rule that satisfies it, one that does not and one
  OpenABE refuses; a name and another one below it, requests for the first (`Asked`); two productions (`MaxMade`), so that two pieces of data share
  a name or a CK, or two CKs do with the only word there is; two waiters in a Consumer (`MaxWaiters`), so that a
  fan-out answers two at once; one restart (`MaxRestarts`). `MaxSpread` bounds restarts and registered Consumers taken
  together, 2: both are registered in one life, or one is and the authority restarts, before or after. The theorems do away with
  every one of these bounds.

`MCAttributeAuthority` uses the symmetry of the two Interests for one key and that of the two usable policies, `MCNacAbe` that of the two Consumers, and both
check safety only. No other run uses symmetry, and none a state constraint. `CHECK_DEADLOCK FALSE` is given, with the reason in the
configuration file, because an application need not call anything again and an authority need not be asked.

### Fairness, and why the code justifies it

* `ParamFetcher`: the face ends each Interest in an answer, a nack or, by its lifetime, a
  time out; the validator calls exactly one of its two callbacks.
* `Consumer`: a `SegmentFetcher` ends each fetch in `onComplete` or `onError`; a walk is a loop of
  the running handler, so it goes on. Nothing is assumed of the application, and nothing of
  the key fetch.
* `PolicyCommand`: the face times out each Interest it has expressed. Delivery is not assumed.
* `AttributeAuthority`, `NacAbe`: none; nothing obliges anybody to ask.

## 4. Findings

1. **Malformed CK objects strand their waiters.** `onCkeyData` reads the encrypted AES key
   (`src/consumer.cpp:286` to 290) outside of the `try` that begins below it. A validated CK
   object without that element throws out of the completion handler before the queue and the
   in-flight mark are erased. Nobody is told, and every later request for that CK queues
   behind a fetch that will never end. The comment at line 255 says "Fan-out to all waiters
   for this CK".
2. **The error broadcast can lose a request.** While it runs (`src/consumer.cpp:267` to 275) the
   CK is still marked in flight, so a request made by an `onError` callback is pushed onto the
   vector under the loop and erased with it; a reallocation makes the rest of the loop read
   freed memory. The comment says "Broadcast error to all waiters".
3. **Keys are cached per process, not per Consumer.** A Consumer whose DKEY does not satisfy
   a policy is handed the CK if another one of the process has opened it
   (`src/algo/abe-support.cpp:249`), while the README says "CK can only be decrypted when the
   attributes (DKEY) can satisfy the EKEY" (line 139).
4. **A rule for the root prefix is never found.** It is stored and acknowledged, but
   `prefix.size() > maxMatchedComponents` with a start of 0 (`src/producer.cpp:267`) rules it out.
5. **A late certificate names the DKEY by freed memory.** The callback of `findCertificateFromNetwork`
   captures `request` by reference (`src/attribute-authority.cpp:108`). A request leaves the face when it expires
   and also when a DKEY made for another request of the same decryptor satisfies it, so the name of
   the DKEY (comment at line 80) can be that of another decryptor's key.

## 5. What is proved

All theorems hold for every value of the constants that satisfies the named assumptions,
which TLC evaluates on every run. The assumptions are typing facts: functions have their
domains, "none" values are not elements (`ParamFetcherAssumption`, `ConsumerAssumption`,
`FanoutAssumption`, `ProducerAssumption`, `PolicyCommandAssumption`, `AuthorityAssumption`,
`DkeyAssumption`, `NacAbeAssumption`), and `MaxRetries` is positive.

### ParamFetcherProofs

`IInv` = the type invariant, the three safety invariants and `FetchInv`. None of them is inductive
alone: `RetryBudget` needs that until an answer arrives the attempts equal the counter, and
`NoSilentFailure` that an unfinished fetch has neither result nor exception. From it:
`TypeCorrect`, `ParamsTypeAgree`, `BudgetKept`, `FailuresAreThrown`, and `Refinement`, by which a
validation is `Learn` or `Reject` and every other step stutters. `FetchesAdvance` is what can be proved of
the liveness property `Settles`: `StepsLeft` is a natural number by the same invariant, every step lowers
that of one holder and keeps those of the others, so that fairness is all that a fetch needs to end.

### ConsumerProofs

The invariant is built in layers, because each result needs a different assumption about
the environment, which its theorem states as a hypothesis on `Trouble`:

* `MarkInv` (any environment): a fetch or a walk holds its CK's mark, and only marked CKs have
  waiters. Gives `TypeCorrect`, `FetchesDeduplicated`.
* `WaitInv` = `UntoldInv` and `QueueInv` (any environment): a request waits in one place and is
  untold while something will reach it. Gives `AnsweredOnce`, and `OnceSafe`, the safety half of
  `ImplementsConsumeOnce`, if no `onSuccess` throws.
* `NoWaiterStranded` is inductive with `MarkInv` if no CK is malformed and no `onError` throws
  (`NobodyStranded`): finding 1 and throwing callbacks are the only ways to strand a waiter.
* `VisitedInv` (no `onError` callback calls `consume(name, block)`): who the walk has passed has been
  told, and nobody joined behind it. Gives `NobodyDropped`: finding 2 is the only way.
* `KeyInv` (any environment): nothing is being decrypted before a key is held. Gives
  `ConfinedToProcess`: finding 3 reaches no further than the process. With it `SameKeysSafe`: the property
  finding 3 refutes holds where all keys of the process open the same CKs, so it takes two keys that differ.

Two theorems speak of what liveness rests on. `WalksEnd` (any environment): `WalkLeft` counts the steps a walk
has still to make; no callback raises it, though it may add to the queue under the walk, and every step of the walk
lowers it. `NobodyLost` (nothing goes wrong but that `onSuccess` callbacks throw): a request that has been made and not answered
is in a fetch of its data, or in a queue where a CK fetch or the rest of a walk will reach it. It is not inductive
alone: a walk that ends must have told everyone (`VisitedInv`), and a queue must have a fetch or a walk
(`NoWaiterStranded`), so it is proved together with both.

### ProducerProofs

`IInv` = types, `PrefixesUnique`, `DataUnderItsRule`. `LongestPrefixWins` says that the scan, over a table of any
length, yields the rule of the longest commanded prefix. `Best` is a recursive function over the table's
places, so its value is established by induction: `LeastNat` (a set of naturals that is not empty has a
least element, from the library's theorem on well-founded orders) takes the least place at
which a claim fails; `BestIsScan` shows so that the function has the value its equation gives,
and `ScanKeepsSeen` that after `i` entries it holds the longest match among those. `PrefixesUnique`
turns "an entry of that length" into "the rule in force". `Refinement` shows that a command
sets one prefix of `PolicyTable` and everything else stutters.

### PolicyCommandProofs

`CommandInv` ties each command that was not repeated to the one place it can be in: an Interest on its way has not been
acted on, a failure says that it was not; a success says for any command that it was. Gives `CommandTypeCorrect`, `AnswersTrue`. `TableFollows` is
proved from it and `ProducerProofs`' lemma on `AddNew`. `OwnerInv` (for a patient owner) adds that at most the last command is in
doubt, and of each prefix why it has its rule: it is that of the command in doubt, or that of the last command the Producer itself acknowledged, and then
no command in doubt for that prefix was acted on, or that of a command repeated or answered by others. A repeated or answered command moves only its own prefix
from one of these to another. It gives `AckedKnown`. `MatchKnown` joins that with
`ProducerProofs`' lemma on the scan: if nothing is in doubt, and no command for a prefix of the name is repeated or answered by others, the
prefixes with a rule are those with an acknowledged command, so the owner can tell the rule found. The proofs use no bound on
how many commands are repeated or answered. `ProducerWithin` shows that the composition
implements `ProducerSpec`, every step of it being one of `ProducerNext` or a stutter; `PromisesKept` takes over from there what
was proved of a Producer alone, `ImplementsPolicyTable` included.

### AttributeAuthorityProofs

`IInv` = the type invariant, `TokenAwaitsCert` and `SentInv`. `TokensAwait` needs nothing but the types: registrations are only
ever added, except at a restart, which forgets the fetches as well. `NothingMixed` needs `SentInv`:
no two DKEYs share a version, across restarts too, so segments of one version are of one DKEY. The
lemma `Making` states once what making a DKEY does to all three, for the handler and for the
callback. `NamesKept` adds `NameInv`, which is inductive as long as `late` is empty: a late certificate (finding 5) is the
only way to a false name. `Refinement` shows that only a first registration is a `GrantTo` (`m_tokens.insert` keeps an older entry, so a repeated one stutters),
that a DKEY is made, in the sense of `KeyGrant`, when its first segment is sent, and that this is a `Make` for the certificate's owner; it needs `TokenAwaitsCert`.
What was made stays made over a restart, as the network and the decryptors keep it: the mapping takes `made` from all that was
ever sent, with the life it was sent in.

`GrantedOnce` adds `GrantInv`, that the DKEYs of this life are for the registered policies and no DKEY is of a life to come,
and `OneInv`, that two DKEYs of one life and identity agree. It needs the refused overwriting of `m_tokens`: with
`insert_or_assign` a decryptor could collect keys for two policies and use them together.

### NacAbeProofs

`IInv` = the type invariant and four parts. `GrantInv`: a decryptor has one grant in each life, and every DKEY sent or held is for
a grant of the one it is sealed to. `FreshInv`: AES keys tell CKs apart. `FetchInv`: what is cached was made under that name and what waits
was produced under a name asked for, or each mixes two of one name. `MapInv`: of every content key in a process's map, some decryptor of the
process was granted access to it. None of the three properties is inductive, since they speak of the last step only: `ResultExplained` shows
from `IInv` what one decryption may give and why, `Decryption` lifts that to a fan-out. `DataComplete` with a cached CK and
`CkComplete` are both instances of it (`Decrypting`), and every other step answers nobody (`StepIs`). Gives `TypeCorrect`,
`GarbageExplained`, `RefusalExplained` and `Refinement`, by which a registration is `Register`, a decryption `Read`, anything else
`Store` or a stutter. It is the theorem behind finding 3: the map does let others of the process read, and nobody else.

`KeysByName` is inductive with the types: a CK is fetched for those who wait,
only what is not cached is waited for, and all who wait are answered at once, so a second key of the same name never enters a cache. `AuthorityWithin` shows that
the composition's authority does nothing that `KeyGrant`'s specification, which `AttributeAuthorityProofs` proves of the
code's, would not allow: a request is a `Make`, a registration a `GrantTo`, and every other step leaves it alone.

### Only model-checked

* Liveness: `Settles`, `EveryCommandConcludes` and the fairness half of `ImplementsConsumeOnce`. TLAPS does not prove
  liveness under fairness or reason about `ENABLED`. The steps that they count on are proved: `FetchesAdvance`, `WalksEnd`, `NobodyLost`.
* `KeySatisfiesPolicy`, `RootRuleFound` and `NamedByItsKey` are refuted, not proved.

## 6. What is not modelled, and why

* OpenABE, AES, RSA and the TLV encodings: arithmetic and data transformations without steps.
  Their results appear as relations (`Opens`, `AesDecrypt`, `Unseals`) and as the failures the callers handle. That OpenABE keeps
  these promises, across setups in particular, is assumed.
* A producer and a Consumer of different ABE types: `Producer` and `ParamFetcher` have the types, `NacAbe` does not.
* `SegmentFetcher`, `Face`, the validator: ndn-cxx, outside of the repository; modelled by the callbacks
  the library gives them.
* `Consumer::handleNack` and `handleTimeout` (313 to 342), `TrustConfig::load` and `parse`, `json-helper`: nothing
  in the library calls them. `setMaxRetries` sets a member nothing reads.
* Commands not signed by the data owner: `verifySignature` refuses them without a change of state. That nobody else
  can sign one is assumed; that anybody can reply, and that a signed one may come again, is modelled.
  Two commands are taken to have names of their own, as their signatures give them.
* Malformed names of commands: `onPolicyInterest` parses the data prefix (`src/producer.cpp` 295 and 296), and a KP producer the attribute
  block (306 to 310), and throws out of the event loop for one that is not well formed, before it has changed anything.
  To the owner it is a command that was lost.
* That the erase after a walk (`src/consumer.cpp` 261 and 273) goes through an iterator of an `unordered_map` into which callbacks
  may have inserted: a rehash invalidates it, formally. The map is node-based in libstdc++ and libc++, where it still
  leads to its queue, and that is what `FinishFanout` erases.
* Destruction of a component with fetches outstanding: the models live for the whole behaviour.
* How likely it is that the random words of two CKs agree: `NacAbe` shows what happens when they do.
* Liveness end to end: nothing obliges an application to ask, or a network to deliver.

## 7. Plan

Done, in this order: `ParamFetcher` with `PublicParams`; `Consumer` with `ConsumeOnce`, the heart of the library and
its hardest code; `Producer` with `PolicyTable`; `PolicyCommand`, the composition with the data owner;
`AttributeAuthority` with `KeyGrant`; the proofs of each;
then `AbeSupport` and `NacAbe`, the whole library over what its parts promise, with `GuardedStore` and its proofs.

Then what liveness rests on, step by step (`FetchesAdvance`, `WalksEnd`, `NobodyLost`); who can read what, over restarts
(`GrantedOnce`); what an owner knows (`MatchKnown`); and the compositions as implementations of their parts (`ProducerWithin`, `AuthorityWithin`).

To come: in `NacAbe`, the Consumers as implementations of what module `Consumer` shows of one, as `AuthorityWithin` does for the authority;
`ConsumeOnce` for one request at a time, whatever goes wrong for others.

## 8. Running the checks

```
tlc -config MCConsumer.cfg MCConsumer        # likewise for the other runs
tlapm ConsumerProofs.tla                     # likewise for the other proofs
```
