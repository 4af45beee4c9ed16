# A verification of the JWT library in TLA+

The repository is a Go library for JSON Web Tokens: it makes, signs, encrypts,
reads, decrypts and verifies tokens (package `jwt`), with JWS signatures (`jws`),
JWE messages (`jwe`), keys and key sets (`jwk`), a source of keys that gets a JWK
Set over HTTPS (`jwk/remote`), JOSE headers (`header`) and algorithms (`jwa`).

This directory holds TLA+ modules of its core logic, TLC configurations that
model-check them on small instances, and theorems with proofs that TLAPS checks
for every value of the constants.

    tlc -workers 4 -config MCRemoteSource.cfg MCRemoteSource.tla
    tlapm RemoteSourceProofs.tla

## 1. The system

### Components

| Component | State it keeps | Operations | Modelled by |
| --- | --- | --- | --- |
| `remote.Source` (`jwk/remote/remote.go`) | the cached set, when and how the last request ended, the request under way, all under one mutex | `Get`, `Refresh`, `load`, `request` | `RemoteSource` |
| `jwk.Source`, `jwk.Refresher` (`jwk/key.go`) | a contract | `Get`, `Refresh` | `KeySource` |
| `jwk.KeySet` (`jwk/key.go`) | a sequence of keys; no state changes after it is read | `UnmarshalJSON`, `Key`, `Candidates`, `Public` | `KeySelection`, `KeyPublication` |
| `Token.Verify` (`token.go`, `extension.go`, `headerkey.go`) | `authenticatedTypes`, the locals of a call, the caller's `IDStore` | keys, both attempts, header keys, claims, replay | `Verification` |
| `Token` (`token.go`, `encryption.go`) | payload and its encoding, signatures, pending signatures, rules, encrypter, message, `verified` | options, `Marshal`, `MarshalJSON`, `Unmarshal`, `UnmarshalJSON`, `Verify`, `Decrypt` | `Token` |
| `jwe.Message` (`jwe/jwe.go`, `jwe/serialization.go`) | headers, the octets kept of the protected header, recipients, ciphertext | `EncryptTo`, `Decrypt`, `DecryptAll`, both serializations | `Message` |
| `header.Header` (`header/header.go`) | parameters, kept octets | `UnmarshalJSON`, `Unmarshal`, `MarshalJSON`, `Marshal`, `Members`; the rules of "crit" and "b64" | `Header`; `KeyParameters` and `SetKeyParameters` in `Message` |
| `jws.Signature` (`jws/signature.go`) | two headers and the octets of one signature | both readers, both writers, two options, and the headers that `Token.sign` makes | `Signature` |
| `jwk.Key` (`jwk/key.go`, `jwk/x509.go`, `jwk/thumbprint.go`) | material, parameters, certificates | `NewKey`, options, `UnmarshalJSON`, `Public`, `MarshalJSON`, thumbprints | `KeyDocument` |
| `Confirmation` (`confirmation.go`) | a rule of the token | `WithConfirmation`, `checkConfirmationIssuance`, `Confirmation` | `Token` |
| `jwa` | none | sign, verify, wrap, agree, encrypt | ideal cryptography |
| `internal/*`, `mediatype.go` | none | conversions | not modelled |

### How they interact

A goroutine that calls `Token.Verify` calls `Get` of a source, tries the
signatures with the set it gave, calls `Refresh` when no key was suitable, and
tries again. Many goroutines share one source; the mutex of `remote.Source` is
released around the request, so callers join a request that another caller made
and take its result. The issuer replaces its keys at any moment. `Verify` then
checks the claims at one reading of the clock and gives the identifier to an
`IDStore` that all goroutines share.

A `Token` is a mutable struct that one goroutine uses. Signing and encryption are
delayed until it is written, verified or decrypted; signers and encrypters are
devices that can fail between two signatures. Encryption makes a
`jwe.Message`, whose headers are pointers that the caller also holds and whose
protected header keeps its first encoding. A `jws.Signature`, a `header.Header`
and a `jwk.Key` are structs that a caller can read into again: what a second document
does not name, and what a read that failed assigned, can stay.

### What is hard, and what makes each component correct

* **remote.Source.** Callers that find the keys old at one moment; a request that
  outlives the call that made it; failures, cancellation, a host that never
  answers; the throttle. Correct: one request at a time, requests spaced, no keys
  older than those already seen, failures that never lose keys, errors that tell
  the cause, calls that end, keys that follow the issuer.
* **KeySet.** Two ways to select (a loop and a stable sort) must agree; a key marked
  for another function must not be selected; each usable key must be tried;
  publishing a set must not change what it selects.
* **Verify.** Keys that change between `Get` and the attempt or between two
  attempts; several signatures of which some are bad; the media type of a header
  that nobody signed; the same token in two goroutines; a rejected token that uses
  up an identifier; leeways at boundaries.
* **Token.** Any sequence of calls, failures in the middle: `Verified` true of
  claims nobody authenticated; a signature over claims that a rule rejects or that
  does not fit its document; a token to be encrypted written in clear; a symmetric
  confirmation key in a token that anybody can read.
* **Message.** Parameters made by the key management that are lost or stale; "apu"
  that one side derives from and the other does not; headers that name a parameter
  twice; calls that fail half-way; `Decrypt` against `DecryptAll`.
* **Signature, Header.** A header has fields and the octets that it was read from, and
  options change one of them; an object that is read into again; "crit", "b64", "enc"
  and names in two headers, in each order in which a reader finds them.
* **Key.** A public half that still has a secret member; certificates of another key,
  also after a Key was read twice; what is written must be what is read.

`PROJECT.json` lists each hazard at its line, with the properties that watch it.

## 2. The modules

    KeySource  <--- implements ---  RemoteSource  <- MCRemoteSource, RemoteSourceProofs
        ^
        | INSTANCE KS
    Verification  <- MCVerification, VerificationProofs <- AcceptanceProofs
        | EXTENDS
    KeySelection  <- KeyPublication <- MCKeyPublication, KeyPublicationProofs
        ^
        | EXTENDS
    KeyDocument   <- MCKeyDocument, KeyDocumentProofs

    Header <- Signature <- MCSignature, SignatureProofs
    Token   <- MCToken, TokenProofs
    Message <- MCMessage, MessageProofs

An operator named `X_Variant` beside `X` is `X` with one plausible bug (a dropped
guard, a missing reset). No action uses it: it is there to show, by putting it in the
place of `X`, that a property notices the bug.

### KeySource — the promise of a source of keys

Sets are numbered by publication. A call that begins after the source came to hold
set *v* never gives an older set, never one that was not published, and always
ends. `known` is what the source holds. It is an abstract specification twice
over: `RemoteSource` implements it (`Contract`, and theorem `Implements` for its
safety part), and `Verification` is built over it, so what holds there holds with any
source that keeps the promise.

### RemoteSource — `jwk/remote/remote.go`

One action per section under `source.mutex`. `GetCached`/`GetLoad` are the section
of `Get`; `LoadCached`, `LoadThrottled`, `LoadJoin`, `LoadStart` are the four
ways out of the first section of `load`; `Answer` and `Finish*` are `request`
and the second section; `Close` is `close(current.done)` and the return;
`AwaitDone` and `AwaitCanceled` are the two cases of the `select`. Between any
two of them other callers run, time passes (`Tick`), contexts end (`Cancel`) and
the issuer publishes (`Rotate`).

`source.fetched` is held as its age, which is all that the guards read, capped at
`Horizon`. A `*fetch` is named by the caller that made it: a caller makes no
second one before it closed the first. An error is the set of errors that `errors.Is`
finds in it.

### KeySelection and KeyPublication — `jwk/key.go`

Pure operators: what `UnmarshalJSON` drops (`ReadSet`), `Public`, `suitable`,
`weight`, `Key` (`BestKey`, a fold over the set, as the loop) and `Candidates` (the
suitable keys in stable order of weight). A loop that keeps some elements, and a stable
sort, are said by what they give: the enumeration of some positions that is sorted, of
which there is exactly one (lemmas `SortExists` and `SortUnique`). `KeyPublication` publishes a set key by key
and asks, so that TLC visits every document of up to `MaxKeys` keys with every
request. "key_ops", "use", "alg", "kid", what cannot be read and which half of the pair a
key holds are in the model; material is not.

### Verification — `Token.Verify`

A verifier goes through `get`, `attempt`, `refresh`, `retry`, `claims`, `record`: the
points at which the code calls something that others can change (the source, the
clock, the store). A call (`Carried[c]`, `Config[c]`) is a token with a
`VerificationConfig`; any goroutine makes any call any number of times.

* `Attempt` is `verifySignatures`: the sequence of signatures, where it stops, its
  error, and the media types it appends to `authenticatedTypes`, also those of a
  first attempt that then failed.
* `SignatureError` is `verifySignature`: permitted algorithm, keys from the header,
  candidates, refused keys. A signature verifies under the material that made it
  and no other.
* `ClaimsError` is `checkClaims`, in its order; `Record` is `IDStore.Record`, one
  operation, which can fail.
* `Forget` is what the comment of `IDStore` allows a store to do.

A source that is not a `Refresher` (`Refreshes = FALSE`) is the same model with the
refresh disabled. A nil source behaves as one that gives an empty set and is not
in the instances. `Verify` signs what is pending first; that part is in `Token`.

### Token — `token.go`, `encryption.go`

`tok` is the struct. Each method is a set of outcomes (the token afterwards, and
an error or a document), because the payload may not encode, each signer may fail after
others succeeded, the encrypter may fail after the signer, and the keys of a
received token may or may not be there. `Verify`, `Marshal` and `Decrypt` call
`sign` and `encrypt` as in the code. `written` is the document of the last call only. A claims set and its encoding are one
model value, and `encoded` is what `payload.Marshal` keeps. The encrypted form is
a JWS inside a JWE (nested) or a claims set inside a JWE.

`Cnf` gives the "cnf" claim of each claims set. `MayConfirm` is
`checkConfirmationIssuance`: a subject or an issuer, one key, and a symmetric key only
in a token that is encrypted; `Confirms` is the rule that `WithConfirmation` adds.

### Header and Signature — `header/header.go`, `jws/signature.go`

A document gives each member `Absent`, `Empty` (there, with a zero value) or a value; a
Go field cannot tell the first two apart, which is what the rules about "crit" and about
two headers depend on. `ReadFields` assigns in the order of `UnmarshalJSON` and
stops at the first defect; `ReadHeader` keeps the octets, `HeaderText` prefers them.
`Signature` is the object: `ReadCompact` and `ReadJSON` are the readers with what they
leave of an earlier signature, `WriteCompact` and `WriteJSON` the writers, `Sign` the
part of `Token.sign` that makes the headers, and options change fields beside kept octets.
`source` is history: the document that the object holds.

### KeyDocument — `jwk/key.go`, `jwk/x509.go`, `jwk/thumbprint.go`

`key` is the struct. `ReadKey` is `UnmarshalJSON` in its order, into whatever the key held
before, with what a failure leaves; one operator for each "kty" (`parseRSA`, ...)
gives the material of a document. A pair is a model value and its public members are
values, so that two pairs can share members. `Certified` is `checkCertificates`
over a chain of any length; a certificate tells which pair it carries, which pair
signed it and its uses. Thumbprints are the members that the hash covers. `read` is
history: the document that the key was read from, until an option changes it or a read fails.

### Message — `jwe/jwe.go`, `jwe/serialization.go`

`m` is the struct; `heads` are the caller's header objects, to which recipients
point; `text` is the kept octets of the protected header, which `Marshal` of a
header prefers to its fields. Five key management algorithms stand for the kinds in
`jwa`: direct ("dir"), wrapping without and with parameters ("kw", "gcm"), agreement
without and with wrapping ("es", "eskw"). Agreement derives from "epk" and from "apu",
which the caller may give. Ideal cryptography: content opens with the right content
encryption key, the right protected octets and the right "aad". `Nil` is the set of
plaintexts that the content encryption gives back as nil, which is the empty
plaintext for AES GCM.

`Careless` is what a caller does beside the uses for which `RoundTrip` is promised: it
encrypts a message again, gives one header object to two recipients, writes "apu"
into an unprotected header, or has an empty "aad". TLC finds `RoundTrip` violated with
each of the four alone (section 5); the passing run and the proof have none.

## 3. What TLC checks

| Run | Question | Bounds |
| --- | --- | --- |
| `remote` | Is the shared source safe, live and an implementation of `KeySource`? | 2 goroutines, 2 publications, one kind of host failure beside silence, cancellation and timeout, interval 2, minimum 1 |
| `keys` | Do all ways to select agree, for every document and request? | documents of up to 3 keys out of a pool with every combination that tells keys apart and five defects; 8 requests |
| `verify_keys` | Is a token accepted exactly on keys it may be accepted on, while keys change? Does every verification end? | 2 goroutines, 17 calls, 3 publications (rotation, overlap, reuse of a "kid") |
| `verify_claims` | Lifetimes and replay while time passes and the store forgets | 2 goroutines, 9 tokens, times 0..4, leeway 1, maximum age 1 |
| `token` | Any sequence of calls on one token, with failures | options give up to 2 signatures (`MaxOptions`), up to 3 are made or pending after a failure (`MaxSignatures`), 2 signers, 4 claims sets, 2 rules, 7 documents of others |
| `signature` | Are the fields those of the octets? Is only a well-formed document accepted? Is what is written read? | 23 protected and 14 unprotected headers, one for each defect and each case of "crit" and "b64", any sequence of reads, options and writes |
| `key_document` | Do a public half, a certified key and a written key stay so, on a Key that is used again? | 8 keys of five types, 4 certificates, chains of up to 2, 27 documents, 5 sets of options |
| `message_fresh` | What is encrypted decrypts; the two ways to decrypt agree; protected parameters hold | up to 2 recipients (`MaxRecipients`), 3 keys, 5 algorithms, 2 header objects, "aad" and protected "apu" or none, up to 3 calls of `EncryptTo`, 10 documents of others |
| `verify_forgotten`, `token_reused`, `message_empty`, `message_party` | A comment of the code against the code: see section 5 | smaller |

**Why the bounds are enough to be of interest.** In `remote` two callers cover
every pair of sections and a waiter with the maker of its fetch; a third caller is
symmetric to one of them, and the safety properties are proved for any number.
Ages 0, 1 and 2 are before the minimum, between it and the interval, and after. With
interval >= minimum the branch "throttled, but a `Get` has keys" of `LoadThrottled` is
not reached; the proofs cover it for every interval and minimum. In `verify_keys` three
sets are what a refresh in the middle needs (one before `Get`, one for the retry, one
after). In `verify_claims` times from 0 to 4 put instants before, at and after each
limit with the leeway on both sides. In `token` a signer that fails after
the first of two leaves one signature made and two pending, which the next call makes
again: three in all; four claims sets are no confirmation, a public key, a secret and two
keys. In `message_fresh` the third call follows two failed ones. In `signature` and
`key_document` a second document is what an object that is used again needs; the
objects have no counter, so all sequences are covered.

### Properties

`RemoteSource`: `TypeOK` (which also ties the time of the last request to what it left:
keys or a failure), `SingleFlight` (one request, which `inflight` names, and no waiter
without somebody to wake it), `RequestsSpaced`, `NeverOlder`, `KeysSurviveFailure`,
`ErrorsExplain` (a throttled call with no keys carries the failure of the last request),
`EveryCallEnds`, `Contract` (refinement of `KeySource`, with its fairness) and
`CatchesUp`.

`KeyPublication`: `KeyIsFirstCandidate`, `EveryUsableKeyOnce`, `KidFirst`,
`PurposeKept`, `PublishingKeepsSelection`.

`Verification`: `RevocationHolds` (one set, no older than what the source held at
the start, backs enough well-formed signatures with permitted algorithms),
`TypeIsSigned`, `PublishedKeySuffices` (completeness: no rejection for its
signatures when the published keys authenticate the token throughout, unless a key in
the header is damaged: section 5),
`InLifetime`, `OnlyAcceptedRecorded`, `OnceWhileKept`, `EveryVerifyEnds`.

`Token`: `AuthenticClaims`, `SignaturesFit`, `RulesGuard`, `NeverInClear`,
`ConfirmationKeySecret`. All but `NeverInClear` make an exception for a token that the caller itself changed after it
was encoded, verified or read (`changed`): see the observations below.

`Signature`: `FieldsAreSigned` (what an application reads of the protected header is what
the signature covers, and both come from one document; so does the unprotected header
after `UnmarshalJSON`, but not after the compact reader: section 5), `AcceptedIsWellFormed` (against the rules of
the RFCs, stated over the document and not over the fields), `RoundTrip`.

`KeyDocument`: `NothingSecret`, `CertifiedKey` (an accepted key has the material and the
certificates of the document it was read from, and its chain leads from it up; thumbprints
of certificates in the chain only: section 5), `RoundTrip`, `SameThumbprint`.

`Message`: `RoundTrip`, `DecryptAllAgrees`, `ProtectedParametersHold`.

### Fairness

* `RemoteSource!FairSpec`: weak fairness of the steps of each goroutine — the Go
  scheduler runs a goroutine that can run, and `context.WithTimeout` fires when the
  source has a timeout (`FinishDeadline` is one of those steps). Nothing is asked of the
  host, of callers, of cancellation or of the issuer, so `EveryCallEnds` holds with a
  host that never answers. Without a timeout (`HasTimeout = FALSE`) it would not, and
  the package says so.
* `CatchesUp` needs more and states it as its own hypothesis: time goes on, each
  caller goes on calling `Get`, and the host succeeds again and again while it is
  asked again and again.
* `Verification!FairSpec`: weak fairness of each goroutine's steps, which includes the
  end of a call of the source, as `KeySource!FairSpec` promises.
* `KeyPublication`, `KeyDocument`, `Signature`, `Token` and `Message` are sequential and
  have no liveness.

Deadlock is checked in every run.

## 4. What is proved

All for any constants that satisfy the named assumptions: any number of goroutines,
tokens, configurations, key sets and intervals; any documents, headers, keys,
certificates, claims sets, rules and options. What the assumptions ask is that a
document has the shape of one (`SignatureAssumption`, `TokenAssumption`,
`PartiesAssumption`, `CallsAssumption`, `KeyPublicationAssumption`), that "nil" is no
value, that two pairs do not have the same public key, and that an option sets what a
reader can read: an algorithm of `jwa`, a URL, certificates (`KeyAssumption`; a caller
that implements `jwa.Algorithm` itself can write a key that this package does not read).

| Module | Theorems |
| --- | --- |
| `RemoteSourceProofs` | `TypeCorrect`, `OneRequest`, `Spacing`, `Monotone`, `Explained`, `Survival`, `Implements` |
| `KeyPublicationProofs` | `SelectionsAgree`, `EveryKeyIsTried`, `NamedKeyFirst`, `PurposeIsKept`, `PublicSelects` |
| `VerificationProofs` | `Typed`, `Recorded`, `Once` |
| `AcceptanceProofs` | `Revocation`, `Lifetime`, `SignedType`, `PublishedSuffices` |
| `SignatureProofs` | `Types`, `SignedFields`, `WellFormedOnly`, `WrittenIsRead` |
| `TokenProofs` | `Types`, `Authentic`, `Fitting`, `SecretKept`, `RulesHold`, `NotInClear` |
| `KeyDocumentProofs` | `PublicIsPublic`, `KeyIsCertified`, `WrittenIsRead`, `Thumbprints` |
| `MessageProofs` | `Types`, `ProtectedValues`, `DecryptAllIsDecrypt`, `RoundTrips` |

**RemoteSource.** No property is inductive alone. `IInv` adds to `Typed` (the types)
and `SingleFlight`: `HoldsInv` (what the source holds, and that a fetched time comes
with keys or with a failure, the other part of `TypeOK`), `ThrottleInv` (the age of the last end is no more than the
age of the last start, which is why a throttle on the end also spaces the starts),
`CallInv` (per caller: which locals are set at which step, and that `floor` is
no newer than what the source holds or the result will give) and `WaitInv` (a waiter
began before the fetch it waits for is settled, so the result is not older than
its `floor`). `Monotone` and `Explained` rest on the lemma `WhatCallsGive`, one case for
each way a call ends. `Implements` maps `pending` to the callers that are not idle
and `given` to the set in the result, and shows that every step is a step of
`KeySource` or a stutter.

**KeyPublication.** `IInv` says what `found` is: both ways to select, of the set that was
read, for the request asked last. The rest is about the operators, for sets of any size.
`SortExists` puts each element of a finite set at the place that the number of its
predecessors gives, and a pigeonhole shows that each place is taken; `SortUnique`
compares two such enumerations at the least place where they differ. `RankStrict` is that
weight, then position, is a strict total order, so `Candidates` is the one
sequence with that order (`CandidatesSorted`). `BestIsLoop` unfolds the fold of the
loop and `BestIsFirst` shows, for each prefix of the set, that the loop holds the first
key by rank of that prefix: from the least prefix where it would not. `NamedWeighsMore`
is the arithmetic of the weights: 128 against at most 64 + 16 + 8. For a
published set, `PublicSetIs` and `PublicCandidates` give both sides of the equation as
sorted enumerations of the same keys, and `SameSelection` concludes by uniqueness.

**Verification, identifiers.** `SourceInv` is the invariant of the source (nothing
held that was not published; a floor no newer than what is held), `StoreInv` that the
store holds identifiers of the calls only. With them `OnlyAcceptedRecorded` is
inductive: an entry comes with `Accept` and `accepted` never decreases. `KeptInv` says
that an identifier that was never forgotten is in the store as soon as it was accepted,
and was accepted once; that is what makes a second `Record` fail (`Once`).

**Verification, revocation.** `HeldInv` says that what the source held when a call began
was published and is still no newer than what it holds; `Way(v)` follows one
verification: the floor of its call of the source is at least what was held at
the start, a set that was given lies between that and what is published, and once
it reaches the claims some set in that range satisfied the attempt. The step from an
attempt without an error to enough good signatures is `AttemptSatisfied`, which needs
that the first stopping signature exists (`LeastExists`, by well-founded induction) and
that no signature before it stopped (`ReachedStops`), and that a signature without an
error has a permitted algorithm and a suitable key of the set or an accepted one of the
header (`NoErrorBacked`).

**Verification, acceptance.** `Timely(v)` says that a verification that reached the store
was within its limits at an instant since it began: `CheckClaims` reads the clock once
(`CheckTimely`), and time may pass before `Record`. `NoErrorWithinLimits` is the
arithmetic from the guards of `checkClaims` and `checkAge`, with the leeway on the other
side, to the limits of the property.

**Verification, types and completeness.** `Found(v)` follows what the attempts found.
Before the claims, the types in `types[v]` include those of as many signatures as the
configuration asks for, each backed by one set that may be relied on
(`Authenticated`): the types of a first attempt stay in front, so the list can have
others, and `ClaimsError` wants each of them accepted, which gives `SignedType`. While a
refresh is open, some such set does not authenticate the token, because the first
attempt failed with it (`AttemptRejects`: with keys that authenticate each signature that
the configuration needs, no attempt fails). So a rejection for the signatures always
has a set that explains it, also when the refresh fails (`PublishedSuffices`). A signature
whose header has a key that is damaged is excepted in `OfPublished`: see section 5.

**Signature.** `IInv` is that the headers can be written (each value is one that a
document can give: `SigOK`), that documents are well formed as data, and the two
properties `FieldsAreSigned` and `AcceptedIsWellFormed`. The proof of the latter goes
from the checks on fields, in the order of the reader, to the members of the
document. `WrittenIsRead` needs that a field written and read again is that field, for
each parameter, and that reading stops at no step.

**Token.** `IInv` follows the token through all its operations. `Guarded`: a token that is
to be encrypted still encrypts or has a message. `Sound`, as long as the caller did
not put new claims on a token in use: the encoding is of the claims, signatures made here
are over the encoding, a message leaves nothing pending, a message of claims alone
comes with no signature, a nested message has the claims and signatures of the token, the
rule of a confirmation holds of what was encoded, and `verified` only comes with an
authentic one. Each method preserves it in each of its outcomes, with the error and
without.

**KeyDocument.** `IInv`: the material is legal; a published key holds public halves;
a key that was accepted is `Certified` and of the document it was read from (`OfDocument`,
from the lemma `MaterialOf` for each "kty"); what was written is what `WriteKey` makes of a
key that may be written; and no Key has an algorithm, a URL or a certificate that does not
read again (`IsKey`), however often it was read into and whichever of the reads failed.
The chain needs no induction, because each link is between neighbours; what a read
appends to it (`Sound`, `SoundChain`) ends before the least position that is malformed.
`WrittenIsRead` needs that part of the invariant: `ReadBack` goes through the steps of
`UnmarshalJSON` on what `MarshalJSON` wrote, and `MaterialBack` shows for each "kty" that
exactly one pair has the members that were written (`PairIs`).

**Message.** `IInv` is the shape of a message and is enough for `ProtectedValues`
and `DecryptAllIsDecrypt`, which is for a content encryption that gives no plaintext
as nil (`Nil = {}`; with one, the run `message_empty` refutes it). `RoundTrips` is for a
caller that is not careless (`Careless = {}`). `SInv` says what calls that failed leave
(`Encryptable`: stale "iv" and "epk", and no "apu" but copies of the protected one) and
what a call that succeeds makes (`Sound`: each key opens it, and it is written as it
is). The argument is `OneMatches` and `EachMatches`: the values with which a recipient
unwraps are those with which the sender wrapped, because the headers are disjoint (one
recipient) or because its own header has the parameters (several). Both hold for any
number of recipients (`MaxRecipients`), keys, headers and calls that fail.

**Model-checked only.** Liveness (`EveryCallEnds`, `CatchesUp`, `EveryVerifyEnds`, the
fairness part of `Contract`): liveness under fairness and ENABLED are out of the
prover's reach. Every invariant and every other action property that a passing run
checks is a theorem.

## 5. Where comments and code disagree

Each has a run that TLC must find violated.

| Run | The code | The comment |
| --- | --- | --- |
| `verify_forgotten` | accepts a token until "exp" plus the leeway | a store can forget an identifier after "exp", because the token then never reaches it |
| `token_reused` | `UnmarshalJSON` leaves `verified` as it was | `Verified` tells that this package authenticated the claims |
| `message_empty` | `DecryptAll` fails for an empty plaintext that AES GCM gives as nil | it gives the values that `Decrypt` gives |
| `message_party` | `EncryptTo` derives from the "apu" of the protected header only, `Decrypt` from all three headers | a header of a recipient holds the parameters that differ for each recipient; a recipient that removes "apu" derives a different key |

Observations of the same kind, without a run of their own. TLC finds the first in
`verify_keys` (its call "damaged") as a violation of `PublishedKeySuffices` when
`OfPublished` makes no exception for `HeaderError`, the second as one of `EachLimitHolds`
with the constants `Profile*` of `MCVerification`, the third as one of `RoundTrip`
with another `Careless`, the fourth in `signature` as one of `FieldsAreSigned` when that
also asks for `sig.header = Nil` after a compact read, and the fifth in `key_document` as
one of `CertifiedKey` when that asks about each certificate and not only those of the chain.

* A damaged key in the header ends the verification before the published keys are
  tried (headerkey.go: a token that verifies with a published key continues to verify).
* Two `WithRequiredAlgorithms` permit the union of their lists (extension.go:73: the
  option cannot make the permitted algorithms more).
* A second `EncryptTo` writes the octets that the first kept, with its parameters; one
  header object for two recipients has the parameters of the last one only; an
  empty "aad" that is not nil is covered by the tag and not written. None of the three
  decrypts.
* The compact reader of a signature leaves the unprotected header of the object that it
  reads into (signature.go:66-68: Unmarshal sets that field to nil).
* "x5t" and "x5t#S256" are compared with the certificates of "x5c" that have that digest,
  so a thumbprint of a certificate outside the chain is compared with nothing: a key with its own
  chain and the thumbprint of another key's certificate is read and written (key.go:389-391:
  it is the thumbprint of the first certificate in the chain; x509.go:20-23: each of the
  three X.509 parameters makes the agreement necessary).
* With several recipients, "apu" in the protected header is copied into the header of each
  one whose algorithm makes parameters, and `EncryptTo` then always fails with
  `ErrDuplicateHeaderParameter`.
* A `Refresh` joins a request that is already under way, whose answer may be older
  than the call; the comment of `Refresher` asks that it gets the keys again.
* An issuer that names no key ("kid" absent) and changes it is not refreshed: the cached
  key is suitable, so the error is not `ErrNoSuitableKey`. The comment of `Verify`
  names reuse of a "kid" as the one case.
* A claim option on a token that was already encoded: rules see the new claims, the
  signature covers the old ones.
* A call after a signer failed operates the issuance rules again, after a signature
  was made, and makes that signature again.
* `Decrypt` of a nested token on a token that an earlier call verified replaces the
  claims before they are verified and leaves `verified` true when they are not.
* With one recipient, `Decrypt` gives errors of the key management as they are, not
  `ErrDecryptionFailed` alone.
* The compact serialization of a message whose one recipient has an unsupported
  algorithm drops the header octets that were kept for it.
* A Key or a Header that is read into again keeps what the new document does not
  name (material of another "kty", "alg", "jku", "x5u", and certificates that are
  appended), and a read that fails leaves it half written.
* `MarshalJSON` of a signature checks fields and writes kept octets, so an option on a
  signature that was read can make it write what it rejects on input.
* Names with an empty value, and names that are not registered, are not compared
  between two headers, and `"crit": []` passes as absent.
* `SetKeyParameters` stores the public half of a private "epk" where its comment gives
  an error.
* A header with a "jwk" of an unknown "kty" is read and cannot be written, so with an
  unprotected header beside it the document is rejected.
* An empty symmetric key is written without "k", which is rejected on input.
* A rule that calls `AddProtectedHeader` appends its options again when a call after
  a failed signer operates the rules again.
* Claims alone in a JWE skip the issuance rules, thus also that of a confirmation.

## 6. What is not modelled, and why

Encodings (JSON, base64url, DER) and octet limits, curves and the mathematics of the
algorithms are functions of their input with no state; the published vectors of the test
suites fit them better than a small instance. HTTP is a set of outcomes. Clocks do
not go back. `AddProtectedHeader` and the parsing of single claims are left out of `Token`;
nil recipients, and "enc" outside the protected header, of `Message` (each is an error
that changes nothing). How a recipient binds a presenter to a confirmation key is no code
of the library. The conformance and benchmark directories are tests.

Four hazards have no property, with the reason in `PROJECT.json`: a forced refresh that
joins an older request (remote.go:304), an issuer that changes a key without
naming it (token.go:878), two `WithRequiredAlgorithms` (extension.go:77) and one header
object for two recipients (jwe.go:271).

## 7. Plan

Done, in this order: `KeySource` and `RemoteSource` (the concurrent part) with
proofs; `KeySelection` and `KeyPublication`; `Verification` over both, with proofs; `Token`;
`Message`; then `Header` and `Signature`, `KeyDocument`, confirmations in `Token`, "aad",
"apu" and careless callers in `Message`, and the proofs of these four.

Next, models: `AddProtectedHeader` and the parsing of claims; a clock that goes back,
in `RemoteSource`; bounded algorithms with reference definitions (CBC padding, key
wrap and PBES2 limits).

Next, proofs: those of the new models; no safety property of a passing run is
without one.
