---------------------------- MODULE Verification ----------------------------
(***************************************************************************)
(* Token.Verify (token.go): goroutines that verify tokens with one source  *)
(* of keys and one store of identifiers.  A verification gets the keys,    *)
(* tries the signatures, gets the keys again when no key was suitable,     *)
(* reads the clock once for the claims, and last records the identifier.   *)
(* The issuer changes its keys, time passes and other verifications run    *)
(* between those steps.                                                    *)
(*                                                                         *)
(* The source is KeySource: any implementation that keeps that contract,   *)
(* as RemoteSource does.  The signature algorithms are ideal: a signature  *)
(* verifies under the material that made it and no other.                  *)
(***************************************************************************)
EXTENDS KeySelection

CONSTANTS
  Verifiers,    (* the goroutines                                          *)
  Calls,        (* a token with a configuration: the calls of Verify that  *)
                (* are made, each any number of times by any goroutine     *)
  Carried,      (* what the token of each call carries                     *)
  Config,       (* the VerificationConfig of each call                     *)
  Published,    (* the key set of each publication                         *)
  Refreshes,    (* the source is a jwk.Refresher                           *)
  MaxTime,      (* bound: the last instant                                 *)
  MaxVersion    (* bound: how many key sets the issuer publishes           *)

ASSUME VerificationAssumption ==
  /\ MaxTime \in Nat /\ MaxVersion \in Nat \ {0}
  /\ DOMAIN Published = 1..MaxVersion
  /\ DOMAIN Carried = Calls /\ DOMAIN Config = Calls
  /\ "no call" \notin Calls

NoTime == -1            \* a claim that the token does not carry

\* Times are instants of the clock; a token has a sequence of signatures.
ASSUME CallsAssumption ==
  \A c \in Calls :
    /\ Config[c].leeway \in Nat /\ Config[c].maxAge \in Int
    /\ Config[c].allSignatures \in BOOLEAN
    /\ {Carried[c].exp, Carried[c].nbf, Carried[c].iat} \subseteq Nat \union {NoTime}
    /\ Carried[c].sigs \in Seq(ToSet(Carried[c].sigs))

NoCall == "no call"
Identifiers == {Carried[c].jti : c \in Calls}

VARIABLES
  version, known, pending, floor, given,    (* KeySource                   *)
  pc,           (* where the verification is                               *)
  call,         (* what it verifies                                        *)
  types,        (* token.authenticatedTypes                                *)
  err,          (* the error of the first attempt, a set as errors.Is sees *)
  now,          (* the clock                                               *)
  store,        (* the IDStore: the identifiers it holds, with their "exp" *)
  verdict       (* what the last verification returned; {}: nil            *)

VARIABLES       \* history, read by properties only
  since,        (* what the source held, and the time, at the start        *)
  accepted,     (* how often each identifier was accepted, up to twice, by *)
                (* calls that give it to the store                         *)
  forgotten     (* the identifiers that the store ever forgot              *)

KS == INSTANCE KeySource WITH Callers <- Verifiers
ksVars == <<version, known, pending, floor, given>>
own == <<pc, call, types, err, verdict, since>>
vars == <<ksVars, own, now, store, accepted, forgotten>>

-----------------------------------------------------------------------------
(* The signatures of a call *)

\* Verify: an empty list becomes the default one, then the required algorithms
\* limit it.  "required" has the list of each WithRequiredAlgorithms, which
\* appends it to the one list that Verify reads.
Permitted(c) ==
  LET algorithms == IF Config[c].algorithms = {} THEN Config[c].default ELSE Config[c].algorithms
  IN IF Config[c].required = {} THEN algorithms
     ELSE algorithms \intersect UNION Config[c].required

Request(sig) == [use |-> "sig", op |-> "verify", alg |-> sig.alg, kid |-> sig.kid]

\* headerKey and headerCandidates.  sig.jwk is the set of the key in the header,
\* if there is one; "half" says which half of what it is, "chain" that its
\* certificates, if any, are of that key, "trusted" that each policy accepts it.
Usable(key) == key.half = "public" /\ key.chain

HeaderError(c, sig) == Config[c].headerKeys /\ \E key \in sig.jwk : ~Usable(key)

Offered(c, sig) ==
  {key \in sig.jwk : Config[c].headerKeys /\ Usable(key) /\ Suitable(key, Request(sig))}

Refused(c, sig) == \E key \in Offered(c, sig) : ~key.trusted

HeaderKeys(c, sig) == {key.material : key \in {k \in Offered(c, sig) : k.trusted}}

Material_Best(c, sig, keys) ==
  LET best == BestKey(keys, Request(sig))
  IN (IF best = 0 THEN {} ELSE {keys[best].material}) \union HeaderKeys(c, sig)

\* The material of each candidate: those of the set, in whatever order Candidates
\* gives them (KeyPublication checks that it gives exactly these), and the header.
Material(c, sig, keys) ==
  {keys[i].material : i \in SuitableIn(keys, Request(sig))} \union HeaderKeys(c, sig)

SignatureError_AnyAlgorithm(c, sig, keys) ==
  IF sig.signer \in Material(c, sig, keys) THEN {} ELSE {"Unverified"}

\* verifySignature: {} when the signature verifies.
SignatureError(c, sig, keys) ==
  IF sig.alg \notin Permitted(c) THEN {"Forbidden"}
  ELSE IF HeaderError(c, sig) THEN {"HeaderKey"}
  ELSE IF Material(c, sig, keys) = {}
    THEN {IF Refused(c, sig) THEN "Refused" ELSE "NoSuitableKey"}
  ELSE IF sig.signer \in Material(c, sig, keys) THEN {}
  ELSE {"Unverified"}

\* verifySignatures: the error, and what it appends to authenticatedTypes.  It
\* stops at the first signature that is malformed and, when each must verify,
\* at the first that does not; otherwise at the first that does.
Stops(c, sig, keys) ==
  \/ ~sig.wellFormed
  \/ (SignatureError(c, sig, keys) = {}) # Config[c].allSignatures

Reached(c, keys) ==
  LET sigs == Carried[c].sigs
      stopping == {i \in DOMAIN sigs : Stops(c, sigs[i], keys)}
  IN IF stopping = {} THEN 0 ELSE CHOOSE i \in stopping : \A j \in stopping : i <= j

TypesOf(sigs) == [i \in DOMAIN sigs |-> sigs[i].typ]

Attempt_FirstType(c, keys) ==
  IF (Reached(c, keys) = 0) # Config[c].allSignatures
    THEN [err |-> {"Unverified"}, types |-> <<>>]
  ELSE [err |-> {}, types |-> <<Carried[c].sigs[1].typ>>]

Attempt(c, keys) ==
  LET sigs   == Carried[c].sigs
      all    == Config[c].allSignatures
      last   == Reached(c, keys)
      errors == UNION {SignatureError(c, sigs[i], keys) : i \in DOMAIN sigs}
      before == IF all THEN TypesOf(SubSeq(sigs, 1, last - 1)) ELSE <<>>
  IN IF last = 0
       THEN IF all THEN [err |-> {}, types |-> TypesOf(sigs)]
            ELSE [err |-> errors \union {"Unverified"}, types |-> <<>>]
     ELSE IF ~sigs[last].wellFormed
       THEN [err |-> {"Malformed"}, types |-> before]
     ELSE IF all
       THEN [err |-> SignatureError(c, sigs[last], keys), types |-> before]
     ELSE [err |-> {}, types |-> <<sigs[last].typ>>]

-----------------------------------------------------------------------------
(* The claims of a call *)

\* checkType: of every header that authenticated the token.
TypeAccepted(c, typ) ==
  \/ Config[c].anyType
  \/ IF Config[c].type = Absent THEN typ \in {Absent, "JWT"} ELSE typ = Config[c].type

\* checkAge.
AgeError(c, at) ==
  LET iat == Carried[c].iat
  IN IF Config[c].maxAge <= 0 THEN {}
     ELSE IF iat = NoTime THEN {"MissingClaim"}
     ELSE IF iat > at + Config[c].leeway THEN {"IssuedInFuture"}
     ELSE IF at > iat + Config[c].maxAge + Config[c].leeway THEN {"TooOld"}
     ELSE {}

Expired_LeewayTwice(c, at) ==
  Carried[c].exp # NoTime /\ at > Carried[c].exp + 2 * Config[c].leeway
Expired(c, at) == Carried[c].exp # NoTime /\ at > Carried[c].exp + Config[c].leeway

NotYetValid(c, at) == Carried[c].nbf # NoTime /\ at < Carried[c].nbf - Config[c].leeway

\* checkClaims up to checkReplay, with the one instant that it reads.
ClaimsError(c, ts, at) ==
  LET t == Carried[c]
      config == Config[c]
  IN IF ~t.rules THEN {"Rule"}
     ELSE IF Expired(c, at) THEN {"Expired"}
     ELSE IF NotYetValid(c, at) THEN {"NotYetValid"}
     ELSE IF config.issuer # Absent /\ t.iss # config.issuer THEN {"Issuer"}
     ELSE IF config.audience # {} /\ t.aud \intersect config.audience = {} THEN {"Audience"}
     ELSE IF config.subject # Absent /\ t.sub # config.subject THEN {"Subject"}
     ELSE IF \E i \in DOMAIN ts : ~TypeAccepted(c, ts[i]) THEN {"Type"}
     ELSE AgeError(c, at)

-----------------------------------------------------------------------------

Steps == {"idle", "get", "attempt", "refresh", "retry", "claims", "record"}

Init ==
  /\ KS!Init
  /\ pc = [v \in Verifiers |-> "idle"]
  /\ call = [v \in Verifiers |-> NoCall]
  /\ types = [v \in Verifiers |-> <<>>]
  /\ err = [v \in Verifiers |-> {}]
  /\ verdict = [v \in Verifiers |-> {}]
  /\ since = [v \in Verifiers |-> [known |-> 0, now |-> 0]]
  /\ now = 0
  /\ store = {}
  /\ accepted = [id \in Identifiers |-> 0]
  /\ forgotten = {}

Goto(v, step) == pc' = [pc EXCEPT ![v] = step]

\* Verify returns e, and its locals go.
Return(v, e) ==
  /\ Goto(v, "idle")
  /\ verdict' = [verdict EXCEPT ![v] = e]
  /\ call' = [call EXCEPT ![v] = NoCall]
  /\ types' = [types EXCEPT ![v] = <<>>]
  /\ err' = [err EXCEPT ![v] = {}]
  /\ since' = [since EXCEPT ![v] = [known |-> 0, now |-> 0]]

\* Verify begins: authenticatedTypes is reset; a token with no signature goes
\* no further.
Begin(v, c) ==
  /\ pc[v] = "idle"
  /\ Carried[c].sigs # <<>>
  /\ Goto(v, "get")
  /\ call' = [call EXCEPT ![v] = c]
  /\ types' = [types EXCEPT ![v] = <<>>]
  /\ verdict' = [verdict EXCEPT ![v] = {}]
  /\ since' = [since EXCEPT ![v] = [known |-> known, now |-> now]]
  /\ KS!Begin(v)
  /\ UNCHANGED <<err, now, store, accepted, forgotten>>

Unsigned(v, c) ==
  /\ pc[v] = "idle"
  /\ Carried[c].sigs = <<>>
  /\ Return(v, {"Unsigned"})
  /\ UNCHANGED <<ksVars, now, store, accepted, forgotten>>

GotKeys_IgnoresError(v) ==
  /\ pc[v] = "get"
  /\ KS!End(v)
  /\ Goto(v, "attempt")
  /\ UNCHANGED <<call, types, err, verdict, since, now, store, accepted, forgotten>>

\* withKeys: source.Get returns.
GotKeys(v) ==
  /\ pc[v] = "get"
  /\ KS!End(v)
  /\ IF given'[v] = KS!NoSet
       THEN Return(v, {"NoKeys"})
       ELSE Goto(v, "attempt") /\ UNCHANGED <<call, types, err, verdict, since>>
  /\ UNCHANGED <<now, store, accepted, forgotten>>

\* An attempt with the keys that the source gave; its types join the others.
Attempts == [c \in Calls |-> [w \in 1..MaxVersion |-> Attempt(c, Published[w])]]
Tried(v) == Attempts[call[v]][given[v]]

Passes(v, tried) ==
  /\ tried.err = {}
  /\ types' = [types EXCEPT ![v] = @ \o tried.types]
  /\ Goto(v, "claims")
  /\ UNCHANGED <<ksVars, call, err, verdict, since>>

Fails(v, tried) ==
  /\ tried.err # {}
  /\ Return(v, tried.err)
  /\ UNCHANGED ksVars

\* The first attempt.  Only ErrNoSuitableKey makes withKeys refresh.
CallsRefresh(tried) == Refreshes /\ "NoSuitableKey" \in tried.err

FirstAttempt(v) ==
  /\ pc[v] = "attempt"
  /\ \E tried \in {Tried(v)} :
       \/ Passes(v, tried)
       \/ /\ CallsRefresh(tried)
          /\ types' = [types EXCEPT ![v] = @ \o tried.types]
          /\ err' = [err EXCEPT ![v] = tried.err]
          /\ Goto(v, "refresh")
          /\ KS!Begin(v)
          /\ UNCHANGED <<call, verdict, since>>
       \/ ~CallsRefresh(tried) /\ Fails(v, tried)
  /\ UNCHANGED <<now, store, accepted, forgotten>>

\* source.Refresh returns; its error joins that of the attempt.
Refreshed(v) ==
  /\ pc[v] = "refresh"
  /\ KS!End(v)
  /\ IF given'[v] = KS!NoSet
       THEN Return(v, err[v] \union {"NoKeys"})
       ELSE Goto(v, "retry") /\ UNCHANGED <<call, types, err, verdict, since>>
  /\ UNCHANGED <<now, store, accepted, forgotten>>

SecondAttempt_Again(v) ==
  /\ pc[v] = "retry"
  /\ \E tried \in {Tried(v)} :
       \/ Passes(v, tried)
       \/ /\ tried.err # {}
          /\ Goto(v, "refresh")
          /\ KS!Begin(v)
          /\ UNCHANGED <<call, types, err, verdict, since>>
  /\ UNCHANGED <<now, store, accepted, forgotten>>

SecondAttempt(v) ==
  /\ pc[v] = "retry"
  /\ \E tried \in {Tried(v)} : Passes(v, tried) \/ Fails(v, tried)
  /\ UNCHANGED <<now, store, accepted, forgotten>>

\* What the model counts when Verify gives nil after Record.
Accept(v) ==
  accepted' = [accepted EXCEPT ![Carried[call[v]].jti] = IF @ = 2 THEN 2 ELSE @ + 1]

Entry(v) == [jti |-> Carried[call[v]].jti, exp |-> Carried[call[v]].exp]

CheckClaims_RecordsFirst(v) ==
  /\ pc[v] = "claims"
  /\ store' = store \union {Entry(v)}
  /\ LET e == ClaimsError(call[v], types[v], now) IN
     /\ Return(v, e)
     /\ IF e = {} THEN Accept(v) ELSE UNCHANGED accepted
  /\ UNCHANGED <<ksVars, now, forgotten>>

\* checkClaims, up to the store.
CheckClaims(v) ==
  /\ pc[v] = "claims"
  /\ LET e == ClaimsError(call[v], types[v], now)
         replay == e = {} /\ Config[call[v]].replay
     IN IF replay /\ Carried[call[v]].jti # Absent
          THEN Goto(v, "record") /\ UNCHANGED <<call, types, err, verdict, since>>
        ELSE Return(v, IF replay THEN {"MissingClaim"} ELSE e)
  /\ UNCHANGED <<ksVars, now, store, accepted, forgotten>>

Record_NotChecked(v) ==
  /\ pc[v] = "record"
  /\ store' = store \union {Entry(v)}
  /\ Return(v, {})
  /\ Accept(v)
  /\ UNCHANGED <<ksVars, now, forgotten>>

\* idStore.Record: one operation of the store, which may also fail.
Record(v) ==
  /\ pc[v] = "record"
  /\ IF Entry(v).jti \in {entry.jti : entry \in store}
       THEN Return(v, {"Replayed"}) /\ UNCHANGED <<store, accepted>>
       ELSE /\ store' = store \union {Entry(v)}
            /\ Return(v, {})
            /\ Accept(v)
  /\ UNCHANGED <<ksVars, now, forgotten>>

RecordFails(v) ==
  /\ pc[v] = "record"
  /\ Return(v, {"Store"})
  /\ UNCHANGED <<ksVars, now, store, accepted, forgotten>>

\* The environment: "An implementation can forget an entry after that time"
\* (the comment of IDStore.Record).
Forget(entry) ==
  /\ entry.exp # NoTime /\ now > entry.exp
  /\ store' = store \ {entry}
  /\ forgotten' = forgotten \union {entry.jti}
  /\ UNCHANGED <<ksVars, own, now, accepted>>

Tick ==
  /\ now < MaxTime
  /\ now' = now + 1
  /\ UNCHANGED <<ksVars, own, store, accepted, forgotten>>

Source ==
  /\ KS!Publish \/ KS!Learn
  /\ UNCHANGED <<own, now, store, accepted, forgotten>>

Step(v) ==
  GotKeys(v) \/ FirstAttempt(v) \/ Refreshed(v) \/ SecondAttempt(v)
    \/ CheckClaims(v) \/ Record(v) \/ RecordFails(v)

Next ==
  \/ \E v \in Verifiers : \/ \E c \in Calls : Begin(v, c) \/ Unsigned(v, c)
                          \/ Step(v)
  \/ \E entry \in store : Forget(entry)
  \/ Tick
  \/ Source

Spec == Init /\ [][Next]_vars

\* Each goroutine runs, and each call of the source ends, as its contract
\* says; nobody is obliged to call, to publish or to let time pass.
FairSpec == Spec /\ \A v \in Verifiers : WF_vars(Step(v))

-----------------------------------------------------------------------------
(* Properties *)

Claims(v) == Carried[call[v]]

\* Every variable has its type, and a verification waits for the source exactly
\* while a call of the source is open.
TypeOK ==
  /\ pc \in [Verifiers -> Steps]
  /\ call \in [Verifiers -> Calls \union {NoCall}]
  /\ \A v \in Verifiers : pc[v] = "idle" <=> call[v] = NoCall
  /\ \A v \in Verifiers : pc[v] \in {"attempt", "retry"} => given[v] \in 1..MaxVersion
  /\ \A v \in Verifiers : pc[v] \in {"get", "refresh"} <=> v \in pending
  /\ now \in 0..MaxTime
  /\ accepted \in [Identifiers -> 0..2]

Ends(v) == pc[v] # "idle" /\ pc'[v] = "idle"
Accepts(v) == Ends(v) /\ verdict'[v] = {}

\* What the specification of a signature asks: an algorithm that the caller
\* permits, and a key that suits the header and made the signature.
Vouches(key, sig) == key.material = sig.signer /\ Suitable(key, Request(sig))

Backed(c, sig, keys) ==
  /\ sig.alg \in Permitted(c)
  /\ \/ \E i \in DOMAIN keys : Vouches(keys[i], sig)
     \/ \E key \in sig.jwk : Config[c].headerKeys /\ key.trusted /\ Vouches(key, sig)

\* As many signatures as the configuration asks for are Good.
Enough(c, Good(_)) ==
  LET sigs == Carried[c].sigs
  IN IF Config[c].allSignatures THEN \A i \in DOMAIN sigs : Good(sigs[i])
     ELSE \E i \in DOMAIN sigs : Good(sigs[i])

\* The sets that a verification may rely on: what the source held when it
\* began, and what was published until it ended.
Current(v) == {w \in 1..version : w >= since[v].known}

\* A revoked key is gone: no token is accepted on the keys of a set that the
\* source had already replaced when Verify began, nor on some keys of one set
\* and some of another when the keys change between the two attempts.
RevocationHolds ==
  [][\A v \in Verifiers : Accepts(v) =>
       \E w \in Current(v) :
         Enough(call[v], LAMBDA sig : sig.wellFormed /\ Backed(call[v], sig, Published[w]))]_vars

\* The "typ" that was checked is of a signature that verified (the comments of
\* Verify and checkType): a header that nobody signed does not make a token of
\* one kind pass as another kind.
TypeIsSigned ==
  [][\A v \in Verifiers : Accepts(v) =>
       \E w \in Current(v) :
         Enough(call[v], LAMBDA sig : /\ TypeAccepted(call[v], sig.typ)
                                      /\ Backed(call[v], sig, Published[w]))]_vars

\* A token that the published keys authenticate, throughout the verification,
\* is not rejected for its signatures ("a token that verifies with a published
\* key continues to verify", the comment of WithHeaderKey): with one exception,
\* a signature whose header has a key that is none.
OfSignatures == {"Forbidden", "HeaderKey", "Refused", "NoSuitableKey", "Unverified"}

OfPublished(c, keys) ==
  /\ Enough(c, LAMBDA sig : /\ sig.alg \in Permitted(c) /\ ~HeaderError(c, sig)
                            /\ \E k \in DOMAIN keys : Vouches(keys[k], sig))
  /\ \A i \in DOMAIN Carried[c].sigs : Carried[c].sigs[i].wellFormed

PublishedKeySuffices ==
  [][\A v \in Verifiers :
       Ends(v) /\ verdict'[v] \intersect OfSignatures # {}
         => \E w \in Current(v) : ~OfPublished(call[v], Published[w])]_vars

\* An accepted token was within all its limits at one and the same instant of
\* the verification, give or take the leeway.
WithinLimits(c, at) ==
  LET t == Carried[c]
      notAfter(limit) == at <= limit + Config[c].leeway
      notBefore(limit) == at >= limit - Config[c].leeway
  IN /\ t.exp # NoTime => notAfter(t.exp)
     /\ t.nbf # NoTime => notBefore(t.nbf)
     /\ Config[c].maxAge > 0 => /\ t.iat # NoTime
                                /\ notBefore(t.iat) /\ notAfter(t.iat + Config[c].maxAge)

InLifetime ==
  [][\A v \in Verifiers : Accepts(v) =>
       \E at \in since[v].now .. now : WithinLimits(call[v], at)]_vars

\* Only an accepted token uses up its identifier: a token that is rejected, for
\* whatever reason and however late, does not make a later one a replay.
OnlyAcceptedRecorded ==
  \A entry \in store : accepted[entry.jti] > 0

\* While the store holds its identifier, one token is accepted one time, also by
\* two recipients at the same time (the comment of IDStore.Record).
OnceWhileKept ==
  \A id \in Identifiers : accepted[id] <= 1 \/ id \in forgotten

\* Every verification ends, whatever the keys and the store do.
EveryVerifyEnds == \A v \in Verifiers : pc[v] # "idle" ~> pc[v] = "idle"

(* What the comments say and the code does not do *)

\* "An implementation can forget an entry after that time, because a token after
\* its expiration gives ErrExpired and never reaches this method" (the comment of
\* IDStore.Record): a store that does so accepts one token one time.
AcceptedOnce == \A id \in Identifiers : accepted[id] <= 1

\* "This option cannot make the permitted algorithms more" (the comment of
\* WithRequiredAlgorithms): an accepted token has a signature with an algorithm
\* that each use of the option permits.
EachLimitHolds ==
  [][\A v \in Verifiers : Accepts(v) =>
       \E i \in DOMAIN Claims(v).sigs : \A algorithms \in Config[call[v]].required :
         Claims(v).sigs[i].alg \in algorithms]_vars

=============================================================================
