------------------------------- MODULE Token -------------------------------
(***************************************************************************)
(* The life of a jwt.Token (token.go, encryption.go): a caller makes it    *)
(* with options or reads it, signs it, encrypts it, writes it, verifies it *)
(* and decrypts it, in any sequence, and the signers and encrypters, which *)
(* may be devices, can fail between two signatures.  tok is the Go struct; *)
(* an operation is a set of outcomes, a token with the error or the        *)
(* document that goes with it.                                             *)
(*                                                                         *)
(* A claims set is a model value and its encoding is the claims set that   *)
(* was encoded.  How a signature verifies is in Verification; here it does *)
(* when a trusted party made it over the octets of the payload.            *)
(***************************************************************************)
EXTENDS Integers, FiniteSets, SequencesExt

CONSTANTS
  Claims,       (* claims sets                                             *)
  Empty,        (* the claims set of new(payload)                          *)
  NoText,       (* an empty payload.encodedPayload                         *)
  Signers,      (* who makes signatures                                    *)
  Trusted,      (* those whose keys the recipient has                      *)
  Rules,        (* issuance rules: each is the claims sets that it         *)
                (* accepts, and Confirms is the rule of WithConfirmation   *)
  Confirms,
  Cnf,          (* of a claims set: "jwk", "jwe" and "jku" of its "cnf"    *)
                (* claim, each of them Absent, Malformed or a value        *)
  Presented,    (* claims sets with a "sub" or an "iss"                    *)
  Absent, Malformed, Symmetric,
  Received,     (* documents that other parties send                       *)
  MaxOptions,   (* bound: the signatures that options give a token         *)
  MaxSignatures (* bound: those of a token, with the pending ones and what *)
                (* calls that failed left made                             *)

\* "here" is history: this token made the signature, it was not read.
Signature == [by : Signers, over : Claims, here : BOOLEAN]
Sign(signer, over) == [by |-> signer, over |-> over, here |-> TRUE]
Read(signatures) == [i \in DOMAIN signatures |-> [signatures[i] EXCEPT !.here = FALSE]]

\* A document: a JWS with its payload and signatures, or a JWE whose plaintext
\* is such a JWS (nested) or a claims set; NoText is one that does not decode.
JWS(claims, signatures) ==
  [kind |-> "JWS", nested |-> FALSE, claims |-> claims, signatures |-> signatures]
JWE(nested, claims, signatures) ==
  [kind |-> "JWE", nested |-> nested, claims |-> claims, signatures |-> signatures]
Nothing == [kind |-> "none", nested |-> FALSE, claims |-> Empty, signatures |-> <<>>]

\* A JWS has a payload and at least one signature; a nested JWS has one.
IsDocument(d) ==
  /\ d \in [kind : {"JWS", "JWE"}, nested : BOOLEAN, claims : Claims \union {NoText},
             signatures : Seq(Signature)]
  /\ Len(d.signatures) <= MaxSignatures
  /\ d.kind = "JWS" => ~d.nested /\ d.claims \in Claims /\ d.signatures # <<>>
  /\ d.kind = "JWE" => d.nested = (Len(d.signatures) = 1)

ASSUME TokenAssumption ==
  /\ Empty \in Claims /\ NoText \notin Claims
  /\ Trusted \subseteq Signers
  /\ MaxOptions \in Nat /\ MaxSignatures \in Nat /\ MaxOptions <= MaxSignatures
  /\ MaxSignatures >= 1
  /\ \A d \in Received : IsDocument(d)

VARIABLES
  tok,          (* the Token                                               *)
  written       (* what Marshal or MarshalJSON gave, if it was the last    *)
                (* call                                                    *)

VARIABLES       \* history, read by properties only
  secret,       (* WithEncryption was given                                *)
  demanded,     (* the token was last accepted by a Decrypt that required  *)
                (* a nested token                                          *)
  changed       (* the caller put new claims on a token that was already   *)
                (* encoded, verified or read, or a signature on a JWE      *)

history == <<secret, demanded, changed>>
vars == <<tok, written, history>>

Zero ==
  [claims |-> Empty, encoded |-> NoText, signatures |-> <<>>, pending |-> <<>>, rules |-> {},
   encrypting |-> FALSE, message |-> Nothing, verified |-> FALSE]

Init ==
  /\ tok = Zero
  /\ written = Nothing
  /\ secret = FALSE /\ demanded = FALSE /\ changed = FALSE

-----------------------------------------------------------------------------
(* What the methods do to a token: sets of outcomes *)

Outcome(t, ok) == [tok |-> t, ok |-> ok]

\* payload.Marshal keeps the first encoding.
Encode(t) == IF t.encoded = NoText THEN [t EXCEPT !.encoded = t.claims] ELSE t

Made_FailureUnkept(t, n) ==
  LET e == Encode(t)
      new == [i \in 1..n |-> Sign(t.pending[i], e.encoded)]
      all == n = Len(t.pending)
  IN Outcome([IF all THEN e ELSE t EXCEPT !.signatures = @ \o new,
                                          !.pending = IF all THEN <<>> ELSE @], all)

\* sign: it makes the first n of the pending signatures, and fails unless those
\* are all; only then they are no longer pending.
Made(t, n) ==
  LET e == Encode(t)
      new == [i \in 1..n |-> Sign(t.pending[i], e.encoded)]
      all == n = Len(t.pending)
  IN Outcome([e EXCEPT !.signatures = @ \o new,
                       !.pending = IF all THEN <<>> ELSE @], all)

\* Token.Confirmation gives no error: each member can be read, and at most one
\* of them names a key (the single-key rule).
KeysNamed(claims) == {member \in {"jwk", "jwe", "jku"} : Cnf[claims][member] # Absent}
OneKey(claims) == Cardinality(KeysNamed(claims)) <= 1
Readable(claims) ==
  OneKey(claims) /\ \A member \in KeysNamed(claims) : Cnf[claims][member] # Malformed

\* checkConfirmationIssuance.
MayConfirm_AnyKey(claims, encrypted) == claims \in Presented /\ Readable(claims)
MayConfirm(claims, encrypted) ==
  /\ claims \in Presented
  /\ Readable(claims)
  /\ Cnf[claims]["jwk"] = Symmetric => encrypted

Accepts(rule, claims, encrypted) ==
  IF rule = Confirms THEN MayConfirm(claims, encrypted) ELSE claims \in rule

RulesAccept(t) == \A rule \in t.rules : Accepts(rule, t.claims, t.encrypting)

SignOutcomes_RulesLast(t) ==
  {Outcome(s.tok, s.ok /\ RulesAccept(t)) : s \in {Made(t, n) : n \in 0..Len(t.pending)}}

\* The payload may not encode, and each signer may fail.
SignOutcomes(t) ==
  IF t.pending = <<>> THEN {Outcome(t, TRUE)}
  ELSE IF ~RulesAccept(t) THEN {Outcome(t, FALSE)}
  ELSE {Outcome(t, FALSE)} \union {Made(t, n) : n \in 0..Len(t.pending)}

\* encrypt and plaintext.  The encrypter can fail after the signer.
Sealed(t) ==
  LET e == Encode(t)
  IN Outcome([e EXCEPT !.message = JWE(TRUE, e.encoded, e.signatures), !.encrypting = FALSE],
             TRUE)

PlaintextOutcomes(t) ==
  IF t.pending = <<>> /\ t.signatures = <<>>
    THEN {Outcome([t EXCEPT !.message = JWE(FALSE, t.claims, <<>>), !.encrypting = FALSE], TRUE)}
  ELSE {IF s.ok /\ Len(s.tok.signatures) = 1 THEN Sealed(s.tok) ELSE Outcome(s.tok, FALSE)
          : s \in SignOutcomes(t)}

EncryptFailures(t) == {Outcome(s.tok, FALSE) : s \in SignOutcomes(t)}

EncryptOutcomes(t) ==
  IF t.encrypting THEN PlaintextOutcomes(t) \union EncryptFailures(t)
  ELSE {Outcome(t, TRUE)}

WriteSigned_Unsigned(s, json) ==
  LET e == Encode(s.tok)
  IN [tok |-> e, document |-> IF s.ok THEN JWS(e.encoded, e.signatures) ELSE Nothing]

\* Marshal writes one signature, MarshalJSON one or more.
WriteSigned(s, json) ==
  LET n == Len(s.tok.signatures)
      e == Encode(s.tok)
  IN IF ~s.ok THEN [tok |-> s.tok, document |-> Nothing]
     ELSE IF n = 0 \/ (n > 1 /\ ~json)
       THEN [tok |-> IF json THEN e ELSE s.tok, document |-> Nothing]
     ELSE [tok |-> e, document |-> JWS(e.encoded, e.signatures)]

WriteOutcomes_Clear(t, json) ==
  IF t.message # Nothing THEN {[tok |-> t, document |-> t.message]}
  ELSE {WriteSigned(s, json) : s \in SignOutcomes(t)}

WriteOutcomes(t, json) ==
  IF t.encrypting \/ t.message # Nothing
    THEN {[tok |-> s.tok, document |-> IF s.ok THEN s.tok.message ELSE Nothing] :
            s \in EncryptOutcomes(t)}
  ELSE {WriteSigned(s, json) : s \in SignOutcomes(t)}

Verifies_Any(t) == \E i \in DOMAIN t.signatures : t.signatures[i].by \in Trusted
Verifies(t) ==
  \E i \in DOMAIN t.signatures :
    t.signatures[i].by \in Trusted /\ t.signatures[i].over = t.encoded

\* Verify: satisfactory says what checkClaims finds.
VerifyOutcomes(t, satisfactory) ==
  {LET e == Encode(s.tok) IN
     IF ~s.ok \/ s.tok.signatures = <<>> THEN Outcome(s.tok, FALSE)
     ELSE IF Verifies(e) /\ satisfactory THEN Outcome([e EXCEPT !.verified = TRUE], TRUE)
     ELSE Outcome(e, FALSE)
   : s \in SignOutcomes(t)}

\* adoptNested: the inner token replaces payload and signatures, then Verify.
Adopted(t) ==
  [t EXCEPT !.claims = t.message.claims, !.encoded = t.message.claims,
            !.signatures = Read(t.message.signatures)]

AdoptOutcomes(t, satisfactory) ==
  IF t.message.claims = NoText THEN {Outcome(t, FALSE)}
  ELSE VerifyOutcomes(Adopted(t), satisfactory)

\* decrypt, for a plaintext that is a claims set: it empties the payload before
\* it decodes the plaintext.
ReadPlaintext(t, satisfactory) ==
  LET r == [t EXCEPT !.claims = IF t.message.claims = NoText THEN Empty ELSE t.message.claims,
                     !.encoded = NoText]
  IN IF t.message.claims # NoText /\ satisfactory
       THEN Outcome([r EXCEPT !.verified = TRUE], TRUE)
     ELSE Outcome(r, FALSE)

\* Decrypt: there may be no message, or no key for it; requireNested is
\* WithRequiredNestedToken.
DecryptOutcomes(t, satisfactory, requireNested) ==
  UNION {{Outcome(s.tok, FALSE)} \union
         (IF ~s.ok \/ s.tok.message = Nothing THEN {}
          ELSE IF s.tok.message.nested THEN AdoptOutcomes(s.tok, satisfactory)
          ELSE IF requireNested THEN {}
          ELSE {ReadPlaintext(s.tok, satisfactory)})
         : s \in EncryptOutcomes(t)}

-----------------------------------------------------------------------------
(* The callers *)

\* NewToken with its options, in any sequence.  A token is made or read once;
\* nothing of one token is in another, except what is written and read.
New(claims, by, rules, encrypted) ==
  /\ tok = Zero
  /\ tok' = [Zero EXCEPT !.claims = claims, !.pending = by, !.rules = rules,
                         !.encrypting = encrypted]
  /\ written' = Nothing
  /\ secret' = encrypted /\ demanded' = FALSE /\ changed' = FALSE

\* Unmarshal gives a new token; a document is what others send or what this
\* caller wrote.
Documents == (Received \union {written}) \ {Nothing}

Payload(document) ==
  IF document.kind = "JWE" THEN [Zero EXCEPT !.message = [document EXCEPT !.signatures = Read(@)]]
  ELSE [Zero EXCEPT !.claims = document.claims, !.encoded = document.claims,
                    !.signatures = Read(document.signatures)]

Unmarshal(document) ==
  /\ tok' = Payload(document)
  /\ written' = Nothing
  /\ secret' = FALSE /\ demanded' = FALSE /\ changed' = FALSE

\* UnmarshalJSON writes on the token that it is called on.
UnmarshalJSON(document) ==
  /\ document.kind = "JWS"
  /\ tok' = [tok EXCEPT !.claims = document.claims, !.encoded = document.claims,
                        !.signatures = Read(document.signatures), !.pending = <<>>]
  /\ changed' = (changed \/ tok # Zero)
  /\ written' = Nothing
  /\ UNCHANGED <<secret, demanded>>

\* The options, on a token that is in use.
Signatures(t) == Len(t.pending) + Len(t.signatures)

WithClaims(claims) ==
  /\ tok' = [tok EXCEPT !.claims = claims]
  /\ changed' = (changed \/ tok.verified \/ tok.encoded # NoText)
  /\ written' = Nothing
  /\ UNCHANGED <<secret, demanded>>

WithSignature(by) ==
  /\ Signatures(tok) < MaxOptions
  /\ tok' = [tok EXCEPT !.pending = Append(@, by)]
  /\ changed' = (changed \/ tok.message # Nothing)
  /\ written' = Nothing
  /\ UNCHANGED <<secret, demanded>>

WithIssuanceRule(rule) ==
  /\ tok' = [tok EXCEPT !.rules = @ \union {rule}]
  /\ written' = Nothing
  /\ UNCHANGED history

\* WithConfirmation applies the single-key rule, sets the claim and adds the
\* other rules, for the time of the signature.
WithConfirmation(claims) ==
  /\ Readable(claims)
  /\ tok' = [tok EXCEPT !.claims = claims, !.rules = @ \union {Confirms}]
  /\ changed' = (changed \/ tok.verified \/ tok.encoded # NoText)
  /\ written' = Nothing
  /\ UNCHANGED <<secret, demanded>>

WithEncryption ==
  /\ tok' = [tok EXCEPT !.encrypting = TRUE]
  /\ secret' = TRUE
  /\ written' = Nothing
  /\ UNCHANGED <<demanded, changed>>

\* Bound: each call of sign that fails between two signers leaves what it made
\* beside all that is pending, and the next call makes it again.
Becomes(t) == Signatures(t) <= MaxSignatures /\ tok' = t

Marshal(json) ==
  /\ \E w \in WriteOutcomes(tok, json) : Becomes(w.tok) /\ written' = w.document
  /\ UNCHANGED history

Verify(satisfactory) ==
  /\ \E o \in VerifyOutcomes(tok, satisfactory) :
       Becomes(o.tok) /\ demanded' = (demanded /\ ~o.ok)
  /\ written' = Nothing
  /\ UNCHANGED <<secret, changed>>

Decrypt(satisfactory, requireNested) ==
  /\ \E o \in DecryptOutcomes(tok, satisfactory, requireNested) :
       Becomes(o.tok) /\ demanded' = IF o.ok THEN requireNested ELSE demanded
  /\ written' = Nothing
  /\ UNCHANGED <<secret, changed>>

Next ==
  \/ \E claims \in Claims, rules \in SUBSET Rules, encrypted \in BOOLEAN,
        by \in UNION {[1..n -> Signers] : n \in 0..MaxOptions} :
       New(claims, by, rules, encrypted)
  \/ \E document \in Documents : Unmarshal(document) \/ UnmarshalJSON(document)
  \/ \E claims \in Claims : WithClaims(claims) \/ WithConfirmation(claims)
  \/ \E by \in Signers : WithSignature(by)
  \/ \E rule \in Rules \ {Confirms} : WithIssuanceRule(rule)
  \/ WithEncryption
  \/ \E json \in BOOLEAN : Marshal(json)
  \/ \E satisfactory \in BOOLEAN :
       Verify(satisfactory) \/ \E requireNested \in BOOLEAN : Decrypt(satisfactory, requireNested)

Spec == Init /\ [][Next]_vars

-----------------------------------------------------------------------------
(* Properties *)

\* Every variable has its type, and a document holds no signature that is not
\* made.
TypeOK ==
  /\ tok.claims \in Claims /\ tok.encoded \in Claims \union {NoText}
  /\ \A i \in DOMAIN tok.signatures : tok.signatures[i] \in Signature
  /\ \A i \in DOMAIN tok.pending : tok.pending[i] \in Signers
  /\ Signatures(tok) <= MaxSignatures
  /\ written.kind = "JWS" => written.signatures # <<>> /\ written.claims \in Claims
  /\ written.kind = "JWE" => written.nested = (Len(written.signatures) = 1)

\* A party that the recipient trusts signed the claims that the accessors give,
\* or they came alone in the JWE that was decrypted, which is not enough when a
\* nested token is required.
Authenticated ==
    \/ \E i \in DOMAIN tok.signatures : tok.signatures[i].by \in Trusted
                                       /\ tok.signatures[i].over = tok.claims
    \/ /\ ~demanded
       /\ tok.message.kind = "JWE" /\ ~tok.message.nested
       /\ tok.message.claims = tok.claims

\* However a token is made, read, signed, encrypted, decrypted and verified, and
\* whatever fails on the way, Verified is true of authentic claims only, unless
\* the caller itself put other claims or signatures on a token in use.
AuthenticClaims == tok.verified /\ ~changed => Authenticated

\* Verified "reports whether this package authenticated the claims of the token"
\* (its comment), which is what UnmarshalJSON on a verified token breaks.
VerifiedIsAuthentic == tok.verified => Authenticated

\* What a signature of this token covers is what every rule accepted ("this
\* package does not write a token that one of the rules rejects", the comment of
\* IssuanceRule), unless the claims changed after they were encoded.
Ours(t) == {i \in DOMAIN t.signatures : t.signatures[i].here}
Signs == \E i \in Ours(tok') : i \notin Ours(tok)

SignsAccepted ==
  Signs /\ ~changed => \A rule \in tok.rules, i \in Ours(tok') \ Ours(tok) :
                          Accepts(rule, tok'.signatures[i].over, secret)

RulesGuard == [][SignsAccepted]_vars

\* "a signed JWT that each reader can read and that publishes the secret whose
\* possession it asks a party to prove" (the comment of
\* ErrUnprotectedConfirmationKey) is never written, in whatever sequence the
\* options are given and whatever signer or encrypter fails.
ConfirmationKeySecret ==
  Confirms \in tok.rules /\ ~changed /\ written.kind = "JWS" =>
    Cnf[written.claims]["jwk"] # Symmetric \/ \A i \in DOMAIN written.signatures : ~written.signatures[i].here

\* A caller that asked for encryption never gets the claims in clear, also not
\* from a later call when the encryption failed.
WritesNoClaims == secret /\ written' # written => written'.kind # "JWS"

NeverInClear == [][WritesNoClaims]_vars

\* A signature that this token made verifies in the document that carries it,
\* also when an earlier call made it and failed.
SignaturesFit ==
  ~changed => \A i \in DOMAIN written.signatures :
    written.signatures[i].here => written.signatures[i].over = written.claims

=============================================================================
