---------------------------- MODULE TokenProofs ----------------------------
(***************************************************************************)
(* Proofs about Token, for any claims sets, rules, signers and documents:  *)
(* what is signed is what the rules accept, what is to be encrypted is     *)
(* never written in clear, and what is verified is authentic, also when a  *)
(* signer or an encrypter fails between two signatures.                    *)
(***************************************************************************)
EXTENDS Token, TLAPS

-----------------------------------------------------------------------------
(* The inductive invariant *)

IsToken(t) ==
  /\ t \in [claims : Claims, encoded : Claims \union {NoText}, signatures : Seq(Signature),
            pending : Seq(Signers), rules : SUBSET (Rules \union {Confirms}),
            encrypting : BOOLEAN, message : {t.message}, verified : BOOLEAN]
  /\ t.message = Nothing \/ (IsDocument(t.message) /\ t.message.kind = "JWE")

\* A token of a caller that asked for encryption still has it to do, or is done.
Guarded(t, s) ==
  /\ t.encrypting => s
  /\ s => t.encrypting \/ t.message # Nothing

Fits(signatures, claims) ==
  \A i \in DOMAIN signatures : signatures[i].here => signatures[i].over = claims

Trustworthy(t) ==
  \E i \in DOMAIN t.signatures : t.signatures[i].by \in Trusted /\ t.signatures[i].over = t.claims

Alone(t) == t.message.kind = "JWE" /\ ~t.message.nested /\ t.message.claims = t.claims

\* What holds of a token on which the caller put nothing while it was in use: s
\* and d are secret and demanded.
Sound(t, s, d) ==
  /\ t.encoded \in {NoText, t.claims}
  /\ Fits(t.signatures, t.encoded)
  /\ Fits(t.message.signatures, t.message.claims)
  /\ t.message # Nothing => t.pending = <<>>
  /\ t.message # Nothing /\ ~t.message.nested => t.signatures = <<>>
  /\ t.message.nested /\ t.signatures # <<>> =>
       /\ Read(t.signatures) = Read(t.message.signatures)
       /\ t.claims = t.encoded /\ t.claims = t.message.claims
  /\ Confirms \in t.rules /\ Ours(t) # {} => MayConfirm(t.encoded, s)
  /\ t.verified => Trustworthy(t) \/ (~d /\ Alone(t))

TokenOK(t, d) == IsToken(t) /\ Guarded(t, secret) /\ (~changed => Sound(t, secret, d))

WrittenOK ==
  /\ written = Nothing \/ IsDocument(written)
  /\ ~changed => Fits(written.signatures, written.claims)

Flags == secret \in BOOLEAN /\ demanded \in BOOLEAN /\ changed \in BOOLEAN

IInv ==
  /\ Flags
  /\ TokenOK(tok, demanded) /\ Signatures(tok) <= MaxSignatures
  /\ WrittenOK
  /\ ConfirmationKeySecret

-----------------------------------------------------------------------------
(* Signatures and encodings *)

LEMMA ReadGives ==
  ASSUME NEW signatures \in Seq(Signature)
  PROVE  /\ Read(signatures) \in Seq(Signature)
         /\ Len(Read(signatures)) = Len(signatures)
         /\ DOMAIN Read(signatures) = DOMAIN signatures
         /\ \A i \in DOMAIN signatures :
              /\ ~Read(signatures)[i].here
              /\ Read(signatures)[i].by = signatures[i].by
              /\ Read(signatures)[i].over = signatures[i].over
         /\ Read(Read(signatures)) = Read(signatures)
<1>1. \A i \in DOMAIN signatures : signatures[i] \in Signature
  OBVIOUS
<1>2. /\ DOMAIN Read(signatures) = DOMAIN signatures
      /\ \A i \in DOMAIN signatures :
           Read(signatures)[i] = [signatures[i] EXCEPT !.here = FALSE]
  BY DEF Read
<1>3. \A i \in DOMAIN signatures :
        /\ Read(signatures)[i] \in Signature /\ ~Read(signatures)[i].here
        /\ Read(signatures)[i].by = signatures[i].by
        /\ Read(signatures)[i].over = signatures[i].over
        /\ [Read(signatures)[i] EXCEPT !.here = FALSE] = Read(signatures)[i]
  BY <1>1, <1>2 DEF Signature
<1>4. Read(signatures) \in Seq(Signature) /\ Len(Read(signatures)) = Len(signatures)
  <2> DEFINE f == [i \in 1..Len(signatures) |-> [signatures[i] EXCEPT !.here = FALSE]]
  <2>1. Read(signatures) = f
    BY DEF Read
  <2>2. \A i \in 1..Len(signatures) : [signatures[i] EXCEPT !.here = FALSE] \in Signature
    <3>1. \A s \in Signature : [s EXCEPT !.here = FALSE] \in Signature
      BY DEF Signature
    <3>2. \A i \in 1..Len(signatures) : signatures[i] \in Signature
      OBVIOUS
    <3> QED
      BY <3>1, <3>2
  <2>3. f \in Seq(Signature) /\ Len(f) = Len(signatures)
    BY <2>2
  <2> QED
    BY <2>1, <2>3
<1>5. Read(Read(signatures)) = Read(signatures)
  BY <1>2, <1>3 DEF Read
<1> QED
  BY <1>2, <1>3, <1>4, <1>5

\* The encoding that payload.Marshal gives.
Encoding(t) == IF t.encoded = NoText THEN t.claims ELSE t.encoded

LEMMA EncodeGives ==
  ASSUME NEW t, IsToken(t)
  PROVE  /\ IsToken(Encode(t)) /\ Encode(t) = [t EXCEPT !.encoded = Encoding(t)]
         /\ Encoding(t) \in Claims
  BY TokenAssumption DEF IsToken, Encode, Encoding

\* u is t after some of its pending signatures were made.
Extended(t, u) ==
  /\ IsToken(u)
  /\ u = [t EXCEPT !.encoded = u.encoded, !.signatures = u.signatures, !.pending = u.pending]
  /\ u.encoded \in {t.encoded, Encoding(t)}
  /\ DOMAIN t.signatures \subseteq DOMAIN u.signatures
  /\ \A i \in DOMAIN t.signatures : u.signatures[i] = t.signatures[i]
  /\ \A i \in DOMAIN u.signatures \ DOMAIN t.signatures :
       u.signatures[i].over = Encoding(t) /\ u.encoded = Encoding(t) /\ RulesAccept(t)
  /\ t.pending = <<>> => u = t

LEMMA SignGives ==
  ASSUME NEW t, IsToken(t), NEW o \in SignOutcomes(t)
  PROVE  Extended(t, o.tok) /\ o.ok \in BOOLEAN /\ (o.ok => o.tok.pending = <<>>)
<1>1. ASSUME o = Outcome(t, TRUE) \/ o = Outcome(t, FALSE),
             o.ok => t.pending = <<>>
      PROVE  Extended(t, o.tok) /\ o.ok \in BOOLEAN /\ (o.ok => o.tok.pending = <<>>)
  <2>1. o.tok = t
    BY <1>1 DEF Outcome
  <2>4. o.ok = TRUE \/ o.ok = FALSE
    <3>1. ASSUME NEW ok \in BOOLEAN, o = Outcome(t, ok) PROVE o.ok = ok
      BY <3>1 DEF Outcome
    <3> QED
      BY <1>1, <3>1
  <2>2. t = [t EXCEPT !.encoded = t.encoded, !.signatures = t.signatures, !.pending = t.pending]
    BY DEF IsToken
  <2>3. Extended(t, t)
    BY <2>2 DEF Extended
  <2> QED
    BY <1>1, <2>1, <2>3, <2>4
<1>2. ASSUME t.pending # <<>>, RulesAccept(t), NEW n \in 0..Len(t.pending), o = Made(t, n)
      PROVE  Extended(t, o.tok) /\ o.ok \in BOOLEAN /\ (o.ok => o.tok.pending = <<>>)
  <2> DEFINE e == Encode(t)
             new == [i \in 1..n |-> Sign(t.pending[i], e.encoded)]
             all == n = Len(t.pending)
             u == [e EXCEPT !.signatures = t.signatures \o new,
                            !.pending = IF all THEN <<>> ELSE t.pending]
  <2>1. IsToken(e) /\ e = [t EXCEPT !.encoded = Encoding(t)] /\ Encoding(t) \in Claims
    BY EncodeGives
  <2>2. e.encoded = Encoding(t) /\ e.signatures = t.signatures /\ e.pending = t.pending
    BY <2>1 DEF IsToken
  <2>3. o = Outcome(u, all)
    BY <1>2, <2>2 DEF Made
  <2>4. t.signatures \in Seq(Signature) /\ t.pending \in Seq(Signers)
    BY DEF IsToken
  <2>5. /\ new \in Seq(Signature) /\ Len(new) = n
        /\ \A i \in 1..n : new[i].over = Encoding(t)
    <3>1. \A i \in 1..n : Sign(t.pending[i], e.encoded) \in Signature
                          /\ Sign(t.pending[i], e.encoded).over = Encoding(t)
      BY <2>1, <2>2, <2>4 DEF Sign, Signature
    <3> QED
      BY <3>1
  <2> HIDE DEF new, e
  <2> DEFINE sigs == t.signatures \o new
  <2>6. /\ sigs \in Seq(Signature) /\ Len(sigs) = Len(t.signatures) + n
        /\ \A i \in 1..Len(t.signatures) : sigs[i] = t.signatures[i]
        /\ \A i \in 1..Len(sigs) : i > Len(t.signatures) => sigs[i] = new[i - Len(t.signatures)]
    <3>1. Len(t.signatures) \in Nat /\ n \in Nat
      BY <2>4
    <3>2. \A r, q \in Seq(Signature) :
            /\ r \o q \in Seq(Signature) /\ Len(r \o q) = Len(r) + Len(q)
            /\ \A i \in 1..(Len(r) + Len(q)) :
                 (r \o q)[i] = IF i <= Len(r) THEN r[i] ELSE q[i - Len(r)]
      OBVIOUS
    <3> HIDE DEF sigs
    <3>3. /\ sigs \in Seq(Signature) /\ Len(sigs) = Len(t.signatures) + n
          /\ \A i \in 1..(Len(t.signatures) + n) :
               sigs[i] = IF i <= Len(t.signatures) THEN t.signatures[i]
                         ELSE new[i - Len(t.signatures)]
      BY <2>4, <2>5, <3>2 DEF sigs
    <3> QED
      BY <3>1, <3>3
  <2>7. /\ DOMAIN t.signatures = 1..Len(t.signatures) /\ DOMAIN sigs = 1..Len(sigs)
        /\ Len(t.signatures) \in Nat
    BY <2>4, <2>6
  <2>8. \A i \in DOMAIN sigs \ DOMAIN t.signatures : sigs[i].over = Encoding(t)
    <3> SUFFICES ASSUME NEW i \in DOMAIN sigs \ DOMAIN t.signatures PROVE sigs[i].over = Encoding(t)
      OBVIOUS
    <3>1. i \in 1..Len(sigs) /\ i > Len(t.signatures) /\ i - Len(t.signatures) \in 1..n
      BY <2>6, <2>7
    <3> QED
      BY <2>5, <2>6, <3>1
  <2> DEFINE left == IF all THEN <<>> ELSE t.pending
  <2>9. left \in Seq(Signers) /\ (all => left = <<>>)
    BY <2>4
  <2> HIDE DEF sigs, left
  <2>10. u = [t EXCEPT !.encoded = Encoding(t), !.signatures = sigs, !.pending = left]
    BY <2>1 DEF IsToken, sigs, left
  <2> HIDE DEF u
  <2>11. u.encoded = Encoding(t) /\ u.signatures = sigs /\ u.pending = left /\ IsToken(u)
    BY <2>1, <2>6, <2>9, <2>10 DEF IsToken
  <2>12. Extended(t, u)
    BY <1>2, <2>6, <2>7, <2>8, <2>10, <2>11 DEF Extended
  <2>13. o.tok = u /\ o.ok = all
    BY <2>3 DEF Outcome
  <2> QED
    BY <2>9, <2>11, <2>12, <2>13
<1> QED
  BY <1>1, <1>2 DEF SignOutcomes, Outcome

-----------------------------------------------------------------------------
(* What signing and encoding keep *)

NewlySigned(t, u) ==
  \A i \in Ours(u) \ Ours(t) : u.signatures[i].over = t.claims /\ RulesAccept(t)

\* Encryption permits what no encryption permits.
LEMMA Monotone ==
  ASSUME NEW rule, NEW claims, NEW e \in BOOLEAN, NEW s \in BOOLEAN, e => s,
         Accepts(rule, claims, e)
  PROVE  Accepts(rule, claims, s)
  BY DEF Accepts, MayConfirm

\* A signature that this token made covers claims.
LEMMA OursCover ==
  ASSUME NEW t, IsToken(t), Fits(t.signatures, t.encoded), NEW i \in Ours(t)
  PROVE  t.encoded # NoText /\ t.encoded \in Claims
<1>1. t.signatures \in Seq(Signature) /\ i \in DOMAIN t.signatures /\ t.signatures[i].here
  BY DEF IsToken, Ours
<1>2. t.signatures[i] \in Signature
  BY <1>1
<1> QED
  BY <1>1, <1>2, TokenAssumption DEF Fits, Signature

LEMMA SignSound ==
  ASSUME Flags, NEW d \in BOOLEAN, NEW t, TokenOK(t, d), NEW u, Extended(t, u)
  PROVE  TokenOK(u, d) /\ u.rules = t.rules /\ (~changed => NewlySigned(t, u))
<1>1. /\ IsToken(t) /\ IsToken(u)
      /\ u.claims = t.claims /\ u.rules = t.rules /\ u.encrypting = t.encrypting
      /\ u.message = t.message /\ u.verified = t.verified
  BY DEF TokenOK, Extended, IsToken
<1>2. Guarded(u, secret)
  BY <1>1 DEF TokenOK, Guarded
<1>3. ASSUME ~changed PROVE Sound(u, secret, d) /\ NewlySigned(t, u)
  <2>1. Sound(t, secret, d)
    BY <1>3 DEF TokenOK
  <2>2. CASE t.pending = <<>>
    BY <2>1, <2>2 DEF Extended, NewlySigned
  <2>3. CASE t.pending # <<>>
    <3>1. t.message = Nothing
      BY <2>1, <2>3 DEF Sound
    <3>2. Encoding(t) = t.claims /\ t.claims \in Claims
      BY <1>1, <2>1 DEF Sound, Encoding, IsToken
    <3>3. u.encoded \in {NoText, u.claims}
      BY <1>1, <2>1, <3>2 DEF Sound, Extended
    <3>4. \A i \in Ours(u) : i \in Ours(t) =>
            u.signatures[i] = t.signatures[i] /\ u.encoded = t.encoded /\ t.encoded # NoText
      BY <1>1, <2>1, OursCover DEF Sound, Extended, Ours, Encoding
    <3>5. \A i \in Ours(u) \ Ours(t) :
            u.signatures[i].over = t.claims /\ u.encoded = t.claims /\ RulesAccept(t)
      BY <3>2 DEF Extended, Ours
    <3>6. Fits(u.signatures, u.encoded)
      <4> SUFFICES ASSUME NEW i \in Ours(u) PROVE u.signatures[i].over = u.encoded
        BY DEF Fits, Ours
      <4>1. CASE i \in Ours(t)
        BY <2>1, <3>4, <4>1 DEF Sound, Fits, Ours
      <4>2. CASE i \notin Ours(t)
        BY <3>5, <4>2
      <4> QED
        BY <4>1, <4>2
    <3>7. Confirms \in u.rules /\ Ours(u) # {} => MayConfirm(u.encoded, secret)
      <4> SUFFICES ASSUME Confirms \in t.rules, NEW i \in Ours(u) PROVE MayConfirm(u.encoded, secret)
        BY <1>1
      <4>1. CASE i \in Ours(t)
        BY <2>1, <3>4, <4>1 DEF Sound
      <4>2. CASE i \notin Ours(t)
        <5>1. Accepts(Confirms, t.claims, t.encrypting) /\ u.encoded = t.claims
          BY <3>5, <4>2 DEF RulesAccept
        <5>2. t.encrypting \in BOOLEAN /\ secret \in BOOLEAN /\ (t.encrypting => secret)
          BY <1>1 DEF IsToken, Flags, TokenOK, Guarded
        <5>3. Accepts(Confirms, t.claims, secret)
          BY <5>1, <5>2, Monotone
        <5> QED
          BY <5>1, <5>3 DEF Accepts
      <4> QED
        BY <4>1, <4>2
    <3>8. u.verified => Trustworthy(u) \/ (~d /\ Alone(u))
      <4>1. ~Alone(t)
        BY <3>1 DEF Alone, Nothing
      <4>2. Trustworthy(t) => Trustworthy(u)
        BY <1>1 DEF Trustworthy, Extended
      <4> QED
        BY <1>1, <2>1, <4>1, <4>2 DEF Sound
    <3>9. Fits(u.message.signatures, u.message.claims) /\ u.message = Nothing /\ ~u.message.nested
      BY <1>1, <2>1, <3>1 DEF Sound, Nothing
    <3> QED
      BY <3>3, <3>5, <3>6, <3>7, <3>8, <3>9 DEF Sound, NewlySigned
  <2> QED
    BY <2>2, <2>3
<1> QED
  BY <1>1, <1>2, <1>3 DEF TokenOK

LEMMA EncodeSound ==
  ASSUME NEW d \in BOOLEAN, NEW t, TokenOK(t, d)
  PROVE  /\ TokenOK(Encode(t), d)
         /\ Encode(t).encoded \in Claims
         /\ Encode(t).signatures = t.signatures /\ Encode(t).rules = t.rules
         /\ Encode(t).pending = t.pending /\ Encode(t).message = t.message
         /\ Encode(t).claims = t.claims
         /\ ~changed => Encode(t).encoded = t.claims
<1> DEFINE e == Encode(t)
<1>1. IsToken(t) /\ IsToken(e) /\ e = [t EXCEPT !.encoded = Encoding(t)] /\ Encoding(t) \in Claims
  BY EncodeGives DEF TokenOK
<1> HIDE DEF e
<1>2. /\ e.encoded = Encoding(t) /\ e.claims = t.claims /\ e.signatures = t.signatures
      /\ e.rules = t.rules /\ e.pending = t.pending /\ e.message = t.message
      /\ e.encrypting = t.encrypting /\ e.verified = t.verified
  BY <1>1 DEF IsToken
<1>3. Guarded(e, secret)
  BY <1>2 DEF TokenOK, Guarded
<1>4. ASSUME ~changed PROVE Sound(e, secret, d) /\ e.encoded = t.claims
  <2>1. Sound(t, secret, d)
    BY <1>4 DEF TokenOK
  <2>2. e.encoded = t.claims
    BY <1>2, <2>1 DEF Sound, Encoding
  <2>3. Ours(e) = Ours(t) /\ (Ours(t) # {} => e.encoded = t.encoded)
    BY <1>1, <1>2, <2>1, OursCover DEF Ours, Sound, Encoding
  <2>4. Fits(e.signatures, e.encoded)
    BY <1>2, <2>1, <2>3 DEF Sound, Fits, Ours
  <2>5. (Trustworthy(t) <=> Trustworthy(e)) /\ (Alone(t) <=> Alone(e))
    BY <1>2 DEF Trustworthy, Alone
  <2>6. e.encoded = t.encoded \/ t.encoded = NoText
    BY <1>2 DEF Encoding
  <2>7. t.message.nested /\ t.signatures # <<>> => e.encoded = t.claims /\ e.claims = t.message.claims
    BY <1>2, <2>1, <2>2 DEF Sound
  <2> QED
    BY <1>2, <2>1, <2>2, <2>3, <2>4, <2>5, <2>7 DEF Sound
<1> QED
  BY <1>1, <1>2, <1>3, <1>4 DEF e, TokenOK

-----------------------------------------------------------------------------
(* What encryption keeps *)

\* A claims set alone.
LEMMA AloneSound ==
  ASSUME Flags, NEW d \in BOOLEAN, NEW t, TokenOK(t, d), t.pending = <<>>, t.signatures = <<>>,
         NEW u, u = [t EXCEPT !.message = JWE(FALSE, t.claims, <<>>), !.encrypting = FALSE]
  PROVE  TokenOK(u, d) /\ u.rules = t.rules /\ u.message # Nothing /\ Ours(u) = Ours(t)
<1> DEFINE m == JWE(FALSE, t.claims, <<>>)
<1>1. /\ m.kind = "JWE" /\ m.nested = FALSE /\ m.claims = t.claims /\ m.signatures = <<>>
      /\ m \in [kind : {"JWS", "JWE"}, nested : BOOLEAN, claims : Claims \union {NoText},
                signatures : Seq(Signature)]
  BY DEF JWE, TokenOK, IsToken
<1> HIDE DEF m
<1>2. IsDocument(m) /\ m # Nothing
  <2>1. Len(m.signatures) = 0 /\ Len(m.signatures) <= MaxSignatures /\ m.kind # "JWS"
    BY <1>1, TokenAssumption
  <2>2. m.nested = (Len(m.signatures) = 1)
    BY <1>1, <2>1
  <2>3. m # Nothing
    BY <1>1 DEF Nothing
  <2> QED
    BY <1>1, <2>1, <2>2, <2>3 DEF IsDocument
<1>3. /\ u.message = m /\ u.encrypting = FALSE
      /\ u.claims = t.claims /\ u.encoded = t.encoded /\ u.signatures = <<>> /\ u.pending = <<>>
      /\ u.rules = t.rules /\ u.verified = t.verified
  BY DEF TokenOK, IsToken, m
<1>4. IsToken(u)
  BY <1>1, <1>2, <1>3 DEF TokenOK, IsToken, m
<1>5. Guarded(u, secret)
  BY <1>2, <1>3 DEF Guarded
<1>6. ASSUME ~changed PROVE Sound(u, secret, d)
  <2>1. Sound(t, secret, d)
    BY <1>6 DEF TokenOK
  <2>2. DOMAIN t.signatures = {} /\ Ours(u) = {}
    BY <1>3 DEF Ours
  <2>3. Alone(u) /\ ~u.message.nested
    BY <1>1, <1>3, Zenon DEF Alone
  <2>4. t.verified => ~d
    BY <2>1, <2>2 DEF Sound, Trustworthy
  <2>5. Fits(u.signatures, u.encoded) /\ Fits(u.message.signatures, u.message.claims)
    <3>1. DOMAIN u.signatures = {} /\ DOMAIN u.message.signatures = {}
      <4>1. u.signatures = <<>> /\ u.message.signatures = <<>>
        BY <1>1, <1>3, Zenon
      <4>2. DOMAIN <<>> = {}
        OBVIOUS
      <4> QED
        BY <4>1, <4>2, Zenon
    <3> QED
      BY <3>1 DEF Fits
  <2>6. u.encoded \in {NoText, u.claims}
    BY <1>3, <2>1 DEF Sound
  <2> QED
    BY <1>3, <2>2, <2>3, <2>4, <2>5, <2>6 DEF Sound
<1> QED
  BY <1>2, <1>3, <1>4, <1>5, <1>6 DEF TokenOK, Ours

\* A token inside.
LEMMA SealedSound ==
  ASSUME Flags, NEW d \in BOOLEAN, NEW t, TokenOK(t, d), t.pending = <<>>,
         Len(t.signatures) = 1, NEW u, u = Sealed(t).tok
  PROVE  TokenOK(u, d) /\ u.rules = t.rules /\ u.message # Nothing /\ Ours(u) = Ours(t)
<1> DEFINE e == Encode(t)
           m == JWE(TRUE, e.encoded, e.signatures)
<1>1. /\ TokenOK(e, d) /\ e.encoded \in Claims
      /\ e.signatures = t.signatures /\ e.rules = t.rules /\ e.pending = <<>>
      /\ e.claims = t.claims /\ (~changed => e.encoded = t.claims)
  BY EncodeSound
<1>2. u = [e EXCEPT !.message = m, !.encrypting = FALSE]
  BY DEF Sealed, Outcome
<1> HIDE DEF e
<1>3. e.signatures \in Seq(Signature) /\ Len(e.signatures) = 1 /\ e.signatures # <<>>
  <2>1. e.signatures \in Seq(Signature) /\ Len(e.signatures) = 1
    BY <1>1 DEF TokenOK, IsToken
  <2>2. Len(<<>>) = 0
    OBVIOUS
  <2>3. Len(e.signatures) # 0
    BY <2>1
  <2>4. e.signatures # <<>>
    BY <2>2, <2>3, Zenon
  <2> QED
    BY <2>1, <2>4
<1>4. /\ m.kind = "JWE" /\ m.nested = TRUE /\ m.claims = e.encoded /\ m.signatures = e.signatures
      /\ m \in [kind : {"JWS", "JWE"}, nested : BOOLEAN, claims : Claims \union {NoText},
                signatures : Seq(Signature)]
  BY <1>1, <1>3 DEF JWE
<1> HIDE DEF m
<1>5. IsDocument(m) /\ m # Nothing
  <2>4. Len(m.signatures) = 1 /\ m.kind # "JWS"
    BY <1>3, <1>4, Zenon
  <2>1. Len(m.signatures) = 1 /\ Len(m.signatures) <= MaxSignatures /\ m.kind # "JWS"
    BY <2>4, TokenAssumption
  <2>2. m.nested = (Len(m.signatures) = 1)
    BY <1>4, <2>1
  <2>3. m # Nothing
    BY <1>4 DEF Nothing
  <2> QED
    BY <1>4, <2>1, <2>2, <2>3 DEF IsDocument
<1>6. /\ u.message = m /\ u.encrypting = FALSE
      /\ u.claims = e.claims /\ u.encoded = e.encoded /\ u.signatures = e.signatures
      /\ u.pending = <<>> /\ u.rules = e.rules /\ u.verified = e.verified
  BY <1>1, <1>2 DEF TokenOK, IsToken
<1>7. IsToken(u)
  BY <1>1, <1>2, <1>4, <1>5, <1>6 DEF TokenOK, IsToken
<1>8. Guarded(u, secret)
  BY <1>5, <1>6 DEF Guarded
<1>9. ASSUME ~changed PROVE Sound(u, secret, d)
  <2>1. Sound(e, secret, d)
    BY <1>1, <1>9 DEF TokenOK
  <2>2. u.verified => Trustworthy(u)
    <3>1. ~Alone(e)
      BY <1>3, <2>1 DEF Sound, Alone, Nothing
    <3> QED
      BY <1>6, <2>1, <3>1 DEF Sound, Trustworthy
  <2> QED
    BY <1>1, <1>3, <1>4, <1>6, <1>9, <2>1, <2>2 DEF Sound, Fits, Ours
<1> QED
  BY <1>1, <1>5, <1>6, <1>7, <1>8, <1>9 DEF TokenOK, Ours

LEMMA EncryptSound ==
  ASSUME Flags, NEW d \in BOOLEAN, NEW t, TokenOK(t, d), NEW o \in EncryptOutcomes(t)
  PROVE  /\ TokenOK(o.tok, d) /\ o.tok.rules = t.rules /\ o.ok \in BOOLEAN
         /\ ~changed => NewlySigned(t, o.tok)
         /\ o.ok /\ (t.encrypting \/ t.message # Nothing) => o.tok.message # Nothing
         /\ t.message # Nothing => o.tok.message # Nothing
         /\ ~changed /\ t.pending = <<>> => Ours(o.tok) = Ours(t)
<1>1. CASE ~t.encrypting
  <2>1. o.tok = t /\ o.ok = TRUE
    BY <1>1 DEF EncryptOutcomes, Outcome
  <2> QED
    BY <1>1, <2>1 DEF NewlySigned
<1>2. ASSUME NEW s \in SignOutcomes(t), o = Outcome(s.tok, FALSE)
      PROVE  /\ TokenOK(o.tok, d) /\ o.tok.rules = t.rules /\ o.ok = FALSE
             /\ ~changed => NewlySigned(t, o.tok)
             /\ o.tok.message = t.message
             /\ t.pending = <<>> => Ours(o.tok) = Ours(t)
  <2>1. Extended(t, s.tok)
    BY SignGives DEF TokenOK
  <2>2. o.tok = s.tok /\ o.ok = FALSE
    BY <1>2 DEF Outcome
  <2>3. TokenOK(s.tok, d) /\ s.tok.rules = t.rules /\ (~changed => NewlySigned(t, s.tok))
    BY <2>1, SignSound
  <2>4. s.tok.message = t.message /\ (t.pending = <<>> => s.tok = t)
    BY <2>1 DEF Extended, TokenOK, IsToken
  <2> QED
    BY <2>2, <2>3, <2>4
<1>3. ASSUME NEW s \in SignOutcomes(t), s.ok, Len(s.tok.signatures) = 1, o = Sealed(s.tok)
      PROVE  /\ TokenOK(o.tok, d) /\ o.tok.rules = t.rules /\ o.ok = TRUE
             /\ ~changed => NewlySigned(t, o.tok)
             /\ o.tok.message # Nothing
             /\ t.pending = <<>> => Ours(o.tok) = Ours(t)
  <2>1. Extended(t, s.tok) /\ s.tok.pending = <<>>
    BY <1>3, SignGives DEF TokenOK
  <2>2. TokenOK(s.tok, d) /\ s.tok.rules = t.rules /\ (~changed => NewlySigned(t, s.tok))
    BY <2>1, SignSound
  <2>3. TokenOK(o.tok, d) /\ o.tok.rules = s.tok.rules /\ o.tok.message # Nothing
        /\ Ours(o.tok) = Ours(s.tok)
    BY <1>3, <2>1, <2>2, SealedSound
  <2>4. o.ok = TRUE /\ o.tok.signatures = s.tok.signatures
    <3>1. Encode(s.tok).signatures = s.tok.signatures /\ IsToken(Encode(s.tok))
      BY <2>2, EncodeSound DEF TokenOK
    <3> QED
      BY <1>3, <3>1 DEF Sealed, Outcome, IsToken
  <2>5. t.pending = <<>> => s.tok = t
    BY <2>1 DEF Extended
  <2> QED
    BY <2>2, <2>3, <2>4, <2>5 DEF NewlySigned
<1>4. ASSUME t.pending = <<>>, t.signatures = <<>>,
             o = Outcome([t EXCEPT !.message = JWE(FALSE, t.claims, <<>>), !.encrypting = FALSE], TRUE)
      PROVE  /\ TokenOK(o.tok, d) /\ o.tok.rules = t.rules /\ o.ok = TRUE
             /\ o.tok.message # Nothing /\ Ours(o.tok) = Ours(t)
  <2>1. o.tok = [t EXCEPT !.message = JWE(FALSE, t.claims, <<>>), !.encrypting = FALSE] /\ o.ok = TRUE
    BY <1>4 DEF Outcome
  <2> QED
    BY <1>4, <2>1, AloneSound
<1>5. CASE t.encrypting
  <2>1. \/ \E s \in SignOutcomes(t) : o = Outcome(s.tok, FALSE)
        \/ \E s \in SignOutcomes(t) : s.ok /\ Len(s.tok.signatures) = 1 /\ o = Sealed(s.tok)
        \/ /\ t.pending = <<>> /\ t.signatures = <<>>
           /\ o = Outcome([t EXCEPT !.message = JWE(FALSE, t.claims, <<>>), !.encrypting = FALSE], TRUE)
    BY <1>5 DEF EncryptOutcomes, PlaintextOutcomes, EncryptFailures
  <2> QED
    BY <1>2, <1>3, <1>4, <2>1 DEF NewlySigned
<1> QED
  BY <1>1, <1>5 DEF TokenOK, IsToken

-----------------------------------------------------------------------------
(* What verification and decryption keep *)

LEMMA OutcomeGives ==
  ASSUME NEW t, NEW ok \in BOOLEAN PROVE Outcome(t, ok).tok = t /\ Outcome(t, ok).ok = ok
  BY DEF Outcome

LEMMA VerifySound ==
  ASSUME Flags, NEW d \in BOOLEAN, NEW t, TokenOK(t, d), NEW satisfactory \in BOOLEAN,
         NEW o \in VerifyOutcomes(t, satisfactory)
  PROVE  /\ o.ok \in BOOLEAN /\ o.tok.rules = t.rules
         /\ ~o.ok => TokenOK(o.tok, d)
         /\ o.ok => \A f \in BOOLEAN : TokenOK(o.tok, f)
         /\ ~changed => NewlySigned(t, o.tok)
         /\ t.pending = <<>> => o.tok.signatures = t.signatures
<1> PICK s \in SignOutcomes(t) :
      LET e == Encode(s.tok) IN
      o = IF ~s.ok \/ s.tok.signatures = <<>> THEN Outcome(s.tok, FALSE)
          ELSE IF Verifies(e) /\ satisfactory THEN Outcome([e EXCEPT !.verified = TRUE], TRUE)
          ELSE Outcome(e, FALSE)
  BY DEF VerifyOutcomes
<1> DEFINE e == Encode(s.tok)
<1>1. Extended(t, s.tok) /\ (t.pending = <<>> => s.tok = t)
  BY SignGives DEF TokenOK, Extended
<1>2. TokenOK(s.tok, d) /\ s.tok.rules = t.rules /\ (~changed => NewlySigned(t, s.tok))
  BY <1>1, SignSound
<1>3. /\ TokenOK(e, d) /\ e.encoded \in Claims /\ e.signatures = s.tok.signatures
      /\ e.rules = t.rules /\ e.claims = s.tok.claims /\ (~changed => e.encoded = e.claims)
  BY <1>2, EncodeSound
<1> HIDE DEF e
<1>4. CASE o = Outcome(s.tok, FALSE)
  <2>1. o.tok = s.tok /\ o.ok = FALSE
    BY <1>4 DEF Outcome
  <2> QED
    BY <1>1, <1>2, <2>1
<1>5. CASE o = Outcome(e, FALSE)
  <2>1. o.tok = e /\ o.ok = FALSE
    BY <1>5 DEF Outcome
  <2> QED
    BY <1>1, <1>2, <1>3, <2>1 DEF NewlySigned, Ours
<1>6. CASE Verifies(e) /\ o = Outcome([e EXCEPT !.verified = TRUE], TRUE)
  <2> DEFINE u == [e EXCEPT !.verified = TRUE]
  <2>1. o.tok = u /\ o.ok = TRUE
    BY <1>6, OutcomeGives
  <2>2. /\ u.verified = TRUE /\ u.claims = e.claims /\ u.encoded = e.encoded
        /\ u.signatures = e.signatures /\ u.pending = e.pending /\ u.rules = e.rules
        /\ u.encrypting = e.encrypting /\ u.message = e.message
    BY <1>3 DEF TokenOK, IsToken
  <2>3. IsToken(u)
    BY <1>3, <2>2 DEF TokenOK, IsToken
  <2> HIDE DEF u
  <2>4. Guarded(u, secret)
    BY <1>3, <2>2 DEF TokenOK, Guarded
  <2>5. ASSUME ~changed, NEW f \in BOOLEAN PROVE Sound(u, secret, f)
    <3>1. Sound(e, secret, d) /\ e.encoded = e.claims
      BY <1>3, <2>5 DEF TokenOK
    <3>2. Trustworthy(u)
      BY <1>6, <2>2, <3>1 DEF Verifies, Trustworthy
    <3> QED
      BY <2>2, <3>1, <3>2 DEF Sound, Ours
  <2>6. \A f \in BOOLEAN : TokenOK(u, f)
    BY <2>3, <2>4, <2>5 DEF TokenOK
  <2>7. u.signatures = s.tok.signatures /\ u.rules = t.rules
    BY <1>3, <2>2
  <2>8. ~changed => NewlySigned(t, u)
    BY <1>2, <2>7 DEF NewlySigned, Ours
  <2>9. t.pending = <<>> => u.signatures = t.signatures
    BY <1>1, <2>7
  <2> QED
    BY <2>1, <2>6, <2>7, <2>8, <2>9
<1> QED
  BY <1>4, <1>5, <1>6 DEF e

\* The inner token replaces the outer one.
LEMMA AdoptedSound ==
  ASSUME Flags, NEW d \in BOOLEAN, NEW t, TokenOK(t, d), t.message # Nothing, t.message.nested,
         t.message.claims # NoText
  PROVE  /\ TokenOK(Adopted(t), d) /\ Adopted(t).rules = t.rules
         /\ Adopted(t).pending = t.pending /\ Ours(Adopted(t)) = {}
<1> DEFINE m == t.message
           u == Adopted(t)
           sigs == Read(m.signatures)
<1>1. IsToken(t) /\ IsDocument(m) /\ m.signatures \in Seq(Signature) /\ m.claims \in Claims
  BY DEF TokenOK, IsToken, IsDocument
<1>2. /\ sigs \in Seq(Signature) /\ DOMAIN sigs = DOMAIN m.signatures
      /\ \A i \in DOMAIN sigs : /\ ~sigs[i].here
                                /\ sigs[i].by = m.signatures[i].by
                                /\ sigs[i].over = m.signatures[i].over
      /\ Read(sigs) = sigs
  BY <1>1, ReadGives
<1> HIDE DEF sigs
<1>3. u = [t EXCEPT !.claims = m.claims, !.encoded = m.claims, !.signatures = sigs]
  BY DEF Adopted, sigs
<1> HIDE DEF u
<1>4. /\ u.claims = m.claims /\ u.encoded = m.claims /\ u.signatures = sigs
      /\ u.pending = t.pending /\ u.rules = t.rules /\ u.verified = t.verified
      /\ u.encrypting = t.encrypting /\ u.message = m
  BY <1>1, <1>3 DEF IsToken
<1>5. IsToken(u)
  BY <1>1, <1>2, <1>3, <1>4 DEF IsToken
<1>6. Guarded(u, secret)
  BY <1>4 DEF TokenOK, Guarded
<1>7. Ours(u) = {} /\ Fits(u.signatures, u.encoded)
  BY <1>2, <1>4 DEF Ours, Fits
<1>8. ASSUME ~changed PROVE Sound(u, secret, d)
  <2>1. Sound(t, secret, d)
    BY <1>8 DEF TokenOK
  <2>2. t.verified => Trustworthy(u)
    <3> SUFFICES ASSUME t.verified PROVE Trustworthy(u)
      OBVIOUS
    <3>1. Trustworthy(t)
      BY <2>1 DEF Sound, Alone
    <3>2. PICK i \in DOMAIN t.signatures :
            t.signatures[i].by \in Trusted /\ t.signatures[i].over = t.claims
      BY <3>1 DEF Trustworthy
    <3>3. t.signatures \in Seq(Signature) /\ t.signatures # <<>>
      BY <1>1, <3>2 DEF IsToken
    <3>4. sigs = Read(t.signatures) /\ t.claims = m.claims
      BY <2>1, <3>3 DEF Sound, sigs
    <3>5. i \in DOMAIN sigs /\ sigs[i].by \in Trusted /\ sigs[i].over = m.claims
      BY <3>2, <3>3, <3>4, ReadGives
    <3> QED
      BY <1>4, <3>5 DEF Trustworthy
  <2>3. Read(u.signatures) = Read(m.signatures)
    BY <1>2, <1>4 DEF sigs
  <2> QED
    BY <1>4, <1>7, <2>1, <2>2, <2>3 DEF Sound
<1> QED
  BY <1>4, <1>5, <1>6, <1>7, <1>8 DEF TokenOK, u

\* The claims set that came alone replaces the payload.
LEMMA PlaintextSound ==
  ASSUME Flags, NEW d \in BOOLEAN, NEW t, TokenOK(t, d), t.message # Nothing, ~t.message.nested,
         NEW satisfactory \in BOOLEAN, NEW o, o = ReadPlaintext(t, satisfactory)
  PROVE  /\ o.ok \in BOOLEAN /\ o.tok.rules = t.rules
         /\ TokenOK(o.tok, IF o.ok THEN FALSE ELSE d)
         /\ ~changed => NewlySigned(t, o.tok)
<1> DEFINE m == t.message
           claims == IF m.claims = NoText THEN Empty ELSE m.claims
           ok == m.claims # NoText /\ satisfactory
           u == [t EXCEPT !.claims = claims, !.encoded = NoText,
                          !.verified = IF ok THEN TRUE ELSE t.verified]
<1>1. IsToken(t) /\ IsDocument(m) /\ m.kind = "JWE" /\ claims \in Claims
  BY TokenAssumption DEF TokenOK, IsToken, IsDocument
<1>2. o.tok = u /\ o.ok = ok
  <2> DEFINE r == [t EXCEPT !.claims = claims, !.encoded = NoText]
  <2>1. CASE ok
    <3>1. o = Outcome([r EXCEPT !.verified = TRUE], TRUE)
      BY <2>1 DEF ReadPlaintext
    <3>2. [r EXCEPT !.verified = TRUE] = u
      BY <1>1, <2>1 DEF IsToken
    <3> HIDE DEF u, r
    <3>3. o.tok = u /\ o.ok = TRUE
      BY <3>1, <3>2, OutcomeGives
    <3>4. ok = TRUE
      BY <2>1
    <3> QED
      BY <3>3, <3>4, Zenon
  <2>2. CASE ~ok
    <3>1. o = Outcome(r, FALSE)
      BY <2>2 DEF ReadPlaintext
    <3>2. r = u
      BY <1>1, <2>2 DEF IsToken
    <3> HIDE DEF u, r
    <3>3. o.tok = u /\ o.ok = FALSE
      BY <3>1, <3>2, OutcomeGives
    <3>4. ok = FALSE
      BY <2>2
    <3> QED
      BY <3>3, <3>4, Zenon
  <2> QED
    BY <2>1, <2>2
<1>3. ok \in BOOLEAN /\ (ok => claims = m.claims) /\ (m.claims # NoText => claims = m.claims)
  OBVIOUS
<1> HIDE DEF ok, claims
<1>4. IsToken(u)
  BY <1>1, <1>3 DEF IsToken
<1>5. /\ u.claims = claims /\ u.encoded = NoText /\ u.signatures = t.signatures
      /\ u.pending = t.pending /\ u.rules = t.rules /\ u.encrypting = t.encrypting
      /\ u.message = m /\ (u.verified => ok \/ t.verified)
  BY <1>1 DEF IsToken
<1> HIDE DEF u
<1>6. Guarded(u, secret)
  BY <1>5 DEF TokenOK, Guarded
<1>7. ASSUME ~changed PROVE Sound(u, secret, IF ok THEN FALSE ELSE d) /\ Ours(u) = {}
  <2>1. Sound(t, secret, d)
    BY <1>7 DEF TokenOK
  <2>2. t.signatures = <<>> /\ DOMAIN t.signatures = {}
    BY <2>1 DEF Sound
  <2>3. Ours(u) = {} /\ Fits(u.signatures, u.encoded)
    BY <1>5, <2>2 DEF Ours, Fits
  <2>4. ok => Alone(u)
    BY <1>1, <1>3, <1>5 DEF Alone
  <2>5. t.verified => ~d /\ Alone(u)
    <3>1. t.verified => ~d /\ Alone(t)
      BY <2>1, <2>2 DEF Sound, Trustworthy
    <3>2. Alone(t) => m.claims # NoText /\ claims = m.claims
      BY <1>1, <1>3, TokenAssumption DEF Alone, IsToken
    <3> QED
      BY <1>5, <3>1, <3>2 DEF Alone
  <2> QED
    BY <1>5, <2>1, <2>2, <2>3, <2>4, <2>5 DEF Sound
<1>8. TokenOK(u, IF ok THEN FALSE ELSE d)
  BY <1>4, <1>6, <1>7 DEF TokenOK
<1> QED
  BY <1>2, <1>3, <1>5, <1>7, <1>8 DEF NewlySigned

LEMMA DecryptSound ==
  ASSUME Flags, NEW d \in BOOLEAN, NEW t, TokenOK(t, d), NEW satisfactory \in BOOLEAN,
         NEW requireNested \in BOOLEAN,
         NEW o \in DecryptOutcomes(t, satisfactory, requireNested)
  PROVE  /\ o.ok \in BOOLEAN /\ o.tok.rules = t.rules
         /\ TokenOK(o.tok, IF o.ok THEN requireNested ELSE d)
         /\ ~changed => NewlySigned(t, o.tok)
<1> PICK s \in EncryptOutcomes(t) :
      \/ o = Outcome(s.tok, FALSE)
      \/ /\ s.ok /\ s.tok.message # Nothing
         /\ \/ s.tok.message.nested /\ o \in AdoptOutcomes(s.tok, satisfactory)
            \/ /\ ~s.tok.message.nested /\ ~requireNested
               /\ o = ReadPlaintext(s.tok, satisfactory)
  BY DEF DecryptOutcomes
<1> DEFINE e == s.tok
<1>1. TokenOK(e, d) /\ e.rules = t.rules /\ (~changed => NewlySigned(t, e))
  BY EncryptSound
<1> HIDE DEF e
<1>2. CASE o = Outcome(e, FALSE)
  <2>1. o.tok = e /\ o.ok = FALSE
    BY <1>2, OutcomeGives
  <2> QED
    BY <1>1, <2>1
<1>3. CASE e.message # Nothing /\ e.message.nested /\ o \in AdoptOutcomes(e, satisfactory)
  <2>1. CASE e.message.claims = NoText
    <3>1. o = Outcome(e, FALSE)
      BY <1>3, <2>1 DEF AdoptOutcomes
    <3> QED
      BY <1>2, <3>1
  <2>2. CASE e.message.claims # NoText
    <3> DEFINE a == Adopted(e)
    <3>1. o \in VerifyOutcomes(a, satisfactory)
      BY <1>3, <2>2 DEF AdoptOutcomes
    <3>2. TokenOK(a, d) /\ a.rules = e.rules /\ a.pending = e.pending /\ Ours(a) = {}
      BY <1>1, <1>3, <2>2, AdoptedSound
    <3> HIDE DEF a
    <3>3. /\ o.ok \in BOOLEAN /\ o.tok.rules = a.rules
          /\ ~o.ok => TokenOK(o.tok, d)
          /\ o.ok => \A f \in BOOLEAN : TokenOK(o.tok, f)
          /\ a.pending = <<>> => o.tok.signatures = a.signatures
      BY <3>1, <3>2, VerifySound
    <3>4. ~changed => NewlySigned(t, o.tok)
      <4> SUFFICES ASSUME ~changed PROVE Ours(o.tok) = {}
        BY DEF NewlySigned
      <4>1. e.pending = <<>>
        BY <1>1, <1>3 DEF TokenOK, Sound
      <4> QED
        BY <3>2, <3>3, <4>1 DEF Ours
    <3> QED
      BY <1>1, <3>2, <3>3, <3>4
  <2> QED
    BY <2>1, <2>2
<1>4. CASE e.message # Nothing /\ ~e.message.nested /\ ~requireNested
           /\ o = ReadPlaintext(e, satisfactory)
  <2>1. /\ o.ok \in BOOLEAN /\ o.tok.rules = e.rules
        /\ TokenOK(o.tok, IF o.ok THEN FALSE ELSE d)
    <3>1. e.message # Nothing /\ ~e.message.nested /\ o = ReadPlaintext(e, satisfactory)
      BY <1>4
    <3>2. TokenOK(e, d)
      BY <1>1
    <3> QED
      BY <3>1, <3>2, PlaintextSound, Zenon
  <2>2. ~changed => NewlySigned(t, o.tok)
    <3> SUFFICES ASSUME ~changed PROVE Ours(o.tok) = {}
      BY DEF NewlySigned
    <3>1. e.signatures = <<>>
      BY <1>1, <1>4 DEF TokenOK, Sound
    <3>2. o.tok.signatures = e.signatures
      <4>1. IsToken(e)
        BY <1>1 DEF TokenOK
      <4> QED
        BY <1>4, <4>1 DEF ReadPlaintext, Outcome, IsToken
    <3> QED
      BY <3>1, <3>2 DEF Ours
  <2>3. requireNested = FALSE
    BY <1>4
  <2> QED
    BY <1>1, <2>1, <2>2, <2>3
<1> QED
  BY <1>2, <1>3, <1>4 DEF e

-----------------------------------------------------------------------------
(* What is written *)

LEMMA WriteSound ==
  ASSUME Flags, NEW d \in BOOLEAN, NEW t, TokenOK(t, d), NEW json \in BOOLEAN,
         NEW w \in WriteOutcomes(t, json)
  PROVE  /\ TokenOK(w.tok, d) /\ w.tok.rules = t.rules
         /\ ~changed => NewlySigned(t, w.tok)
         /\ Signatures(w.tok) <= MaxSignatures => w.document = Nothing \/ IsDocument(w.document)
         /\ ~changed => Fits(w.document.signatures, w.document.claims)
         /\ w.document.kind = "JWS" => ~secret
         /\ w.document.kind = "JWS" /\ ~changed /\ Confirms \in t.rules =>
              \/ Cnf[w.document.claims]["jwk"] # Symmetric
              \/ \A i \in DOMAIN w.document.signatures : ~w.document.signatures[i].here
<1>0. Nothing.kind = "none" /\ Nothing.signatures = <<>> /\ DOMAIN Nothing.signatures = {}
  BY DEF Nothing
<1>1. CASE t.encrypting \/ t.message # Nothing
  <2> PICK s \in EncryptOutcomes(t) :
        w = [tok |-> s.tok, document |-> IF s.ok THEN s.tok.message ELSE Nothing]
    BY <1>1 DEF WriteOutcomes
  <2>1. TokenOK(s.tok, d) /\ s.tok.rules = t.rules /\ (~changed => NewlySigned(t, s.tok))
    BY EncryptSound
  <2>2. w.tok = s.tok /\ w.document \in {s.tok.message, Nothing}
    OBVIOUS
  <2>3. s.tok.message = Nothing \/ (IsDocument(s.tok.message) /\ s.tok.message.kind = "JWE")
    BY <2>1 DEF TokenOK, IsToken
  <2>4. w.document = Nothing \/ (IsDocument(w.document) /\ w.document.kind = "JWE")
    BY <2>2, <2>3
  <2>5. ~changed => Fits(s.tok.message.signatures, s.tok.message.claims)
    BY <2>1 DEF TokenOK, Sound
  <2>6. ~changed => Fits(w.document.signatures, w.document.claims)
    BY <1>0, <2>2, <2>5 DEF Fits
  <2> QED
    BY <1>0, <2>1, <2>2, <2>4, <2>6
<1>2. CASE ~t.encrypting /\ t.message = Nothing
  <2> PICK s \in SignOutcomes(t) : w = WriteSigned(s, json)
    BY <1>2 DEF WriteOutcomes
  <2> DEFINE e == Encode(s.tok)
  <2>1. Extended(t, s.tok)
    BY SignGives DEF TokenOK
  <2>2. TokenOK(s.tok, d) /\ s.tok.rules = t.rules /\ (~changed => NewlySigned(t, s.tok))
    BY <2>1, SignSound
  <2>3. /\ TokenOK(e, d) /\ e.encoded \in Claims /\ e.signatures = s.tok.signatures
        /\ e.rules = s.tok.rules /\ e.pending = s.tok.pending
    BY <2>2, EncodeSound
  <2>4. \/ w = [tok |-> s.tok, document |-> Nothing]
        \/ w = [tok |-> e, document |-> Nothing]
        \/ w = [tok |-> e, document |-> JWS(e.encoded, e.signatures)] /\ Len(s.tok.signatures) # 0
    BY DEF WriteSigned
  <2> HIDE DEF e
  <2>5. TokenOK(w.tok, d) /\ w.tok.rules = t.rules /\ (~changed => NewlySigned(t, w.tok))
    BY <2>2, <2>3, <2>4 DEF NewlySigned, Ours
  <2>6. CASE w.document = Nothing
    BY <1>0, <2>5, <2>6 DEF Fits
  <2>7. CASE w.tok = e /\ w.document = JWS(e.encoded, e.signatures) /\ Len(s.tok.signatures) # 0
    <3> DEFINE document == JWS(e.encoded, e.signatures)
    <3>1. /\ document.kind = "JWS" /\ document.nested = FALSE
          /\ document.claims = e.encoded /\ document.signatures = e.signatures
      BY DEF JWS
    <3>2. e.signatures \in Seq(Signature) /\ e.pending \in Seq(Signers) /\ e.signatures # <<>>
      <4>1. e.signatures \in Seq(Signature) /\ e.pending \in Seq(Signers)
        BY <2>3 DEF TokenOK, IsToken
      <4>2. Len(<<>>) = 0
        OBVIOUS
      <4>3. e.signatures # <<>>
        BY <2>3, <2>7, <4>2, Zenon
      <4> QED
        BY <4>1, <4>3
    <3>3. Signatures(e) <= MaxSignatures => Len(e.signatures) <= MaxSignatures
      <4>1. Len(e.signatures) \in Nat /\ Len(e.pending) \in Nat
        BY <3>2
      <4>2. Signatures(e) = Len(e.pending) + Len(e.signatures) /\ MaxSignatures \in Nat
        BY TokenAssumption DEF Signatures
      <4>3. \A p, q, m \in Nat : p + q <= m => q <= m
        OBVIOUS
      <4>4. Len(e.pending) + Len(e.signatures) <= MaxSignatures => Len(e.signatures) <= MaxSignatures
        BY <4>1, <4>2, <4>3, Zenon
      <4> QED
        BY <4>2, <4>4, Zenon
    <3>4. document \in [kind : {"JWS", "JWE"}, nested : BOOLEAN, claims : Claims \union {NoText},
                        signatures : Seq(Signature)]
      BY <2>3, <3>2 DEF JWS
    <3> HIDE DEF document
    <3>5. Signatures(e) <= MaxSignatures => IsDocument(document)
      BY <2>3, <3>1, <3>2, <3>3, <3>4 DEF IsDocument
    <3>6. ~secret
      BY <1>2 DEF TokenOK, Guarded
    <3>7. ~changed => Sound(e, secret, d)
      BY <2>3 DEF TokenOK
    <3>8. ~changed => Fits(document.signatures, document.claims)
      BY <3>1, <3>7 DEF Sound
    <3>9. ~changed /\ Confirms \in t.rules =>
            \/ Cnf[document.claims]["jwk"] # Symmetric
            \/ \A i \in DOMAIN document.signatures : ~document.signatures[i].here
      <4> SUFFICES ASSUME ~changed, Confirms \in t.rules, NEW i \in Ours(e)
                   PROVE  Cnf[e.encoded]["jwk"] # Symmetric
        BY <3>1 DEF Ours
      <4>1. MayConfirm(e.encoded, secret)
        BY <2>2, <2>3, <3>7 DEF Sound
      <4> QED
        BY <3>6, <4>1 DEF MayConfirm
    <3> QED
      BY <2>5, <2>7, <3>5, <3>6, <3>8, <3>9 DEF document
  <2>8. \/ w.document = Nothing
        \/ w.tok = e /\ w.document = JWS(e.encoded, e.signatures) /\ Len(s.tok.signatures) # 0
    BY <2>4
  <2> QED
    BY <2>6, <2>7, <2>8
<1> QED
  BY <1>1, <1>2 

-----------------------------------------------------------------------------
(* Every action *)

\* What a step keeps and what it may do.
Kept ==
  /\ IInv'
  /\ ~changed => NewlySigned(tok, tok')
  /\ WritesNoClaims

LEMMA NothingGives == Nothing.kind = "none" /\ Nothing.signatures = <<>> /\ ~Nothing.nested
  BY DEF Nothing

LEMMA WritesNothing ==
  ASSUME written' = Nothing PROVE WrittenOK' /\ ConfirmationKeySecret' /\ WritesNoClaims
  BY NothingGives DEF WrittenOK, ConfirmationKeySecret, WritesNoClaims, Fits

\* A token that was just made or read.
LEMMA NewSound ==
  ASSUME NEW t, IsToken(t), t.encoded \in {NoText, t.claims}, Ours(t) = {}, ~t.verified,
         t.message = Nothing \/ (t.signatures = <<>> /\ t.pending = <<>>),
         Fits(t.message.signatures, t.message.claims), NEW s, NEW d
  PROVE  Sound(t, s, d)
  BY NothingGives DEF Sound, Ours, Fits

LEMMA NewKept ==
  ASSUME IInv, NEW claims \in Claims, NEW rules \in SUBSET Rules, NEW encrypted \in BOOLEAN,
         NEW n \in 0..MaxOptions, NEW by \in [1..n -> Signers], New(claims, by, rules, encrypted)
  PROVE  Kept
<1>1. by \in Seq(Signers) /\ Len(by) = n /\ n <= MaxSignatures
  BY TokenAssumption
<1>2. /\ tok'.claims = claims /\ tok'.encoded = NoText /\ tok'.signatures = <<>>
      /\ tok'.pending = by /\ tok'.rules = rules /\ tok'.encrypting = encrypted
      /\ tok'.message = Nothing /\ tok'.verified = FALSE
      /\ IsToken(tok)'
  <2>1. tok' = [claims |-> claims, encoded |-> NoText, signatures |-> <<>>, pending |-> by,
                rules |-> rules, encrypting |-> encrypted, message |-> Nothing, verified |-> FALSE]
    BY DEF New, Zero
  <2> QED
    BY <1>1, <2>1 DEF IsToken
<1>3. Ours(tok') = {} /\ Fits(Nothing.signatures, Nothing.claims)
  BY <1>2, NothingGives DEF Ours, Fits
<1>4. Sound(tok', secret', demanded')
  BY <1>2, <1>3, NewSound
<1>5. Signatures(tok)' <= MaxSignatures
  <2>1. Len(tok'.pending) = n /\ Len(tok'.signatures) = 0
    BY <1>1, <1>2
  <2> QED
    BY <1>1, <2>1 DEF Signatures
<1>6. Guarded(tok', secret') /\ Flags' /\ written' = Nothing
  BY <1>2 DEF New, Guarded, Flags
<1> QED
  BY <1>2, <1>3, <1>4, <1>5, <1>6, WritesNothing DEF Kept, IInv, TokenOK, NewlySigned

LEMMA DocumentsAre == ASSUME IInv, NEW document \in Documents PROVE IsDocument(document)
  BY TokenAssumption DEF Documents, IInv, WrittenOK

LEMMA UnmarshalKept ==
  ASSUME IInv, NEW document \in Documents, Unmarshal(document)
  PROVE  Kept
<1> DEFINE sigs == Read(document.signatures)
<1>1. /\ IsDocument(document) /\ document.signatures \in Seq(Signature)
      /\ Len(document.signatures) <= MaxSignatures
  BY DocumentsAre DEF IsDocument
<1>2. /\ sigs \in Seq(Signature) /\ Len(sigs) = Len(document.signatures)
      /\ \A i \in DOMAIN sigs : ~sigs[i].here
  BY <1>1, ReadGives
<1> HIDE DEF sigs
<1>3. Flags' /\ secret' = FALSE /\ written' = Nothing
  BY DEF Unmarshal, Flags
<1>4. CASE document.kind = "JWE"
  <2> DEFINE m == [document EXCEPT !.signatures = sigs]
  <2>1. tok' = [Zero EXCEPT !.message = m]
    BY <1>4 DEF Unmarshal, Payload, sigs
  <2>2. /\ m.kind = "JWE" /\ m.nested = document.nested /\ m.claims = document.claims
        /\ m.signatures = sigs
        /\ m \in [kind : {"JWS", "JWE"}, nested : BOOLEAN, claims : Claims \union {NoText},
                  signatures : Seq(Signature)]
    BY <1>1, <1>2, <1>4 DEF IsDocument
  <2> HIDE DEF m
  <2>3. IsDocument(m)
    BY <1>1, <1>2, <1>4, <2>2 DEF IsDocument
  <2>4. /\ tok'.claims = Empty /\ tok'.encoded = NoText /\ tok'.signatures = <<>>
        /\ tok'.pending = <<>> /\ tok'.encrypting = FALSE /\ tok'.message = m
        /\ tok'.verified = FALSE /\ IsToken(tok)'
    <3>1. tok' = [claims |-> Empty, encoded |-> NoText, signatures |-> <<>>, pending |-> <<>>,
                  rules |-> {}, encrypting |-> FALSE, message |-> m, verified |-> FALSE]
      BY <2>1 DEF Zero
    <3> QED
      BY <2>2, <2>3, <3>1, TokenAssumption DEF IsToken
  <2>5. Ours(tok') = {} /\ Fits(m.signatures, m.claims)
    BY <1>2, <2>2, <2>4 DEF Ours, Fits
  <2>6. Sound(tok', secret', demanded')
    BY <2>4, <2>5, NewSound
  <2>7. Signatures(tok)' <= MaxSignatures
    BY <2>4, TokenAssumption DEF Signatures
  <2>8. Guarded(tok', secret')
    BY <1>3, <2>4 DEF Guarded
  <2> QED
    BY <1>3, <2>4, <2>5, <2>6, <2>7, <2>8, WritesNothing DEF Kept, IInv, TokenOK, NewlySigned
<1>5. CASE document.kind = "JWS"
  <2>1. tok' = [Zero EXCEPT !.claims = document.claims, !.encoded = document.claims,
                            !.signatures = sigs]
    BY <1>5 DEF Unmarshal, Payload, sigs
  <2>2. document.claims \in Claims
    BY <1>1, <1>5 DEF IsDocument
  <2>3. /\ tok'.claims = document.claims /\ tok'.encoded = document.claims
        /\ tok'.signatures = sigs /\ tok'.pending = <<>> /\ tok'.encrypting = FALSE
        /\ tok'.message = Nothing /\ tok'.verified = FALSE /\ IsToken(tok)'
    <3>1. tok' = [claims |-> document.claims, encoded |-> document.claims, signatures |-> sigs,
                  pending |-> <<>>, rules |-> {}, encrypting |-> FALSE, message |-> Nothing,
                  verified |-> FALSE]
      BY <2>1 DEF Zero
    <3> QED
      BY <1>2, <2>2, <3>1 DEF IsToken
  <2>4. Ours(tok') = {} /\ Fits(Nothing.signatures, Nothing.claims)
    BY <1>2, <2>3, NothingGives DEF Ours, Fits
  <2>5. Sound(tok', secret', demanded')
    BY <2>3, <2>4, NewSound
  <2>6. Signatures(tok)' <= MaxSignatures
    <3>1. Len(tok'.pending) = 0 /\ Len(tok'.signatures) = Len(document.signatures)
      BY <1>2, <2>3
    <3>2. Len(document.signatures) \in Nat
      BY <1>1
    <3> QED
      BY <1>1, <3>1, <3>2 DEF Signatures
  <2>7. Guarded(tok', secret')
    BY <1>3, <2>3 DEF Guarded
  <2> QED
    BY <1>3, <2>3, <2>4, <2>5, <2>6, <2>7, WritesNothing DEF Kept, IInv, TokenOK, NewlySigned
<1> QED
  BY <1>1, <1>4, <1>5 DEF IsDocument

LEMMA UnmarshalJSONKept ==
  ASSUME IInv, NEW document \in Documents, UnmarshalJSON(document)
  PROVE  Kept
<1> DEFINE sigs == Read(document.signatures)
<1>1. /\ IsDocument(document) /\ document.signatures \in Seq(Signature)
      /\ Len(document.signatures) <= MaxSignatures /\ document.claims \in Claims
  BY DocumentsAre DEF IsDocument, UnmarshalJSON
<1>2. /\ sigs \in Seq(Signature) /\ Len(sigs) = Len(document.signatures)
      /\ \A i \in DOMAIN sigs : ~sigs[i].here
  BY <1>1, ReadGives
<1>3. tok' = [tok EXCEPT !.claims = document.claims, !.encoded = document.claims,
                         !.signatures = sigs, !.pending = <<>>]
  BY DEF UnmarshalJSON
<1> HIDE DEF sigs
<1>4. Flags' /\ secret' = secret /\ written' = Nothing /\ (~changed' => tok = Zero)
  BY DEF UnmarshalJSON, IInv, Flags
<1>5. /\ tok'.claims = document.claims /\ tok'.encoded = document.claims
      /\ tok'.signatures = sigs /\ tok'.pending = <<>> /\ tok'.encrypting = tok.encrypting
      /\ tok'.message = tok.message /\ tok'.verified = tok.verified /\ IsToken(tok)'
  <2>1. IsToken(tok)
    BY DEF IInv, TokenOK
  <2>2. /\ tok.rules \in SUBSET (Rules \union {Confirms}) /\ tok.encrypting \in BOOLEAN
        /\ tok.verified \in BOOLEAN
        /\ tok.message = Nothing \/ (IsDocument(tok.message) /\ tok.message.kind = "JWE")
    BY <2>1 DEF IsToken
  <2>3. tok' = [claims |-> document.claims, encoded |-> document.claims, signatures |-> sigs,
                pending |-> <<>>, rules |-> tok.rules, encrypting |-> tok.encrypting,
                message |-> tok.message, verified |-> tok.verified]
    BY <1>3, <2>1 DEF IsToken
  <2> QED
    BY <1>1, <1>2, <2>2, <2>3 DEF IsToken
<1>6. Ours(tok') = {}
  BY <1>2, <1>5 DEF Ours
<1>7. ~changed' => Sound(tok', secret', demanded')
  <2> SUFFICES ASSUME tok = Zero PROVE Sound(tok', secret', demanded')
    BY <1>4
  <2>1. tok.message = Nothing /\ tok.verified = FALSE
    BY DEF Zero
  <2>2. Fits(tok'.message.signatures, tok'.message.claims)
    BY <1>5, <2>1, NothingGives DEF Fits
  <2> QED
    BY <1>5, <1>6, <2>1, <2>2, NewSound
<1>8. Signatures(tok)' <= MaxSignatures
  <2>1. Len(tok'.pending) = 0 /\ Len(tok'.signatures) = Len(document.signatures)
    BY <1>2, <1>5
  <2>2. Len(document.signatures) \in Nat
    BY <1>1
  <2> QED
    BY <1>1, <2>1, <2>2 DEF Signatures
<1>9. Guarded(tok', secret')
  BY <1>4, <1>5 DEF Guarded, IInv, TokenOK
<1> QED
  BY <1>4, <1>5, <1>6, <1>7, <1>8, <1>9, WritesNothing DEF Kept, IInv, TokenOK, NewlySigned

LEMMA OptionsKept ==
  ASSUME IInv, NEW u, IsToken(u), tok' = u, written' = Nothing,
         Flags', Guarded(u, secret'),
         u.signatures = tok.signatures,
         Signatures(u) <= MaxSignatures,
         ~changed' => Sound(u, secret', demanded')
  PROVE  Kept
<1>1. TokenOK(tok, demanded)' /\ (Signatures(tok) <= MaxSignatures)'
  BY DEF TokenOK
<1>2. Ours(tok') = Ours(tok)
  BY DEF Ours
<1> QED
  BY <1>1, <1>2, WritesNothing DEF Kept, IInv, NewlySigned

\* Claims and, perhaps, the rule of a confirmation, on a token in use.
LEMMA ClaimsKept ==
  ASSUME IInv, NEW claims \in Claims, WithClaims(claims) \/ WithConfirmation(claims)
  PROVE  Kept
<1> DEFINE u == tok'
<1>1. PICK rules \in {tok.rules, tok.rules \union {Confirms}} :
        tok' = [tok EXCEPT !.claims = claims, !.rules = rules]
  <2>1. IsToken(tok)
    BY DEF IInv, TokenOK
  <2>2. CASE WithClaims(claims)
    <3>1. tok' = [tok EXCEPT !.claims = claims, !.rules = tok.rules]
      BY <2>1, <2>2 DEF WithClaims, IsToken
    <3> QED
      BY <3>1
  <2>3. CASE WithConfirmation(claims)
    BY <2>3 DEF WithConfirmation
  <2> QED
    BY <2>2, <2>3
<1>2. /\ changed' = (changed \/ tok.verified \/ tok.encoded # NoText)
      /\ written' = Nothing /\ secret' = secret /\ demanded' = demanded
  BY DEF WithClaims, WithConfirmation
<1>3. IsToken(tok) /\ Guarded(tok, secret) /\ (~changed => Sound(tok, secret, demanded))
      /\ Signatures(tok) <= MaxSignatures /\ Flags
  BY DEF IInv, TokenOK
<1>4. /\ u.claims = claims /\ u.rules = rules /\ u.encoded = tok.encoded
      /\ u.signatures = tok.signatures /\ u.pending = tok.pending
      /\ u.encrypting = tok.encrypting /\ u.message = tok.message /\ u.verified = tok.verified
      /\ IsToken(u)
  <2>1. rules \in SUBSET (Rules \union {Confirms})
    BY <1>3 DEF IsToken
  <2> QED
    BY <1>1, <1>3, <2>1 DEF IsToken
<1>5. Flags'
  <2>1. changed' \in BOOLEAN
    BY <1>2, <1>3 DEF Flags, IsToken
  <2> QED
    BY <1>2, <1>3, <2>1 DEF Flags
<1>6. ~changed' => ~changed /\ ~tok.verified /\ tok.encoded = NoText
  BY <1>2
<1> HIDE DEF u
<1>7. ASSUME ~changed' PROVE Sound(u, secret', demanded')
  <2>1. Sound(tok, secret, demanded) /\ ~tok.verified /\ tok.encoded = NoText
    BY <1>3, <1>6, <1>7
  <2>2. Ours(tok) = {} /\ Ours(u) = {}
    BY <1>3, <1>4, <2>1, OursCover DEF Sound, Ours
  <2>3. tok.message.nested => tok.signatures = <<>>
    BY <1>3, <2>1, TokenAssumption DEF Sound, IsToken
  <2> QED
    BY <1>4, <2>1, <2>2, <2>3 DEF Sound
<1>8. Guarded(u, secret') /\ Signatures(u) <= MaxSignatures
  BY <1>2, <1>3, <1>4 DEF Guarded, Signatures
<1> QED
  BY <1>2, <1>4, <1>5, <1>7, <1>8, OptionsKept DEF u

LEMMA SignatureKept ==
  ASSUME IInv, NEW by \in Signers, WithSignature(by)
  PROVE  Kept
<1> DEFINE u == tok'
           left == Append(tok.pending, by)
<1>1. /\ tok' = [tok EXCEPT !.pending = left] /\ Signatures(tok) < MaxOptions
      /\ changed' = (changed \/ tok.message # Nothing)
      /\ written' = Nothing /\ secret' = secret /\ demanded' = demanded
  BY DEF WithSignature
<1>2. IsToken(tok) /\ Guarded(tok, secret) /\ (~changed => Sound(tok, secret, demanded)) /\ Flags
  BY DEF IInv, TokenOK
<1>3. /\ left \in Seq(Signers) /\ Len(left) = Len(tok.pending) + 1
      /\ Len(tok.pending) \in Nat /\ Len(tok.signatures) \in Nat
  BY <1>2 DEF IsToken
<1> HIDE DEF left
<1>4. /\ u.claims = tok.claims /\ u.rules = tok.rules /\ u.encoded = tok.encoded
      /\ u.signatures = tok.signatures /\ u.pending = left
      /\ u.encrypting = tok.encrypting /\ u.message = tok.message /\ u.verified = tok.verified
      /\ IsToken(u)
  BY <1>1, <1>2, <1>3 DEF IsToken
<1>5. Flags'
  BY <1>1, <1>2 DEF Flags
<1>6. ~changed' => ~changed /\ tok.message = Nothing
  BY <1>1
<1> HIDE DEF u
<1>7. ASSUME ~changed' PROVE Sound(u, secret', demanded')
  <2>1. Sound(tok, secret, demanded) /\ tok.message = Nothing
    BY <1>2, <1>6, <1>7
  <2>2. Ours(u) = Ours(tok) /\ (Trustworthy(tok) <=> Trustworthy(u)) /\ (Alone(tok) <=> Alone(u))
    BY <1>4 DEF Ours, Trustworthy, Alone
  <2> QED
    BY <1>1, <1>4, <2>1, <2>2, NothingGives DEF Sound
<1>8. Guarded(u, secret')
  BY <1>1, <1>2, <1>4 DEF Guarded
<1>9. Signatures(u) <= MaxSignatures
  <2>1. \A p, q, l, m \in Nat : p + q < l /\ l <= m => p + 1 + q <= m
    OBVIOUS
  <2>2. Signatures(u) = Len(tok.pending) + 1 + Len(tok.signatures)
    BY <1>3, <1>4 DEF Signatures
  <2>3. /\ Len(tok.pending) + Len(tok.signatures) < MaxOptions
        /\ MaxOptions \in Nat /\ MaxSignatures \in Nat /\ MaxOptions <= MaxSignatures
    BY <1>1, TokenAssumption DEF Signatures
  <2>4. Len(tok.pending) + 1 + Len(tok.signatures) <= MaxSignatures
    BY <1>3, <2>1, <2>3, Zenon
  <2> QED
    BY <2>2, <2>4, Zenon
<1> QED
  BY <1>1, <1>4, <1>5, <1>7, <1>8, <1>9, OptionsKept DEF u

LEMMA RuleKept ==
  ASSUME IInv, NEW rule \in Rules \ {Confirms}, WithIssuanceRule(rule)
  PROVE  Kept
<1> DEFINE u == tok'
<1>1. /\ tok' = [tok EXCEPT !.rules = tok.rules \union {rule}]
      /\ changed' = changed /\ written' = Nothing /\ secret' = secret /\ demanded' = demanded
  BY DEF WithIssuanceRule, history
<1>2. IsToken(tok) /\ Guarded(tok, secret) /\ (~changed => Sound(tok, secret, demanded)) /\ Flags
      /\ Signatures(tok) <= MaxSignatures
  BY DEF IInv, TokenOK
<1>3. /\ u.claims = tok.claims /\ u.rules = tok.rules \union {rule} /\ u.encoded = tok.encoded
      /\ u.signatures = tok.signatures /\ u.pending = tok.pending
      /\ u.encrypting = tok.encrypting /\ u.message = tok.message /\ u.verified = tok.verified
      /\ IsToken(u)
  BY <1>1, <1>2 DEF IsToken
<1>4. Flags'
  BY <1>1, <1>2 DEF Flags
<1> HIDE DEF u
<1>5. ASSUME ~changed' PROVE Sound(u, secret', demanded')
  <2>1. Sound(tok, secret, demanded)
    BY <1>1, <1>2, <1>5
  <2>2. Ours(u) = Ours(tok) /\ (Trustworthy(tok) <=> Trustworthy(u)) /\ (Alone(tok) <=> Alone(u))
    BY <1>3 DEF Ours, Trustworthy, Alone
  <2>3. Confirms \in u.rules => Confirms \in tok.rules
    BY <1>3
  <2> QED
    BY <1>1, <1>3, <2>1, <2>2, <2>3 DEF Sound
<1>6. Guarded(u, secret') /\ Signatures(u) <= MaxSignatures
  BY <1>1, <1>2, <1>3 DEF Guarded, Signatures
<1> QED
  BY <1>1, <1>3, <1>4, <1>5, <1>6, OptionsKept DEF u

LEMMA EncryptionKept ==
  ASSUME IInv, WithEncryption
  PROVE  Kept
<1> DEFINE u == tok'
<1>1. /\ tok' = [tok EXCEPT !.encrypting = TRUE]
      /\ changed' = changed /\ written' = Nothing /\ secret' = TRUE /\ demanded' = demanded
  BY DEF WithEncryption
<1>2. IsToken(tok) /\ (~changed => Sound(tok, secret, demanded)) /\ Flags
      /\ Signatures(tok) <= MaxSignatures
  BY DEF IInv, TokenOK
<1>3. /\ u.claims = tok.claims /\ u.rules = tok.rules /\ u.encoded = tok.encoded
      /\ u.signatures = tok.signatures /\ u.pending = tok.pending
      /\ u.encrypting = TRUE /\ u.message = tok.message /\ u.verified = tok.verified
      /\ IsToken(u)
  BY <1>1, <1>2 DEF IsToken
<1>4. Flags'
  BY <1>1, <1>2 DEF Flags
<1> HIDE DEF u
<1>5. ASSUME ~changed' PROVE Sound(u, secret', demanded')
  <2>1. Sound(tok, secret, demanded)
    BY <1>1, <1>2, <1>5
  <2>2. Ours(u) = Ours(tok) /\ (Trustworthy(tok) <=> Trustworthy(u)) /\ (Alone(tok) <=> Alone(u))
    BY <1>3 DEF Ours, Trustworthy, Alone
  <2>3. MayConfirm(tok.encoded, secret) => MayConfirm(tok.encoded, secret')
    BY <1>1 DEF MayConfirm
  <2> QED
    BY <1>1, <1>3, <2>1, <2>2, <2>3 DEF Sound
<1>6. Guarded(u, secret') /\ Signatures(u) <= MaxSignatures
  BY <1>1, <1>2, <1>3 DEF Guarded, Signatures
<1> QED
  BY <1>1, <1>3, <1>4, <1>5, <1>6, OptionsKept DEF u

LEMMA MarshalKept ==
  ASSUME IInv, NEW json \in BOOLEAN, Marshal(json)
  PROVE  Kept
<1> PICK w \in WriteOutcomes(tok, json) : Becomes(w.tok) /\ written' = w.document
  BY DEF Marshal
<1>1. /\ tok' = w.tok /\ Signatures(w.tok) <= MaxSignatures /\ written' = w.document
      /\ secret' = secret /\ demanded' = demanded /\ changed' = changed
  BY DEF Marshal, Becomes, history
<1>2. Flags /\ TokenOK(tok, demanded) /\ demanded \in BOOLEAN
  BY DEF IInv, Flags
<1>3. /\ TokenOK(w.tok, demanded) /\ w.tok.rules = tok.rules
      /\ ~changed => NewlySigned(tok, w.tok)
      /\ w.document = Nothing \/ IsDocument(w.document)
      /\ ~changed => Fits(w.document.signatures, w.document.claims)
      /\ w.document.kind = "JWS" => ~secret
      /\ w.document.kind = "JWS" /\ ~changed /\ Confirms \in tok.rules =>
           \/ Cnf[w.document.claims]["jwk"] # Symmetric
           \/ \A i \in DOMAIN w.document.signatures : ~w.document.signatures[i].here
  BY <1>1, <1>2, WriteSound
<1>4. TokenOK(tok, demanded)' /\ (Signatures(tok) <= MaxSignatures)' /\ Flags'
  BY <1>1, <1>2, <1>3 DEF TokenOK, Flags
<1>5. WrittenOK'
  BY <1>1, <1>3 DEF WrittenOK
<1>6. ConfirmationKeySecret'
  BY <1>1, <1>3 DEF ConfirmationKeySecret
<1>7. WritesNoClaims
  BY <1>1, <1>3 DEF WritesNoClaims
<1> QED
  BY <1>1, <1>3, <1>4, <1>5, <1>6, <1>7 DEF Kept, IInv

LEMMA VerifyKept ==
  ASSUME IInv, NEW satisfactory \in BOOLEAN, Verify(satisfactory)
  PROVE  Kept
<1> PICK o \in VerifyOutcomes(tok, satisfactory) :
      Becomes(o.tok) /\ demanded' = (demanded /\ ~o.ok)
  BY DEF Verify
<1>1. /\ tok' = o.tok /\ Signatures(o.tok) <= MaxSignatures /\ written' = Nothing
      /\ secret' = secret /\ changed' = changed
  BY DEF Verify, Becomes
<1>2. Flags /\ TokenOK(tok, demanded) /\ demanded \in BOOLEAN
  BY DEF IInv, Flags
<1>3. /\ o.ok \in BOOLEAN /\ o.tok.rules = tok.rules
      /\ ~o.ok => TokenOK(o.tok, demanded)
      /\ o.ok => \A f \in BOOLEAN : TokenOK(o.tok, f)
      /\ ~changed => NewlySigned(tok, o.tok)
  BY <1>2, VerifySound
<1>4. demanded' \in BOOLEAN /\ (~o.ok => demanded' = demanded)
  BY <1>2, <1>3
<1>5. TokenOK(o.tok, demanded')
  BY <1>2, <1>3, <1>4
<1>6. TokenOK(tok, demanded)' /\ (Signatures(tok) <= MaxSignatures)' /\ Flags'
  BY <1>1, <1>2, <1>4, <1>5 DEF TokenOK, Flags
<1> QED
  BY <1>1, <1>3, <1>6, WritesNothing DEF Kept, IInv

LEMMA DecryptKept ==
  ASSUME IInv, NEW satisfactory \in BOOLEAN, NEW requireNested \in BOOLEAN,
         Decrypt(satisfactory, requireNested)
  PROVE  Kept
<1> PICK o \in DecryptOutcomes(tok, satisfactory, requireNested) :
      Becomes(o.tok) /\ demanded' = IF o.ok THEN requireNested ELSE demanded
  BY DEF Decrypt
<1>1. /\ tok' = o.tok /\ Signatures(o.tok) <= MaxSignatures /\ written' = Nothing
      /\ secret' = secret /\ changed' = changed
  BY DEF Decrypt, Becomes
<1>2. Flags /\ TokenOK(tok, demanded) /\ demanded \in BOOLEAN
  BY DEF IInv, Flags
<1>3. /\ o.tok.rules = tok.rules
      /\ TokenOK(o.tok, IF o.ok THEN requireNested ELSE demanded)
      /\ ~changed => NewlySigned(tok, o.tok)
  BY <1>2, DecryptSound
<1>4. demanded' \in BOOLEAN
  BY <1>2
<1>5. TokenOK(tok, demanded)' /\ (Signatures(tok) <= MaxSignatures)' /\ Flags'
  BY <1>1, <1>2, <1>3, <1>4 DEF TokenOK, Flags
<1> QED
  BY <1>1, <1>3, <1>5, WritesNothing DEF Kept, IInv

-----------------------------------------------------------------------------
(* The theorems *)

LEMMA InitIInv == Init => IInv
<1> SUFFICES ASSUME Init PROVE IInv
  OBVIOUS
<1>1. /\ tok = [claims |-> Empty, encoded |-> NoText, signatures |-> <<>>, pending |-> <<>>,
                rules |-> {}, encrypting |-> FALSE, message |-> Nothing, verified |-> FALSE]
      /\ written = Nothing /\ secret = FALSE /\ demanded = FALSE /\ changed = FALSE
  BY DEF Init, Zero
<1>2. IsToken(tok) /\ Guarded(tok, secret)
  BY <1>1, TokenAssumption DEF IsToken, Guarded
<1>3. Sound(tok, secret, demanded)
  <2>1. Ours(tok) = {} /\ Fits(Nothing.signatures, Nothing.claims)
    BY <1>1, NothingGives DEF Ours, Fits
  <2> QED
    BY <1>1, <1>2, <2>1, NewSound
<1>4. Signatures(tok) <= MaxSignatures
  <2>1. tok.pending = <<>> /\ tok.signatures = <<>>
    BY <1>1
  <2> QED
    BY <2>1, TokenAssumption DEF Signatures
<1>5. WrittenOK /\ ConfirmationKeySecret
  BY <1>1, NothingGives DEF WrittenOK, ConfirmationKeySecret, Fits
<1> QED
  BY <1>1, <1>2, <1>3, <1>4, <1>5 DEF IInv, Flags, TokenOK

LEMMA StepKept == IInv /\ Next => Kept
<1> SUFFICES ASSUME IInv, Next PROVE Kept
  OBVIOUS
<1>1. ASSUME NEW claims \in Claims, NEW rules \in SUBSET Rules, NEW encrypted \in BOOLEAN,
             NEW by \in UNION {[1..n -> Signers] : n \in 0..MaxOptions},
             New(claims, by, rules, encrypted)
      PROVE  Kept
  <2>1. PICK n \in 0..MaxOptions : by \in [1..n -> Signers]
    OBVIOUS
  <2> QED
    BY <1>1, <2>1, NewKept
<1>2. ASSUME NEW document \in Documents, Unmarshal(document) \/ UnmarshalJSON(document)
      PROVE  Kept
  BY <1>2, UnmarshalKept, UnmarshalJSONKept
<1>3. ASSUME NEW claims \in Claims, WithClaims(claims) \/ WithConfirmation(claims) PROVE Kept
  BY <1>3, ClaimsKept
<1>4. ASSUME NEW by \in Signers, WithSignature(by) PROVE Kept
  BY <1>4, SignatureKept
<1>5. ASSUME NEW rule \in Rules \ {Confirms}, WithIssuanceRule(rule) PROVE Kept
  BY <1>5, RuleKept
<1>6. CASE WithEncryption
  BY <1>6, EncryptionKept
<1>7. ASSUME NEW json \in BOOLEAN, Marshal(json) PROVE Kept
  BY <1>7, MarshalKept
<1>8. ASSUME NEW satisfactory \in BOOLEAN, Verify(satisfactory) PROVE Kept
  BY <1>8, VerifyKept
<1>9. ASSUME NEW satisfactory \in BOOLEAN, NEW requireNested \in BOOLEAN,
             Decrypt(satisfactory, requireNested)
      PROVE  Kept
  BY <1>9, DecryptKept
<1> QED
  BY <1>1, <1>2, <1>3, <1>4, <1>5, <1>6, <1>7, <1>8, <1>9 DEF Next

LEMMA StepIInv == IInv /\ [Next]_vars => IInv'
<1>1. ASSUME IInv, UNCHANGED vars PROVE IInv'
  BY <1>1 DEF vars, history, IInv, Flags, TokenOK, WrittenOK, ConfirmationKeySecret
<1> QED
  BY <1>1, StepKept DEF Kept

\* The strengthening that every step keeps.
THEOREM Invariant == Spec => []IInv
  BY InitIInv, StepIInv, PTL DEF Spec

\* Each variable keeps its type, and a document has the signatures of its kind.
THEOREM Types == Spec => []TypeOK
<1>1. IInv => TypeOK
  <2> SUFFICES ASSUME IInv PROVE TypeOK
    OBVIOUS
  <2>1. tok.claims \in Claims /\ tok.encoded \in Claims \union {NoText}
        /\ tok.signatures \in Seq(Signature) /\ tok.pending \in Seq(Signers)
    BY DEF IInv, TokenOK, IsToken
  <2>2. /\ \A i \in DOMAIN tok.signatures : tok.signatures[i] \in Signature
        /\ \A i \in DOMAIN tok.pending : tok.pending[i] \in Signers
    BY <2>1
  <2>3. /\ written.kind = "JWS" => written.signatures # <<>> /\ written.claims \in Claims
        /\ written.kind = "JWE" => written.nested = (Len(written.signatures) = 1)
    BY NothingGives DEF IInv, WrittenOK, IsDocument
  <2> QED
    BY <2>1, <2>2, <2>3 DEF IInv, TypeOK
<1> QED
  BY <1>1, Invariant, PTL

\* Verified is true of authentic claims only, whatever the token went through
\* and whatever failed, unless the caller itself changed a token in use.
THEOREM Authentic == Spec => []AuthenticClaims
<1>1. IInv => AuthenticClaims
  BY DEF IInv, TokenOK, Sound, AuthenticClaims, Authenticated, Trustworthy, Alone
<1> QED
  BY <1>1, Invariant, PTL

\* Every signature that the token made verifies in the document that has it.
THEOREM Fitting == Spec => []SignaturesFit
<1>1. IInv => SignaturesFit
  BY DEF IInv, WrittenOK, Fits, SignaturesFit
<1> QED
  BY <1>1, Invariant, PTL

\* The secret that a confirmation names is not in a document that all can read.
THEOREM SecretKept == Spec => []ConfirmationKeySecret
  BY Invariant, PTL DEF IInv

\* A token signs only what each of its rules accepts.
THEOREM RulesHold == Spec => RulesGuard
<1>1. IInv /\ [Next]_vars => [SignsAccepted]_vars
  <2> SUFFICES ASSUME IInv, Next, ~changed, NEW rule \in tok.rules,
                      NEW i \in Ours(tok') \ Ours(tok)
               PROVE  Accepts(rule, tok'.signatures[i].over, secret)
    BY DEF SignsAccepted
  <2>1. tok'.signatures[i].over = tok.claims /\ Accepts(rule, tok.claims, tok.encrypting)
    BY StepKept DEF Kept, NewlySigned, RulesAccept
  <2>2. tok.encrypting \in BOOLEAN /\ secret \in BOOLEAN /\ (tok.encrypting => secret)
    BY DEF IInv, Flags, TokenOK, IsToken, Guarded
  <2> QED
    BY <2>1, <2>2, Monotone
<1> QED
  BY <1>1, Invariant, PTL DEF Spec, RulesGuard

\* The claims of a token that is to be encrypted are never written in clear.
THEOREM NotInClear == Spec => NeverInClear
<1>1. IInv /\ [Next]_vars => [WritesNoClaims]_vars
  BY StepKept DEF Kept
<1> QED
  BY <1>1, Invariant, PTL DEF Spec, NeverInClear
=============================================================================
