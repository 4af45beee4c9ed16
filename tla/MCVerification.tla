--------------------------- MODULE MCVerification ---------------------------
(***************************************************************************)
(* Small instances of Verification: an issuer that replaces its key, the   *)
(* configurations that make Verify take each of its ways, and the tokens   *)
(* that tell them apart.                                                   *)
(***************************************************************************)
EXTENDS Verification, TLC

Symmetric == Permutations(Verifiers)

(* Keys and signatures *)

Key(kid, material) ==
  [use |-> Absent, ops |-> <<>>, alg |-> Absent, kid |-> kid, material |-> material]

\* The issuer signs with m1, then m2, and for a while publishes both; at last
\* two keys have one name.
MCPublished ==
  << <<Key("k1", "m1")>>, <<Key("k1", "m1"), Key("k2", "m2")>>,
     <<Key("k2", "m0"), Key("k2", "m2")>> >>

FirstSet == <<MCPublished[1]>>

Sig(kid, signer) ==
  [alg |-> "a1", kid |-> kid, typ |-> "JWT", signer |-> signer, wellFormed |-> TRUE, jwk |-> {}]

InHeader(material, half, chain, trusted) ==
  [use |-> Absent, ops |-> <<>>, alg |-> Absent, kid |-> Absent, material |-> material,
   half |-> half, chain |-> chain, trusted |-> trusted]

Signed(sigs) ==
  [sigs |-> sigs, rules |-> TRUE, exp |-> NoTime, nbf |-> NoTime, iat |-> NoTime,
   iss |-> "issuer", sub |-> "subject", aud |-> {"me"}, jti |-> "j1"]

Sig1 == Sig("k1", "m1")
Sig2 == Sig("k2", "m2")
Forged == Sig("k1", "nobody")

(* Configurations *)

Plain ==
  [leeway |-> 0, algorithms |-> {}, default |-> {"a1", "a2"}, required |-> {},
   headerKeys |-> FALSE, allSignatures |-> FALSE, anyType |-> FALSE, type |-> Absent,
   maxAge |-> 0, issuer |-> Absent, audience |-> {}, subject |-> Absent, replay |-> FALSE]

\* One signature suffices, with a limit on the algorithms; or each of them must
\* verify; or the header may carry the key.
OneOf == [Plain EXCEPT !.algorithms = {"a1", "a2"}, !.required = {{"a1"}}]
EachOf == [Plain EXCEPT !.allSignatures = TRUE, !.type = "JWT"]
Header == [Plain EXCEPT !.headerKeys = TRUE, !.anyType = TRUE]

\* Each check of the claims.
Checked ==
  [Plain EXCEPT !.leeway = 1, !.maxAge = 1, !.issuer = "issuer", !.audience = {"me", "us"},
                !.subject = "subject", !.replay = TRUE]

\* Two profiles that each limit the algorithms.
TwoProfiles == [Plain EXCEPT !.required = {{"a1"}, {"a2"}}]

(* Calls *)

OneCalls ==
  "plain" :> Signed(<<Sig1>>)
  @@ "next" :> Signed(<<Sig2>>)
  @@ "partly" :> Signed(<<Forged, [Sig2 EXCEPT !.typ = "other"]>>)
  @@ "typed" :> Signed(<<[Sig1 EXCEPT !.typ = "other"], [Sig2 EXCEPT !.typ = Absent]>>)
  @@ "weak" :> Signed(<<[Sig1 EXCEPT !.alg = "a2"]>>)
  @@ "broken" :> Signed(<<Sig1, [Sig2 EXCEPT !.wellFormed = FALSE]>>)
  @@ "unsigned" :> Signed(<<>>)

EachCalls ==
  "both" :> Signed(<<Sig1, Sig2>>)
  @@ "each forged" :> Signed(<<Sig1, Forged>>)
  @@ "each typed" :> Signed(<<Sig1, [Sig2 EXCEPT !.typ = "other"]>>)
  @@ "each broken" :> Signed(<<Sig1, [Sig2 EXCEPT !.wellFormed = FALSE]>>)

Carries(sig, key) == [sig EXCEPT !.jwk = {key}]

HeaderCalls ==
  "own" :> Signed(<<Carries(Sig(Absent, "mine"), InHeader("mine", "public", TRUE, TRUE))>>)
  @@ "untrusted" :> Signed(<<Carries(Sig("k9", "mine"), InHeader("mine", "public", TRUE, FALSE))>>)
  @@ "private" :> Signed(<<Carries(Sig("k9", "mine"), InHeader("mine", "private", TRUE, TRUE))>>)
  @@ "spare" :> Signed(<<Carries(Sig1, InHeader("mine", "public", TRUE, FALSE))>>)
  @@ "encrypting" :> Signed(<<Carries(Sig("k9", "mine"),
                       [InHeader("mine", "public", TRUE, TRUE) EXCEPT !.use = "enc"])>>)
  @@ "damaged" :> Signed(<<Carries(Sig1, InHeader("m1", "public", FALSE, TRUE))>>)

KeyCarried == OneCalls @@ EachCalls @@ HeaderCalls
KeyCalls == DOMAIN KeyCarried
KeyConfig ==
  [c \in KeyCalls |-> IF c \in DOMAIN OneCalls THEN OneOf
                      ELSE IF c \in DOMAIN EachCalls THEN EachOf ELSE Header]

\* Claims, times and identifiers.
Timed == [Signed(<<Sig1>>) EXCEPT !.exp = 2, !.nbf = 2, !.iat = 1]

ClaimCarried ==
  "timed" :> Timed
  @@ "again" :> [Timed EXCEPT !.exp = NoTime, !.iat = 0]
  @@ "short" :> [Timed EXCEPT !.exp = 0, !.nbf = 0, !.iat = 0]
  @@ "ageless" :> [Timed EXCEPT !.iat = NoTime]
  @@ "anonymous" :> [Timed EXCEPT !.jti = Absent]
  @@ "elsewhere" :> [Timed EXCEPT !.aud = {"them"}]
  @@ "foreign" :> [Timed EXCEPT !.iss = "other"]
  @@ "about" :> [Timed EXCEPT !.sub = "other"]
  @@ "unruly" :> [Timed EXCEPT !.rules = FALSE]
ClaimCalls == DOMAIN ClaimCarried
ClaimConfig == [c \in ClaimCalls |-> Checked]

\* An algorithm that one of two profiles permits.
ProfileCarried ==
  "strong" :> Signed(<<Sig1>>) @@ "weak" :> Signed(<<[Sig1 EXCEPT !.alg = "a2"]>>)
ProfileCalls == DOMAIN ProfileCarried
ProfileConfig == [c \in ProfileCalls |-> TwoProfiles]
=============================================================================
