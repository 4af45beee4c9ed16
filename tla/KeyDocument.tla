---------------------------- MODULE KeyDocument ----------------------------
(***************************************************************************)
(* One jwk.Key and its JSON document (jwk/key.go, jwk/x509.go,             *)
(* jwk/thumbprint.go): a caller makes the key from material, or reads it,  *)
(* also into a Key that was used before, sets its parameters, takes the    *)
(* public half, names it by its thumbprint and writes it.  A key pair or a *)
(* secret is a model value; its public members are what a document holds.  *)
(* A certificate is its own thumbprint, and a hash has no collision.       *)
(***************************************************************************)
EXTENDS KeySelection

CONSTANTS
  Pairs,        (* key pairs and symmetric keys                            *)
  Public,       (* of a pair: its "kty" and its public members; of a       *)
                (* symmetric key: the key itself                           *)
  NoMaterial,   (* a Key without material                                  *)
  Foreign,      (* material that this package does not write               *)
  Malformed,    (* a value that does not decode or is out of range         *)
  Cert,         (* of a certificate: the pair that it carries, the pair    *)
                (* that signed it and the uses that it states              *)
  Received,     (* documents that others send                              *)
  Settings,     (* what the options set                                    *)
  MaxChain      (* bound: certificates of a key                            *)

\* The members that "kty" makes necessary.
Required(kty) ==
  CASE kty = "EC" -> {"crv", "x", "y"}
    [] kty = "RSA" -> {"n", "e"}
    [] kty = "OKP" -> {"crv", "x"}
    [] kty = "AKP" -> {"alg", "pub"}
    [] kty = "oct" -> {"k"}

\* What the options set: the parameters of a Key, and not its material.
Options == {"use", "ops", "alg", "kid", "url", "chain", "x5t", "x5t256"}

\* An AKP key names its algorithm.  The options set what a reader can read: an
\* algorithm of jwa, a URL and certificates; and nothing that is malformed.
ASSUME KeyAssumption ==
  /\ Pairs \intersect {NoMaterial, Foreign, Malformed, Absent} = {}
  /\ Malformed \notin {Absent, "EC", "RSA", "OKP", "AKP", "oct"} \union DOMAIN Cert
  /\ \A p \in Pairs :
       LET public == Public[p] IN
       /\ public = [kty |-> public.kty, members |-> public.members]
       /\ public.kty \in {"EC", "RSA", "OKP", "AKP", "oct"}
       /\ public.members = [name \in Required(public.kty) |-> public.members[name]]
       /\ public.kty = "AKP" => public.members["alg"] \notin {Absent, "unknown"}
  /\ \A p, q \in Pairs : Public[p] = Public[q] => p = q
  /\ \A setting \in Settings :
       /\ DOMAIN setting \subseteq Options
       /\ "alg" \in DOMAIN setting => setting.alg # "unknown"
       /\ "url" \in DOMAIN setting => setting.url # Malformed
       /\ "chain" \in DOMAIN setting => setting.chain \in Seq(DOMAIN Cert)
  /\ \A d \in Received : d.x5c \in Seq(DOMAIN Cert \union {Malformed})

VARIABLES
  key,          (* the Key                                                 *)
  written,      (* what MarshalJSON gave, if it was the last call          *)
  published,    (* history: the key came from Public                       *)
  read          (* history: the document that UnmarshalJSON accepted last, *)
                (* or NoDocument when the caller changed the key since     *)

vars == <<key, written, published, read>>

-----------------------------------------------------------------------------
(* Material *)

\* half: what is held of the pair.  "multi" is an RSA key of three primes, and
\* "zero" the zero value of *mldsa.PrivateKey.
Material(pair, half) == [pair |-> pair, half |-> half]
Holds(material) == material.pair \in Pairs
KeyType(material) == IF Holds(material) THEN Public[material.pair].kty ELSE Absent

Materials ==
  {Material(p, "secret") : p \in {q \in Pairs : Public[q].kty = "oct"}}
  \union {Material(p, half) : half \in {"public", "private"},
                              p \in {q \in Pairs : Public[q].kty # "oct"}}
  \union {Material(p, "multi") : p \in {q \in Pairs : Public[q].kty = "RSA"}}
  \union {Material(Foreign, "private"), Material(Foreign, "zero"), Material(NoMaterial, "public")}

ZeroKey ==
  [kty |-> Absent, use |-> Absent, ops |-> <<>>, alg |-> Absent, kid |-> Absent, url |-> Absent,
   chain |-> <<>>, x5t |-> Absent, x5t256 |-> Absent, material |-> Material(NoMaterial, "public")]

\* NewKey: "alg" of an AKP key comes with its material.
NewKey(material) ==
  [ZeroKey EXCEPT !.kty = KeyType(material), !.material = material,
                  !.alg = IF KeyType(material) = "AKP" THEN Public[material.pair].members["alg"]
                          ELSE Absent]

\* Key.Public, of a key that has a public half.
HasPublicHalf(k) == k.material.half \notin {"secret", "zero"}

PublicKey_NoOKP(k) ==
  [k EXCEPT !.material.half = IF KeyType(k.material) \in {"EC", "RSA", "AKP"} THEN "public" ELSE @]

PublicKey(k) == [k EXCEPT !.material.half = IF Holds(k.material) THEN "public" ELSE @]

-----------------------------------------------------------------------------
(* The X.509 parameters *)

\* publicMaterial: what a certificate can carry.
Certifiable(material) == Holds(material) /\ material.half # "secret"

UseFits(k) ==
  LET uses == Cert[k.chain[1]].uses
  IN k.use \in {"sig", "enc"} /\ uses # {} => k.use \in uses

InOrder(chain) == \A i \in 2..Len(chain) : Cert[chain[i - 1]].signer = Cert[chain[i]].carries

NamedCarry(k) ==
  \A i \in DOMAIN k.chain :
    k.chain[i] \in {k.x5t, k.x5t256} => Cert[k.chain[i]].carries = k.material.pair

\* checkCertificates.
Certified(k) ==
  /\ k.x5t # Malformed /\ k.x5t256 # Malformed
  /\ \/ k.chain = <<>>
     \/ k.material.pair = NoMaterial
     \/ /\ Certifiable(k.material)
        /\ Cert[k.chain[1]].carries = k.material.pair
        /\ UseFits(k) /\ InOrder(k.chain) /\ NamedCarry(k)

-----------------------------------------------------------------------------
(* The document *)

MemberNames == {"crv", "x", "y", "n", "e", "pub", "k"}

Or(value, old) == IF value = Absent THEN old ELSE value

\* The pair that has these public members: none when one is missing, out of
\* range or not on the curve.
PairsOf(kty, d) ==
  {p \in Pairs : Public[p].kty = kty /\
     \A name \in DOMAIN Public[p].members \ {"alg"} : Public[p].members[name] = d.members[name]}

\* The halves must belong together; what a private member belongs to is its value.
Joined(pairs, d) ==
  {Material(p, IF d.private = Absent THEN "public" ELSE "private") :
     p \in {q \in pairs : d.private \in {Absent, q}}}

\* What each type of key gives: one material, or none and an error.
parseElipticCurve(d) == Joined(PairsOf("EC", d), d)

parseOctetKeyPair(d) == Joined(PairsOf("OKP", d), d)

parseAKP(d, alg) ==
  IF d.alg = Absent THEN {}
  ELSE Joined({p \in PairsOf("AKP", d) : Public[p].members["alg"] = alg}, d)

\* An RSA key without "d" or without its primes is public.
parseRSA(d) ==
  LET pairs == PairsOf("RSA", d)
      private == {p \in pairs : d.private = p /\ d.primes = p /\ ~d.more}
  IN IF Absent \in {d.private, d.primes} THEN {Material(p, "public") : p \in pairs}
     ELSE {Material(p, "private") : p \in private}

parseOctetSequence(d) == {Material(p, "secret") : p \in PairsOf("oct", d)}

\* The switch of UnmarshalJSON: for another "kty" the material stays.
MaterialsOf(d, alg, old) ==
  CASE d.kty = "EC" -> parseElipticCurve(d)
    [] d.kty = "RSA" -> parseRSA(d)
    [] d.kty = "oct" -> parseOctetSequence(d)
    [] d.kty = "OKP" -> parseOctetKeyPair(d)
    [] d.kty = "AKP" -> parseAKP(d, alg)
    [] OTHER -> {old}

Outcome(k, ok) == [key |-> k, ok |-> ok]

\* UnmarshalJSON on a Key: an error leaves what was assigned before it.
Sound(x5c) ==
  SubSeq(x5c, 1, Cardinality({i \in DOMAIN x5c : \A j \in 1..i : x5c[j] # Malformed}))

ReadKey_CertificatesFirst(k, d) ==
  LET e == [k EXCEPT !.kty = d.kty, !.use = d.use, !.ops = d.ops, !.alg = Or(d.alg, @),
                     !.kid = d.kid, !.url = Or(d.url, @), !.chain = @ \o d.x5c,
                     !.x5t = d.x5t, !.x5t256 = d.x5t256]
      materials == IF d.kty = Malformed THEN {} ELSE MaterialsOf(d, e.alg, e.material)
  IN IF \/ materials = {} \/ ~OperationsAgree(d.use, d.ops) \/ d.alg = "unknown"
        \/ d.url = Malformed \/ Malformed \in ToSet(d.x5c) \/ ~Certified(e)
       THEN Outcome(k, FALSE)
     ELSE Outcome([e EXCEPT !.material = CHOOSE m \in materials : TRUE], TRUE)

ReadKey(k, d) ==
  LET a == [k EXCEPT !.kty = d.kty, !.use = d.use, !.ops = d.ops]
      b == [a EXCEPT !.alg = Or(d.alg, @), !.kid = d.kid]
      c == [b EXCEPT !.url = Or(d.url, @), !.chain = @ \o Sound(d.x5c)]
      e == [c EXCEPT !.x5t = d.x5t, !.x5t256 = d.x5t256]
      materials == MaterialsOf(d, e.alg, e.material)
      f == [e EXCEPT !.material = CHOOSE m \in materials : TRUE]
  IN IF d.kty = Malformed THEN Outcome(k, FALSE)
     ELSE IF ~OperationsAgree(d.use, d.ops) \/ d.alg = "unknown" THEN Outcome(a, FALSE)
     ELSE IF d.url = Malformed THEN Outcome(b, FALSE)
     ELSE IF Malformed \in ToSet(d.x5c) THEN Outcome(c, FALSE)
     ELSE IF materials = {} THEN Outcome(e, FALSE)
     ELSE Outcome(f, Certified(f))

\* MarshalJSON.
MayWrite_AnyUse(k) ==
  /\ Certified(k)
  /\ Holds(k.material) /\ k.material.half # "multi"
  /\ KeyType(k.material) = "AKP" => k.alg \in {Absent, Public[k.material.pair].members["alg"]}

MayWrite(k) ==
  /\ OperationsAgree(k.use, k.ops) /\ Certified(k)
  /\ Holds(k.material) /\ k.material.half # "multi"
  /\ KeyType(k.material) = "AKP" => k.alg \in {Absent, Public[k.material.pair].members["alg"]}

WriteKey(k) ==
  LET pair == k.material.pair
      private == IF k.material.half = "private" THEN pair ELSE Absent
      public == Public[pair]
  IN [kty |-> k.kty, use |-> k.use, ops |-> k.ops, kid |-> k.kid, url |-> k.url, x5c |-> k.chain,
      x5t |-> k.x5t, x5t256 |-> k.x5t256, more |-> FALSE,
      alg |-> IF public.kty = "AKP" THEN public.members["alg"] ELSE k.alg,
      members |-> [name \in MemberNames |->
                     IF name \in DOMAIN public.members THEN public.members[name] ELSE Absent],
      private |-> private, primes |-> IF public.kty = "RSA" THEN private ELSE Absent]

-----------------------------------------------------------------------------
(* Thumbprints *)

\* thumbprintMembers.
ThumbprintMembers_NoCurve(material) ==
  [name \in {"kty"} \union (Required(KeyType(material)) \ {"crv"}) |->
     IF name = "kty" THEN KeyType(material) ELSE Public[material.pair].members[name]]

ThumbprintMembers(material) ==
  [name \in {"kty"} \union Required(KeyType(material)) |->
     IF name = "kty" THEN KeyType(material) ELSE Public[material.pair].members[name]]

\* The hash functions with a registered name, and one without.
Size(hash) ==
  CASE hash = "sha-256" -> 32 [] hash = "sha-384" -> 48 [] hash = "sha-512" -> 64
    [] hash = "sha-1" -> 20
Registered == {"sha-256", "sha-384", "sha-512"}
Hashes == Registered \union {"sha-1"}

Thumbprint(material, hash) == [hash |-> hash, of |-> ThumbprintMembers(material)]

\* ParseThumbprintURI: the hash that a URI names, if it is one.
ParseThumbprintURI(uri) ==
  {hash \in Registered : uri.name = hash /\ Size(uri.digest.hash) = Size(hash)}

-----------------------------------------------------------------------------
(* The callers *)

NoDocument == [kty |-> Malformed]

Init == key = ZeroKey /\ written = NoDocument /\ published = FALSE /\ read = NoDocument

New(material) ==
  /\ key' = NewKey(material)
  /\ written' = NoDocument
  /\ published' = FALSE /\ read' = NoDocument

\* The options, on a key in use.
With(setting) ==
  /\ key' = [name \in DOMAIN key |-> IF name \in DOMAIN setting THEN setting[name] ELSE key[name]]
  /\ read' = NoDocument
  /\ written' = NoDocument
  /\ UNCHANGED published

\* UnmarshalJSON; a Key that was used before is read again.
Read(d) ==
  LET r == ReadKey(key, d) IN
  /\ d # NoDocument
  /\ Len(r.key.chain) <= MaxChain
  /\ key' = r.key
  /\ published' = FALSE
  /\ read' = IF r.ok THEN d ELSE NoDocument
  /\ written' = NoDocument

\* Public; a symmetric key and a zero key give nil.
TakePublic ==
  /\ HasPublicHalf(key)
  /\ key' = PublicKey(key)
  /\ published' = TRUE
  /\ written' = NoDocument
  /\ UNCHANGED read

MarshalJSON ==
  /\ written' = IF MayWrite(key) THEN WriteKey(key) ELSE NoDocument
  /\ UNCHANGED <<key, published, read>>

Next ==
  \/ \E material \in Materials : New(material)
  \/ \E setting \in Settings : With(setting)
  \/ \E d \in Received \union {written} : Read(d)
  \/ TakePublic
  \/ MarshalJSON

Spec == Init /\ [][Next]_vars

-----------------------------------------------------------------------------
(* Properties *)

Fresh(d) == ReadKey(ZeroKey, d)

\* "To return such a key with no change gives the secret as a publishable value"
\* (the comment of Public): no document that is written from a public half, after
\* any sequence of reads and options, has a private or a symmetric member.
NothingSecret ==
  published /\ written # NoDocument =>
    /\ written.private = Absent /\ written.primes = Absent
    /\ written.members["k"] = Absent

\* The material that a document gives: the pair that has all its public
\* members, and the private half only if the document has it.
MaterialIs(m, d) ==
  /\ Holds(m) /\ KeyType(m) = d.kty
  /\ \A name \in Required(d.kty) :
       Public[m.pair].members[name] = IF name = "alg" THEN d.alg ELSE d.members[name]
  /\ m.half = "private" => d.private = m.pair

OfDocument(k, d) ==
  /\ d.kty \in {"EC", "RSA", "OKP", "AKP", "oct"} => MaterialIs(k.material, d)
  /\ SubSeq(k.chain, Len(k.chain) - Len(d.x5c) + 1, Len(k.chain)) = d.x5c

\* "The first certificate holds the public key of this JWK" (the comment of
\* X509CertificateChain).  A key that was accepted has the material and the
\* certificates of the document that it was read from, whatever the Key held
\* before.  Of such a key, and of one that is written, the chain leads from the
\* key up, its certificate and "use" agree, and no certificate of the chain that
\* a thumbprint names carries another key.  A thumbprint of a certificate that is
\* not in the chain is compared with nothing, and this property does not ask it.
LeafIs(k, pair) == Cert[k.chain[1]].carries = pair

CertifiedKey ==
  /\ read # NoDocument => OfDocument(key, read)
  /\ (read # NoDocument \/ written # NoDocument) /\ key.chain # <<>> /\ Holds(key.material) =>
       /\ LeafIs(key, key.material.pair)
       /\ \A i \in 2..Len(key.chain) : Cert[key.chain[i]].carries = Cert[key.chain[i - 1]].signer
       /\ \A c \in ToSet(key.chain) \intersect {key.x5t, key.x5t256} : LeafIs(key, Cert[c].carries)
       /\ key.use = "sig" => Cert[key.chain[1]].uses # {"enc"}
       /\ key.use = "enc" => Cert[key.chain[1]].uses # {"sig"}

\* "a serialization that it rejects on input is not a serialization that it
\* writes" (the comment of ErrDuplicateKeyOperation), and its reader gets the
\* key of the writer.  A Key that was read again from a document of another
\* "kty" is excepted: it keeps the material of the first, although the comment of
\* UnmarshalJSON says that it gets none (key.go:1227-1229).
RoundTrip ==
  written # NoDocument /\ key.kty = KeyType(key.material) =>
    LET r == Fresh(written) IN r.ok /\ r.key = [key EXCEPT !.alg = r.key.alg]
                                    /\ (key.alg # Absent => r.key.alg = key.alg)

\* "A private key and its public half give the same value" (the comment of
\* Thumbprint), and no other key does.  A URI that is made of it gives it back,
\* and no URI is accepted whose digest another hash made.
SameThumbprint ==
  Holds(key.material) =>
    /\ \A m \in {n \in Materials : Holds(n)} :
         ThumbprintMembers(m) = ThumbprintMembers(key.material) <=> m.pair = key.material.pair
    /\ \A name \in Registered, hash \in Hashes :
         LET digest == Thumbprint(key.material, hash)
         IN ParseThumbprintURI([name |-> name, digest |-> digest]) =
              IF name = hash THEN {hash} ELSE {}
=============================================================================
