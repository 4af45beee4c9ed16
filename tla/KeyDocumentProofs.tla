------------------------- MODULE KeyDocumentProofs -------------------------
(***************************************************************************)
(* Proofs about KeyDocument, for any key pairs, certificates and documents *)
(* and for chains of any length: no secret is in a document that is made   *)
(* of a public half, the certificates of a key carry it, a reader gets the *)
(* key that was written, and a thumbprint names one key.                   *)
(***************************************************************************)
EXTENDS KeyDocument, FiniteSetTheorems, WellFoundedInduction, TLAPS

-----------------------------------------------------------------------------
(* The inductive invariant *)

\* A Key: its parameters are such that a reader can read them again.
IsKey(k) ==
  /\ k = [name \in DOMAIN ZeroKey |-> k[name]]
  /\ k.material \in Materials
  /\ k.alg # "unknown" /\ k.url # Malformed
  /\ k.chain \in Seq(DOMAIN Cert)

IInv ==
  /\ IsKey(key)
  /\ published => key.material.half = "public" \/ ~Holds(key.material)
  /\ read # NoDocument => Certified(key) /\ OfDocument(key, read)
  /\ written # NoDocument => MayWrite(key) /\ written = WriteKey(key)

-----------------------------------------------------------------------------
(* Material *)

\* A pair without a secret half alone has a public half.
LEMMA Halves ==
  ASSUME NEW m \in Materials
  PROVE  /\ m = Material(m.pair, m.half)
         /\ Holds(m) => \/ m.half = "secret" /\ KeyType(m) = "oct"
                        \/ m.half # "secret" /\ KeyType(m) # "oct"
                           /\ Material(m.pair, "public") \in Materials
  BY KeyAssumption DEF Materials, Material, Holds, KeyType

\* What is read of a document is material, or what was there before.
LEMMA ReadMaterial ==
  ASSUME NEW d, NEW alg, NEW old \in Materials
  PROVE  MaterialsOf(d, alg, old) \subseteq Materials
<1>1. ASSUME NEW pairs, NEW kty \in {"EC", "OKP", "AKP"},
             \A p \in pairs : p \in Pairs /\ Public[p].kty = kty
      PROVE  Joined(pairs, d) \subseteq Materials
  BY <1>1 DEF Joined, Materials
<1>2. \A kty : \A p \in PairsOf(kty, d) : p \in Pairs /\ Public[p].kty = kty
  BY DEF PairsOf
<1>3. parseElipticCurve(d) \subseteq Materials /\ parseOctetKeyPair(d) \subseteq Materials
  BY <1>1, <1>2 DEF parseElipticCurve, parseOctetKeyPair
<1>4. parseAKP(d, alg) \subseteq Materials
  BY <1>1, <1>2 DEF parseAKP
<1>5. parseRSA(d) \subseteq Materials
  BY <1>2 DEF parseRSA, Materials
<1>6. parseOctetSequence(d) \subseteq Materials
  BY <1>2 DEF parseOctetSequence, Materials
<1> QED
  BY <1>3, <1>4, <1>5, <1>6 DEF MaterialsOf

LEMMA LeastExists ==
  ASSUME NEW T, T \subseteq Nat, T # {}
  PROVE  \E i \in T : \A j \in T : i <= j
<1> DEFINE R == OpToRel(<, Nat)
<1>1. PICK i \in T : \A j \in T : <<j, i>> \notin R
  BY NatLessThanWellFounded, WFMin
<1>2. \A j \in T : ~(j < i)
  BY <1>1 DEF OpToRel
<1> HIDE DEF R
<1>3. i \in Nat /\ T \subseteq Nat
  OBVIOUS
<1>4. \A j \in T : i <= j
  BY <1>2, <1>3
<1> QED
  BY <1>4

\* What UnmarshalJSON appends to the chain has no certificate that is malformed,
\* and leaves out none when there is no such certificate.
LEMMA SoundChain ==
  ASSUME NEW x5c \in Seq(DOMAIN Cert \union {Malformed})
  PROVE  /\ Sound(x5c) \in Seq(DOMAIN Cert)
         /\ x5c \in Seq(DOMAIN Cert) => Sound(x5c) = x5c
<1> DEFINE n == Len(x5c)
           fine == {i \in DOMAIN x5c : \A j \in 1..i : x5c[j] # Malformed}
           bad == {i \in DOMAIN x5c : x5c[i] = Malformed}
<1>1. n \in Nat /\ DOMAIN x5c = 1..n /\ \A i \in 1..n : x5c[i] \in DOMAIN Cert \union {Malformed}
  OBVIOUS
<1>2. Sound(x5c) = SubSeq(x5c, 1, Cardinality(fine))
  BY DEF Sound
<1>3. CASE bad = {}
  <2>1. fine = 1..n /\ \A i \in 1..n : x5c[i] # Malformed
    BY <1>1, <1>3
  <2>2. Cardinality(1..n) = n
    BY <1>1, FS_Interval
  <2>3. Sound(x5c) = SubSeq(x5c, 1, n)
    BY <1>2, <2>1, <2>2
  <2>4. SubSeq(x5c, 1, n) = x5c
    OBVIOUS
  <2>5. x5c \in Seq(DOMAIN Cert)
    BY <1>1, <2>1
  <2> QED
    BY <2>3, <2>4, <2>5
<1>4. CASE bad # {}
  <2>1. bad \subseteq Nat
    BY <1>1
  <2>2. PICK b \in bad : \A j \in bad : b <= j
    BY <1>4, <2>1, LeastExists
  <2>3. b \in 1..n /\ x5c[b] = Malformed /\ \A j \in 1..(b - 1) : x5c[j] # Malformed
    BY <1>1, <2>2
  <2>4. fine = 1..(b - 1)
    BY <1>1, <2>3
  <2>5. b - 1 \in Nat /\ b - 1 <= n
    BY <1>1, <2>3
  <2>6. Cardinality(1..(b - 1)) = b - 1
    BY <2>5, FS_Interval
  <2>7. Sound(x5c) = SubSeq(x5c, 1, b - 1)
    BY <1>2, <2>4, <2>6
  <2>8. \A j \in 1..(b - 1) : x5c[j] \in DOMAIN Cert
    BY <1>1, <2>3
  <2>9. SubSeq(x5c, 1, b - 1) \in Seq(DOMAIN Cert)
    BY <1>1, <2>5, <2>8
  <2>10. x5c \notin Seq(DOMAIN Cert)
    <3>1. Malformed \notin DOMAIN Cert
      BY KeyAssumption
    <3> QED
      BY <1>1, <2>3, <3>1
  <2> QED
    BY <2>7, <2>9, <2>10
<1> QED
  BY <1>3, <1>4

\* The material that a document of a known type gives is the material it states.
LEMMA MaterialOf ==
  ASSUME NEW d, d.kty \in {"EC", "RSA", "OKP", "AKP", "oct"},
         NEW alg, d.alg # Absent => alg = d.alg,
         NEW old, NEW m \in MaterialsOf(d, alg, old)
  PROVE  MaterialIs(m, d)
<1>1. \A p \in PairsOf(d.kty, d) :
        /\ p \in Pairs /\ Public[p].kty = d.kty
        /\ \A name \in Required(d.kty) \ {"alg"} : Public[p].members[name] = d.members[name]
  <2> SUFFICES ASSUME NEW p \in PairsOf(d.kty, d)
               PROVE  /\ p \in Pairs /\ Public[p].kty = d.kty
                      /\ \A name \in Required(d.kty) \ {"alg"} :
                           Public[p].members[name] = d.members[name]
    OBVIOUS
  <2>1. p \in Pairs /\ Public[p].kty = d.kty
    BY DEF PairsOf
  <2>2. DOMAIN Public[p].members = Required(d.kty)
    <3>1. Public[p].members = [name \in Required(d.kty) |-> Public[p].members[name]]
      BY <2>1, KeyAssumption
    <3> QED
      BY <3>1
  <2> QED
    BY <2>1, <2>2 DEF PairsOf
<1>2. ASSUME NEW pairs, m \in Joined(pairs, d)
      PROVE  m.pair \in pairs /\ (m.half = "private" => d.private = m.pair)
  BY <1>2 DEF Joined, Material
<1>3. /\ m.pair \in PairsOf(d.kty, d)
      /\ m.half = "private" => d.private = m.pair
      /\ d.kty = "AKP" => Public[m.pair].members["alg"] = d.alg
  <2>1. CASE d.kty \in {"EC", "OKP"}
    BY <1>2, <2>1 DEF MaterialsOf, parseElipticCurve, parseOctetKeyPair
  <2>2. CASE d.kty = "AKP"
    <3>1. d.alg # Absent /\ m \in Joined({p \in PairsOf("AKP", d) : Public[p].members["alg"] = alg}, d)
      BY <2>2 DEF MaterialsOf, parseAKP
    <3> QED
      BY <1>2, <2>2, <3>1
  <2>3. CASE d.kty = "RSA"
    BY <2>3 DEF MaterialsOf, parseRSA, Material
  <2>4. CASE d.kty = "oct"
    BY <2>4 DEF MaterialsOf, parseOctetSequence, Material
  <2> QED
    BY <2>1, <2>2, <2>3, <2>4
<1>4. "alg" \in Required(d.kty) => d.kty = "AKP"
  BY DEF Required
<1> QED
  BY <1>1, <1>3, <1>4 DEF MaterialIs, Holds, KeyType

\* A document is read into a key; a key that is accepted has its certificates,
\* and the material and the certificates of the document.
LEMMA ReadOK ==
  ASSUME NEW k, IsKey(k), NEW d, d.x5c \in Seq(DOMAIN Cert \union {Malformed})
  PROVE  LET r == ReadKey(k, d) IN
         /\ IsKey(r.key)
         /\ r.ok => Certified(r.key) /\ OfDocument(r.key, d)
<1> DEFINE a == [k EXCEPT !.kty = d.kty, !.use = d.use, !.ops = d.ops]
           b == [a EXCEPT !.alg = Or(d.alg, @), !.kid = d.kid]
           c == [b EXCEPT !.url = Or(d.url, @), !.chain = @ \o Sound(d.x5c)]
           e == [c EXCEPT !.x5t = d.x5t, !.x5t256 = d.x5t256]
           materials == MaterialsOf(d, e.alg, e.material)
           f == [e EXCEPT !.material = CHOOSE m \in materials : TRUE]
           r == ReadKey(k, d)
<1>1. r = IF d.kty = Malformed THEN Outcome(k, FALSE)
          ELSE IF ~OperationsAgree(d.use, d.ops) \/ d.alg = "unknown" THEN Outcome(a, FALSE)
          ELSE IF d.url = Malformed THEN Outcome(b, FALSE)
          ELSE IF Malformed \in ToSet(d.x5c) THEN Outcome(c, FALSE)
          ELSE IF materials = {} THEN Outcome(e, FALSE)
          ELSE Outcome(f, Certified(f))
  BY DEF ReadKey
<1>2. {"material", "alg", "url", "chain"} \subseteq DOMAIN ZeroKey
  BY DEF ZeroKey
<1>3. IsKey(a) /\ a.chain = k.chain
  BY <1>2 DEF IsKey
<1> HIDE DEF a
<1>4. /\ d.alg # "unknown" => IsKey(b)
      /\ b.chain = k.chain /\ (d.alg # Absent => b.alg = d.alg)
  <2> "alg" \in DOMAIN a /\ "chain" \in DOMAIN a
    BY <1>2, <1>3 DEF IsKey
  <2> QED
    BY <1>2, <1>3 DEF IsKey, Or
<1> HIDE DEF b
<1>5. /\ IsKey(b) /\ d.url # Malformed => IsKey(c)
      /\ IsKey(b) => c.chain = k.chain \o Sound(d.x5c) /\ c.alg = b.alg
  <2>1. Sound(d.x5c) \in Seq(DOMAIN Cert)
    BY SoundChain
  <2> DEFINE more == Sound(d.x5c)
  <2> HIDE DEF more
  <2>2. \A chain \in Seq(DOMAIN Cert) : chain \o more \in Seq(DOMAIN Cert)
    BY <2>1 DEF more
  <2>3. c = [b EXCEPT !.url = Or(d.url, @), !.chain = @ \o more]
    BY DEF more
  <2> HIDE DEF c
  <2> QED
    BY <1>2, <1>4, <2>2, <2>3 DEF IsKey, Or, more
<1> HIDE DEF c
<1>6. IsKey(c) => IsKey(e) /\ e.chain = c.chain /\ e.alg = c.alg
  BY <1>2 DEF IsKey
<1> HIDE DEF e
<1>7. IsKey(e) => materials \subseteq Materials
  BY ReadMaterial DEF IsKey
<1> HIDE DEF materials
<1>8. IsKey(e) /\ materials # {} =>
        IsKey(f) /\ f.chain = e.chain /\ f.material \in MaterialsOf(d, e.alg, e.material)
  <2>1. IsKey(e) /\ materials # {} => (CHOOSE m \in materials : TRUE) \in Materials
    BY <1>7
  <2> QED
    BY <1>2, <2>1 DEF IsKey, materials
<1> HIDE DEF f
<1>9. /\ \A x : Outcome(x, FALSE).key = x /\ ~Outcome(x, FALSE).ok
      /\ Outcome(f, Certified(f)).key = f
      /\ Outcome(f, Certified(f)).ok = Certified(f)
  BY DEF Outcome
<1> HIDE DEF r
<1>10. \/ r = Outcome(k, FALSE) \/ r = Outcome(a, FALSE)
       \/ r = Outcome(b, FALSE) /\ IsKey(b)
       \/ r = Outcome(c, FALSE) /\ IsKey(c)
       \/ r = Outcome(e, FALSE) /\ IsKey(e)
       \/ r = Outcome(f, Certified(f)) /\ IsKey(b) /\ IsKey(c) /\ IsKey(e) /\ IsKey(f)
          /\ materials # {} /\ Malformed \notin ToSet(d.x5c)
  BY <1>1, <1>4, <1>5, <1>6, <1>8, Zenon
<1>11. IsKey(r.key) /\ (r.ok => Certified(r.key) /\ OfDocument(r.key, d))
  <2>1. CASE /\ r = Outcome(f, Certified(f)) /\ IsKey(b) /\ IsKey(c) /\ IsKey(e) /\ IsKey(f)
             /\ materials # {} /\ Malformed \notin ToSet(d.x5c)
    <3>1. r.key = f /\ r.ok = Certified(f)
      BY <1>9, <2>1
    <3>2. d.kty \in {"EC", "RSA", "OKP", "AKP", "oct"} => MaterialIs(f.material, d)
      <4>1. d.alg # Absent => e.alg = d.alg
        BY <1>4, <1>5, <1>6, <2>1
      <4> QED
        BY <1>8, <2>1, <4>1, MaterialOf
    <3>3. f.chain = k.chain \o d.x5c
      <4>1. f.chain = k.chain \o Sound(d.x5c)
        BY <1>5, <1>6, <1>8, <2>1
      <4>2. d.x5c \in Seq(DOMAIN Cert)
        BY <2>1 DEF ToSet
      <4> QED
        BY <4>1, <4>2, SoundChain
    <3>4. k.chain \in Seq(DOMAIN Cert \union {Malformed})
      BY DEF IsKey
    <3>5. \A s, t \in Seq(DOMAIN Cert \union {Malformed}) :
            SubSeq(s \o t, Len(s \o t) - Len(t) + 1, Len(s \o t)) = t
      OBVIOUS
    <3>6. SubSeq(f.chain, Len(f.chain) - Len(d.x5c) + 1, Len(f.chain)) = d.x5c
      BY <3>3, <3>4, <3>5
    <3> QED
      BY <2>1, <3>1, <3>2, <3>6 DEF OfDocument
  <2>2. ASSUME NEW x, IsKey(x), r = Outcome(x, FALSE) PROVE IsKey(r.key) /\ ~r.ok
    <3>1. r.key = x /\ ~r.ok
      BY <1>9, <2>2
    <3> QED
      BY <2>2, <3>1
  <2> QED
    BY <1>3, <1>10, <2>1, <2>2
<1> QED
  BY <1>11 DEF r

\* The public half has the certificates of the pair.
LEMMA PublicOK ==
  ASSUME IsKey(key), HasPublicHalf(key)
  PROVE  LET k == PublicKey(key) IN
         /\ IsKey(k)
         /\ k.material.half = "public" \/ ~Holds(k.material)
         /\ Certified(key) => Certified(k)
         /\ \A d : OfDocument(key, d) => OfDocument(k, d)
<1> DEFINE half == IF Holds(key.material) THEN "public" ELSE key.material.half
           k == PublicKey(key)
<1>1. "material" \in DOMAIN key /\ key.material = Material(key.material.pair, key.material.half)
  BY Halves DEF IsKey, ZeroKey
<1>2. k = [key EXCEPT !.material = Material(key.material.pair, half)]
  BY <1>1 DEF PublicKey, Material
<1>3. /\ k = [name \in DOMAIN ZeroKey |-> k[name]] /\ k.material = Material(key.material.pair, half)
      /\ k.alg = key.alg /\ k.url = key.url
      /\ k.x5t = key.x5t /\ k.x5t256 = key.x5t256 /\ k.chain = key.chain /\ k.use = key.use
  BY <1>1, <1>2 DEF IsKey, ZeroKey
<1> HIDE DEF k
<1>4. k.material.pair = key.material.pair /\ k.material.half = half
  BY <1>3 DEF Material
<1>5. Holds(k.material) <=> Holds(key.material)
  BY <1>4 DEF Holds
<1>6. k.material \in Materials
  <2>1. CASE Holds(key.material)
    BY <1>3, <2>1, Halves DEF IsKey, HasPublicHalf
  <2>2. CASE ~Holds(key.material)
    BY <1>1, <1>3, <2>2 DEF IsKey
  <2> QED
    BY <2>1, <2>2
<1>7. Certified(key) => Certified(k)
  <2>1. Certifiable(key.material) => Certifiable(k.material)
    BY <1>4, <1>5 DEF Certifiable
  <2>2. (UseFits(key) <=> UseFits(k)) /\ (NamedCarry(key) <=> NamedCarry(k))
    BY <1>3, <1>4 DEF UseFits, NamedCarry
  <2> QED
    BY <1>3, <1>4, <2>1, <2>2 DEF Certified
<1>8. IsKey(k)
  BY <1>3, <1>6 DEF IsKey
<1>9. ASSUME NEW d, OfDocument(key, d) PROVE OfDocument(k, d)
  <2>1. MaterialIs(key.material, d) => MaterialIs(k.material, d)
    BY <1>4, <1>5 DEF MaterialIs, KeyType, Holds
  <2> QED
    BY <1>3, <1>9, <2>1 DEF OfDocument
<1> QED
  BY <1>4, <1>5, <1>7, <1>8, <1>9 DEF k

-----------------------------------------------------------------------------
(* The invariant *)

LEMMA ZeroIsKey ==
  /\ IsKey(ZeroKey)
  /\ \A material \in Materials : IsKey(NewKey(material))
<1>1. ZeroKey.material \in Materials
  BY DEF ZeroKey, Materials, Material
<1>2. ZeroKey.chain \in Seq(DOMAIN Cert) /\ ZeroKey.url # Malformed /\ ZeroKey.alg # "unknown"
  BY KeyAssumption DEF ZeroKey, Absent
<1>3. /\ ZeroKey = [name \in DOMAIN ZeroKey |-> ZeroKey[name]]
      /\ {"kty", "material", "alg", "url", "chain"} \subseteq DOMAIN ZeroKey
  BY DEF ZeroKey
<1>4. ASSUME NEW material \in Materials PROVE IsKey(NewKey(material))
  <2> DEFINE alg == IF KeyType(material) = "AKP" THEN Public[material.pair].members["alg"]
                    ELSE Absent
  <2>1. alg # "unknown"
    <3>1. KeyType(material) = "AKP" =>
            material.pair \in Pairs /\ Public[material.pair].kty = "AKP"
      BY DEF KeyType, Holds, Absent
    <3> QED
      BY <3>1, KeyAssumption DEF Absent
  <2>2. NewKey(material) = [ZeroKey EXCEPT !.kty = KeyType(material), !.material = material,
                                           !.alg = alg]
    BY DEF NewKey
  <2> HIDE DEF alg
  <2> QED
    BY <1>2, <1>3, <2>1, <2>2 DEF IsKey
<1> QED
  BY <1>1, <1>2, <1>3, <1>4 DEF IsKey

LEMMA InitIInv == Init => IInv
<1> SUFFICES ASSUME Init PROVE IInv
  OBVIOUS
<1>1. key = ZeroKey /\ written = NoDocument /\ ~published /\ read = NoDocument
  BY DEF Init
<1> QED
  BY <1>1, ZeroIsKey DEF IInv

LEMMA WithKeeps ==
  ASSUME IInv, NEW setting \in Settings, With(setting)
  PROVE  IInv'
<1>1. "material" \in DOMAIN key /\ "material" \notin DOMAIN setting
  BY KeyAssumption DEF IInv, IsKey, ZeroKey, Options
<1>2. read' = NoDocument /\ written' = NoDocument /\ published' = published
  BY DEF With
<1> DEFINE Now(name) == IF name \in DOMAIN setting THEN setting[name] ELSE key[name]
<1>3. /\ key' = [name \in DOMAIN ZeroKey |-> Now(name)]
      /\ {"material", "alg", "url", "chain"} \subseteq DOMAIN ZeroKey
  <2>1. DOMAIN key = DOMAIN ZeroKey
    BY DEF IInv, IsKey
  <2> QED
    BY <2>1 DEF With, ZeroKey
<1>4. /\ Now("material") \in Materials /\ Now("alg") # "unknown" /\ Now("url") # Malformed
      /\ Now("chain") \in Seq(DOMAIN Cert) /\ Now("material") = key.material
  BY <1>1, KeyAssumption DEF IInv, IsKey
<1> HIDE DEF Now
<1>5. IsKey(key') /\ key'.material = key.material
  BY <1>3, <1>4 DEF IsKey
<1> QED
  BY <1>2, <1>5 DEF IInv

LEMMA StepIInv == IInv /\ [Next]_vars => IInv'
<1> SUFFICES ASSUME IInv, [Next]_vars PROVE IInv'
  OBVIOUS
<1>1. CASE UNCHANGED vars
  BY <1>1 DEF vars, IInv
<1>2. ASSUME NEW material \in Materials, New(material) PROVE IInv'
  BY <1>2, ZeroIsKey DEF New, IInv
<1>3. ASSUME NEW setting \in Settings, With(setting) PROVE IInv'
  BY <1>3, WithKeeps
<1>4. ASSUME NEW d \in Received \union {written}, Read(d) PROVE IInv'
  <2>1. d.x5c \in Seq(DOMAIN Cert \union {Malformed})
    <3>1. CASE d \in Received
      BY <3>1, KeyAssumption
    <3>2. CASE d = written /\ written # NoDocument
      <4>1. d.x5c = key.chain /\ key.chain \in Seq(DOMAIN Cert)
        BY <3>2 DEF IInv, IsKey, WriteKey
      <4> QED
        BY <4>1
    <3> QED
      BY <1>4, <3>1, <3>2 DEF Read
  <2> DEFINE r == ReadKey(key, d)
  <2>2. IsKey(r.key) /\ (r.ok => Certified(r.key) /\ OfDocument(r.key, d))
    BY <2>1, ReadOK DEF IInv
  <2>3. /\ key' = r.key /\ published' = FALSE /\ written' = NoDocument
        /\ read' = IF r.ok THEN d ELSE NoDocument
    BY <1>4 DEF Read
  <2> HIDE DEF r
  <2> QED
    BY <2>2, <2>3 DEF IInv
<1>5. CASE TakePublic
  BY <1>5, PublicOK DEF TakePublic, IInv
<1>6. CASE MarshalJSON
  BY <1>6 DEF MarshalJSON, IInv
<1> QED
  BY <1>1, <1>2, <1>3, <1>4, <1>5, <1>6 DEF Next

\* The strengthening that every step keeps.
THEOREM Invariant == Spec => []IInv
  BY InitIInv, StepIInv, PTL DEF Spec

\* No document of a public half has a private or a symmetric member.
THEOREM PublicIsPublic == Spec => []NothingSecret
<1>1. IInv => NothingSecret
  <2> SUFFICES ASSUME IInv, published, written # NoDocument
               PROVE  /\ written.private = Absent /\ written.primes = Absent
                      /\ written.members["k"] = Absent
    BY DEF NothingSecret
  <2> DEFINE pair == key.material.pair
  <2>1. /\ written = WriteKey(key) /\ pair \in Pairs /\ key.material.half = "public"
        /\ key.material \in Materials
    BY DEF IInv, IsKey, MayWrite, Holds
  <2>2. Public[pair].kty # "oct" /\ DOMAIN Public[pair].members = Required(Public[pair].kty)
    BY <2>1, Halves, KeyAssumption DEF Holds, KeyType
  <2>3. "k" \notin DOMAIN Public[pair].members
    <3>1. Public[pair].kty \in {"EC", "RSA", "OKP", "AKP"}
      BY <2>1, <2>2, KeyAssumption
    <3>2. \A kty \in {"EC", "RSA", "OKP", "AKP"} : "k" \notin Required(kty)
      BY DEF Required
    <3> QED
      BY <2>2, <3>1, <3>2
  <2>4. written.private = Absent /\ written.primes = Absent
    BY <2>1 DEF WriteKey
  <2>5. written.members["k"] = Absent
    BY <2>1, <2>3 DEF WriteKey, MemberNames
  <2> QED
    BY <2>4, <2>5
<1> QED
  BY <1>1, Invariant, PTL

\* A key that was accepted is that of its document, and the certificates of a key
\* that was accepted or written carry that key.
THEOREM KeyIsCertified == Spec => []CertifiedKey
<1>1. IInv => CertifiedKey
  <2> SUFFICES ASSUME IInv, read # NoDocument \/ written # NoDocument, key.chain # <<>>, Holds(key.material)
               PROVE  /\ LeafIs(key, key.material.pair)
                      /\ \A i \in 2..Len(key.chain) :
                           Cert[key.chain[i]].carries = Cert[key.chain[i - 1]].signer
                      /\ \A c \in ToSet(key.chain) \intersect {key.x5t, key.x5t256} :
                           LeafIs(key, Cert[c].carries)
                      /\ key.use = "sig" => Cert[key.chain[1]].uses # {"enc"}
                      /\ key.use = "enc" => Cert[key.chain[1]].uses # {"sig"}
    BY DEF CertifiedKey, IInv
  <2>1. Certified(key)
    BY DEF IInv, MayWrite
  <2>2. key.material.pair # NoMaterial
    BY KeyAssumption DEF Holds
  <2>3. /\ Cert[key.chain[1]].carries = key.material.pair
        /\ UseFits(key) /\ InOrder(key.chain) /\ NamedCarry(key)
    BY <2>1, <2>2 DEF Certified
  <2>4. \A c \in ToSet(key.chain) \intersect {key.x5t, key.x5t256} :
          Cert[c].carries = key.material.pair
    BY <2>3 DEF NamedCarry, ToSet
  <2>5. \A i \in 2..Len(key.chain) : Cert[key.chain[i]].carries = Cert[key.chain[i - 1]].signer
    BY <2>3 DEF InOrder
  <2>6. /\ key.use = "sig" => Cert[key.chain[1]].uses # {"enc"}
        /\ key.use = "enc" => Cert[key.chain[1]].uses # {"sig"}
    BY <2>3 DEF UseFits
  <2> QED
    BY <2>3, <2>4, <2>5, <2>6 DEF LeafIs
<1> QED
  BY <1>1, Invariant, PTL

(* Writing and reading again *)

\* Pairs with the public members of one pair are that pair.
LEMMA PairIs ==
  ASSUME NEW pair \in Pairs, NEW d,
         d.members = [name \in MemberNames |->
                        IF name \in DOMAIN Public[pair].members THEN Public[pair].members[name]
                        ELSE Absent]
  PROVE  /\ pair \in PairsOf(Public[pair].kty, d)
         /\ \A p \in PairsOf(Public[pair].kty, d) :
              Public[p].members["alg"] = Public[pair].members["alg"] \/ Public[pair].kty # "AKP"
                => p = pair
<1> DEFINE kty == Public[pair].kty
           names == Required(kty) \ {"alg"}
<1>1. \A p \in Pairs : /\ Public[p] = [kty |-> Public[p].kty, members |-> Public[p].members]
                       /\ Public[p].members = [name \in Required(Public[p].kty) |->
                                                 Public[p].members[name]]
  BY KeyAssumption
<1>2. kty \in {"EC", "RSA", "OKP", "AKP", "oct"}
  BY KeyAssumption
<1>3. names \subseteq MemberNames /\ (kty # "AKP" => names = Required(kty))
  BY <1>2 DEF Required, MemberNames
<1>4. \A name \in names : d.members[name] = Public[pair].members[name]
  BY <1>1, <1>3
<1>5. pair \in PairsOf(kty, d)
  BY <1>1, <1>4 DEF PairsOf
<1>6. ASSUME NEW p \in PairsOf(kty, d),
             Public[p].members["alg"] = Public[pair].members["alg"] \/ kty # "AKP"
      PROVE  p = pair
  <2>1. p \in Pairs /\ Public[p].kty = kty
    BY <1>6 DEF PairsOf
  <2>2. DOMAIN Public[p].members = Required(kty)
    BY <1>1, <2>1
  <2>3. \A name \in names : Public[p].members[name] = Public[pair].members[name]
    BY <1>4, <1>6, <2>2 DEF PairsOf
  <2>4. \A name \in Required(kty) : Public[p].members[name] = Public[pair].members[name]
    BY <1>3, <1>6, <2>3
  <2>5. Public[p].members = Public[pair].members
    <3>1. /\ Public[p].members = [name \in Required(kty) |-> Public[p].members[name]]
          /\ Public[pair].members = [name \in Required(kty) |-> Public[pair].members[name]]
      BY <1>1, <2>1
    <3> QED
      BY <2>4, <3>1
  <2>6. Public[p] = Public[pair]
    BY <1>1, <2>1, <2>5
  <2> QED
    BY <2>1, <2>6, KeyAssumption
<1> QED
  BY <1>5, <1>6

\* A document that is written of a pair gives the material that it was written of.
LEMMA MaterialBack ==
  ASSUME NEW k, IsKey(k), MayWrite(k), k.kty = KeyType(k.material), NEW old
  PROVE  LET d == WriteKey(k) IN MaterialsOf(d, d.alg, old) = {k.material}
<1> DEFINE d == WriteKey(k)
           m == k.material
           pair == m.pair
           kty == Public[pair].kty
           private == IF m.half = "private" THEN pair ELSE Absent
<1>1. /\ m \in Materials /\ pair \in Pairs /\ m.half # "multi" /\ k.kty = kty
      /\ m = Material(pair, m.half) /\ pair # Absent
  BY Halves, KeyAssumption DEF IsKey, MayWrite, Holds, KeyType
<1>2. kty \in {"EC", "RSA", "OKP", "AKP", "oct"}
  BY <1>1, KeyAssumption
<1>3. /\ kty = "oct" => m.half = "secret"
      /\ kty # "oct" => m.half \in {"public", "private"}
  BY <1>1, KeyAssumption DEF Materials, Material, Holds, KeyType
<1>4. /\ d.kty = kty /\ d.private = private /\ d.more = FALSE
      /\ d.primes = IF kty = "RSA" THEN private ELSE Absent
      /\ d.members = [name \in MemberNames |->
                        IF name \in DOMAIN Public[pair].members THEN Public[pair].members[name]
                        ELSE Absent]
      /\ kty = "AKP" => d.alg = Public[pair].members["alg"]
  BY <1>1 DEF WriteKey
<1> HIDE DEF d
<1>5. /\ pair \in PairsOf(kty, d)
      /\ \A p \in PairsOf(kty, d) :
           Public[p].members["alg"] = Public[pair].members["alg"] \/ kty # "AKP" => p = pair
  BY <1>1, <1>4, PairIs
<1>6. ASSUME kty \in {"EC", "OKP", "AKP"} PROVE Joined({pair}, d) = {m}
  <2>1. {q \in {pair} : d.private \in {Absent, q}} = {pair}
    BY <1>1, <1>4
  <2>2. Joined({pair}, d) = {Material(pair, IF d.private = Absent THEN "public" ELSE "private")}
    BY <2>1 DEF Joined
  <2>3. m.half = IF d.private = Absent THEN "public" ELSE "private"
    BY <1>1, <1>3, <1>4, <1>6
  <2> QED
    BY <1>1, <2>2, <2>3
<1>7. kty # "AKP" => PairsOf(kty, d) = {pair}
  BY <1>5
<1> DEFINE back == MaterialsOf(d, d.alg, old)
<1> HIDE DEF m, private, kty
<1>8. kty = "EC" => back = {m}
  BY <1>4, <1>6, <1>7 DEF MaterialsOf, parseElipticCurve
<1>9. kty = "OKP" => back = {m}
  BY <1>4, <1>6, <1>7 DEF MaterialsOf, parseOctetKeyPair
<1>10. kty = "AKP" => back = {m}
  <2> SUFFICES ASSUME kty = "AKP" PROVE back = {m}
    OBVIOUS
  <2>1. d.alg # Absent
    BY <1>1, <1>4, KeyAssumption DEF kty
  <2>2. {p \in PairsOf("AKP", d) : Public[p].members["alg"] = d.alg} = {pair}
    BY <1>4, <1>5
  <2>3. parseAKP(d, d.alg) = {m}
    BY <1>6, <2>1, <2>2 DEF parseAKP
  <2> QED
    BY <1>4, <2>3 DEF MaterialsOf
<1>11. kty = "oct" => back = {m}
  <2> SUFFICES ASSUME kty = "oct" PROVE back = {m}
    OBVIOUS
  <2>1. parseOctetSequence(d) = {Material(pair, "secret")}
    BY <1>7 DEF parseOctetSequence
  <2> QED
    BY <1>1, <1>3, <1>4, <2>1 DEF MaterialsOf
<1>12. kty = "RSA" => back = {m}
  <2> SUFFICES ASSUME kty = "RSA" PROVE back = {m}
    OBVIOUS
  <2>1. PairsOf("RSA", d) = {pair} /\ d.primes = private /\ d.private = private /\ ~d.more
    BY <1>4, <1>7
  <2>2. private = IF m.half = "private" THEN pair ELSE Absent
    BY DEF private
  <2>3. parseRSA(d) = {Material(pair, m.half)}
    <3>1. CASE m.half = "public"
      BY <2>1, <2>2, <3>1 DEF parseRSA
    <3>2. CASE m.half = "private"
      BY <1>1, <2>1, <2>2, <3>2 DEF parseRSA
    <3> QED
      BY <1>3, <3>1, <3>2
  <2> QED
    BY <1>1, <1>4, <2>3 DEF MaterialsOf
<1>13. back = {m}
  BY <1>2, <1>8, <1>9, <1>10, <1>11, <1>12
<1> QED
  BY <1>13 DEF d, m

\* Who reads into an empty Key what was written of one gets its members.
LEMMA ReadBack ==
  ASSUME NEW k, IsKey(k), MayWrite(k), k.kty = KeyType(k.material)
  PROVE  LET d == WriteKey(k)
             r == Fresh(d)
         IN r.ok /\ r.key = [k EXCEPT !.alg = d.alg]
<1> DEFINE d == WriteKey(k)
           a == [ZeroKey EXCEPT !.kty = d.kty, !.use = d.use, !.ops = d.ops]
           b == [a EXCEPT !.alg = Or(d.alg, @), !.kid = d.kid]
           c == [b EXCEPT !.url = Or(d.url, @), !.chain = @ \o Sound(d.x5c)]
           e == [c EXCEPT !.x5t = d.x5t, !.x5t256 = d.x5t256]
           materials == MaterialsOf(d, e.alg, e.material)
           f == [e EXCEPT !.material = CHOOSE m \in materials : TRUE]
           g == [k EXCEPT !.alg = d.alg]
<1>1. Fresh(d) = IF d.kty = Malformed THEN Outcome(ZeroKey, FALSE)
          ELSE IF ~OperationsAgree(d.use, d.ops) \/ d.alg = "unknown" THEN Outcome(a, FALSE)
          ELSE IF d.url = Malformed THEN Outcome(b, FALSE)
          ELSE IF Malformed \in ToSet(d.x5c) THEN Outcome(c, FALSE)
          ELSE IF materials = {} THEN Outcome(e, FALSE)
          ELSE Outcome(f, Certified(f))
  BY DEF ReadKey, Fresh
<1>2. /\ k.material.pair \in Pairs /\ OperationsAgree(k.use, k.ops) /\ Certified(k)
      /\ k.alg # "unknown" /\ k.url # Malformed /\ k.chain \in Seq(DOMAIN Cert)
      /\ k = [name \in DOMAIN ZeroKey |-> k[name]]
      /\ k.kty = Public[k.material.pair].kty
  BY DEF MayWrite, Holds, IsKey, KeyType
<1>3. /\ d.kty = k.kty /\ d.use = k.use /\ d.ops = k.ops /\ d.kid = k.kid /\ d.url = k.url
      /\ d.x5c = k.chain /\ d.x5t = k.x5t /\ d.x5t256 = k.x5t256
      /\ d.alg = k.alg \/ (k.kty = "AKP" /\ d.alg = Public[k.material.pair].members["alg"])
  BY <1>2 DEF WriteKey
<1>4. d.kty # Malformed /\ d.alg # "unknown" /\ d.url # Malformed
  BY <1>2, <1>3, KeyAssumption
<1>5. Malformed \notin ToSet(d.x5c)
  BY <1>2, <1>3, KeyAssumption DEF ToSet
<1>6. <<>> \o Sound(d.x5c) = k.chain
  <2>1. d.x5c \in Seq(DOMAIN Cert \union {Malformed})
    BY <1>2, <1>3
  <2>2. Sound(d.x5c) = k.chain
    BY <1>2, <1>3, <2>1, SoundChain
  <2> QED
    BY <1>2, <2>2
<1>7. materials = {k.material} => Fresh(d) = Outcome(f, Certified(f))
  <2>1. OperationsAgree(d.use, d.ops)
    BY <1>2, <1>3
  <2> HIDE DEF a, b, c, d, e, f, materials
  <2> QED
    BY <1>1, <1>4, <1>5, <2>1
<1>8. e = [ZeroKey EXCEPT !.kty = k.kty, !.use = k.use, !.ops = k.ops, !.alg = d.alg,
                          !.kid = k.kid, !.url = k.url, !.chain = k.chain, !.x5t = k.x5t,
                          !.x5t256 = k.x5t256]
  <2> DEFINE chain == <<>> \o Sound(d.x5c)
  <2>1. \A value : Or(value, Absent) = value
    BY DEF Or
  <2>2. chain = k.chain
    BY <1>6
  <2> HIDE DEF d, chain
  <2> QED
    BY <1>3, <2>1, <2>2 DEF ZeroKey, chain
<1> HIDE DEF a, b, c, e
<1>9. e.alg = d.alg
  BY <1>8 DEF ZeroKey
<1>10. materials = {k.material}
  BY <1>9, MaterialBack
<1> HIDE DEF materials
<1>11. f = g
  BY <1>2, <1>8, <1>10 DEF ZeroKey
<1> HIDE DEF f
<1>12. Certified(g)
  <2>1. /\ g.chain = k.chain /\ g.use = k.use /\ g.x5t = k.x5t /\ g.x5t256 = k.x5t256
        /\ g.material = k.material
    BY <1>2 DEF ZeroKey
  <2> HIDE DEF g
  <2> QED
    BY <1>2, <2>1 DEF Certified, UseFits, NamedCarry
<1> HIDE DEF g
<1>13. Fresh(d).ok /\ Fresh(d).key = g
  BY <1>7, <1>10, <1>11, <1>12 DEF Outcome
<1> QED
  BY <1>13 DEF d, g

\* What is written of a key is accepted by a reader, who gets that key (jwk/key.go,
\* MarshalJSON and UnmarshalJSON).
THEOREM WrittenIsRead == Spec => []RoundTrip
<1>1. IInv => RoundTrip
  <2> SUFFICES ASSUME IInv, written # NoDocument, key.kty = KeyType(key.material)
               PROVE  LET r == Fresh(written)
                      IN r.ok /\ r.key = [key EXCEPT !.alg = r.key.alg]
                              /\ (key.alg # Absent => r.key.alg = key.alg)
    BY DEF RoundTrip
  <2> DEFINE d == WriteKey(key)
             r == Fresh(written)
  <2>1. written = d /\ IsKey(key) /\ MayWrite(key)
    BY DEF IInv
  <2>2. r.ok /\ r.key = [key EXCEPT !.alg = d.alg]
    BY <2>1, ReadBack
  <2>3. key.alg # Absent => d.alg = key.alg
    BY <2>1 DEF WriteKey, MayWrite, KeyType
  <2>4. "alg" \in DOMAIN key
    BY <2>1 DEF IsKey, ZeroKey
  <2> HIDE DEF d, r
  <2>5. r.key.alg = d.alg
    BY <2>2, <2>4
  <2> QED
    BY <2>2, <2>3, <2>5 DEF r
<1> QED
  BY <1>1, Invariant, PTL

\* Two keys that this package holds have one thumbprint when they are halves of
\* one pair, and only then.
LEMMA OneThumbprint ==
  ASSUME NEW m \in Materials, NEW n \in Materials, Holds(m), Holds(n)
  PROVE  ThumbprintMembers(m) = ThumbprintMembers(n) <=> m.pair = n.pair
<1> DEFINE p == Public[m.pair]
           q == Public[n.pair]
           M == ThumbprintMembers(m)
           N == ThumbprintMembers(n)
<1>1. m.pair \in Pairs /\ n.pair \in Pairs /\ KeyType(m) = p.kty /\ KeyType(n) = q.kty
  BY DEF Holds, KeyType
<1>2. "kty" \notin Required(p.kty) /\ "kty" \notin Required(q.kty)
  BY <1>1, KeyAssumption DEF Required
<1>3. /\ DOMAIN M = {"kty"} \union Required(p.kty) /\ DOMAIN N = {"kty"} \union Required(q.kty)
      /\ M["kty"] = p.kty /\ N["kty"] = q.kty
      /\ \A name \in Required(p.kty) : M[name] = p.members[name]
      /\ \A name \in Required(q.kty) : N[name] = q.members[name]
  BY <1>1, <1>2 DEF ThumbprintMembers
<1>4. ASSUME M = N PROVE m.pair = n.pair
  <2>1. p.kty = q.kty /\ \A name \in Required(p.kty) : p.members[name] = q.members[name]
    BY <1>3, <1>4
  <2>2. /\ p = [kty |-> p.kty, members |-> p.members]
        /\ q = [kty |-> q.kty, members |-> q.members]
        /\ p.members = [name \in Required(p.kty) |-> p.members[name]]
        /\ q.members = [name \in Required(q.kty) |-> q.members[name]]
    BY <1>1, KeyAssumption
  <2>3. p.members = q.members
    BY <2>1, <2>2
  <2>4. p = q
    BY <2>1, <2>2, <2>3
  <2> QED
    BY <1>1, <2>4, KeyAssumption
<1>5. ASSUME m.pair = n.pair PROVE M = N
  BY <1>1, <1>5 DEF ThumbprintMembers
<1> QED
  BY <1>4, <1>5

\* A thumbprint names one key, both halves of it, and its URI gives it back with
\* the hash that made it and with no other.
THEOREM Thumbprints == Spec => []SameThumbprint
<1>1. IInv => SameThumbprint
  <2> SUFFICES ASSUME IInv, Holds(key.material) PROVE
        /\ \A m \in {n \in Materials : Holds(n)} :
             ThumbprintMembers(m) = ThumbprintMembers(key.material) <=> m.pair = key.material.pair
        /\ \A name \in Registered, hash \in Hashes :
             LET digest == Thumbprint(key.material, hash)
             IN ParseThumbprintURI([name |-> name, digest |-> digest]) =
                  IF name = hash THEN {hash} ELSE {}
    BY DEF SameThumbprint
  <2>1. \A m \in {n \in Materials : Holds(n)} :
          ThumbprintMembers(m) = ThumbprintMembers(key.material) <=> m.pair = key.material.pair
    BY OneThumbprint DEF IInv, IsKey
  <2>2. ASSUME NEW name \in Registered, NEW hash \in Hashes
        PROVE  LET digest == Thumbprint(key.material, hash)
               IN ParseThumbprintURI([name |-> name, digest |-> digest]) =
                    IF name = hash THEN {hash} ELSE {}
    <3> DEFINE uri == [name |-> name, digest |-> Thumbprint(key.material, hash)]
    <3>1. uri.name = name /\ uri.digest.hash = hash
      BY DEF Thumbprint
    <3>2. \A h \in Registered : Size(hash) = Size(h) <=> h = hash
      BY DEF Size, Registered, Hashes
    <3>3. ParseThumbprintURI(uri) = {h \in Registered : name = h /\ Size(hash) = Size(h)}
      BY <3>1 DEF ParseThumbprintURI
    <3> HIDE DEF uri
    <3>4. ParseThumbprintURI(uri) = {h \in Registered : name = h /\ h = hash}
      BY <3>2, <3>3
    <3>5. ParseThumbprintURI(uri) = IF name = hash THEN {hash} ELSE {}
      BY <3>4
    <3> QED
      BY <3>5 DEF uri
  <2> QED
    BY <2>1, <2>2
<1> QED
  BY <1>1, Invariant, PTL
=============================================================================
