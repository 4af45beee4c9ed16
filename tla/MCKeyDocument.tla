--------------------------- MODULE MCKeyDocument ---------------------------
(***************************************************************************)
(* Keys of each type, with pairs that differ in one member only; a chain   *)
(* of two certificates for one of them, certificates of another key, for   *)
(* another use and in another order; and documents with each defect.       *)
(***************************************************************************)
EXTENDS KeyDocument

CONSTANTS ecA, ecB, okpS, okpX, rsaA, rsaB, akp, oct,
          v1, v2, leaf, root, encLeaf, stranger

EC(y) == [kty |-> "EC", members |-> [crv |-> "P-256", x |-> v1, y |-> y]]
OKP(crv) == [kty |-> "OKP", members |-> [crv |-> crv, x |-> v1]]
RSA(e) == [kty |-> "RSA", members |-> [n |-> v1, e |-> e]]

MCPairs == {ecA, ecB, okpS, okpX, rsaA, rsaB, akp, oct}

MCPublic ==
  ecA :> EC(v1) @@ ecB :> EC(v2) @@ okpS :> OKP("Ed25519") @@ okpX :> OKP("X25519")
  @@ rsaA :> RSA(v1) @@ rsaB :> RSA(v2)
  @@ akp :> [kty |-> "AKP", members |-> [alg |-> "ML-DSA-44", pub |-> v1]]
  @@ oct :> [kty |-> "oct", members |-> [k |-> v1]]

Issued(carries, signer, uses) == [carries |-> carries, signer |-> signer, uses |-> uses]

MCCert ==
  leaf :> Issued(ecA, rsaA, {"sig"}) @@ root :> Issued(rsaA, rsaA, {})
  @@ encLeaf :> Issued(ecA, rsaA, {"enc"}) @@ stranger :> Issued(ecB, rsaA, {"sig", "enc"})

Doc(pair, half) ==
  LET d == WriteKey(NewKey(Material(pair, half))) IN d

EcA == Doc(ecA, "private")
RsaA == Doc(rsaA, "private")

Sounds ==
  {EcA, RsaA, Doc(ecB, "public"), Doc(akp, "private"), Doc(oct, "secret"),
   [Doc(okpS, "private") EXCEPT !.use = "sig", !.ops = <<"custom", "sign">>],
   [EcA EXCEPT !.x5c = <<leaf>>, !.use = "sig"],
   [EcA EXCEPT !.x5c = <<leaf, root>>, !.x5t256 = leaf, !.private = Absent]}

Defects ==
  {[EcA EXCEPT !.kty = "other"], [EcA EXCEPT !.kty = "RSA"],
   [EcA EXCEPT !.private = ecB], [EcA EXCEPT !.members["y"] = Absent],
   [RsaA EXCEPT !.primes = Absent], [RsaA EXCEPT !.more = TRUE], [RsaA EXCEPT !.primes = Malformed],
   [Doc(akp, "public") EXCEPT !.alg = Absent], [Doc(akp, "public") EXCEPT !.alg = "ML-DSA-65"],
   [EcA EXCEPT !.alg = "unknown"], [EcA EXCEPT !.url = Malformed],
   [EcA EXCEPT !.ops = <<"sign", "sign">>],
   [EcA EXCEPT !.x5c = <<leaf, Malformed>>], [EcA EXCEPT !.x5c = <<root, leaf>>],
   [EcA EXCEPT !.x5c = <<encLeaf>>, !.use = "sig"], [EcA EXCEPT !.x5c = <<leaf, stranger>>],
   [EcA EXCEPT !.x5c = <<leaf, root>>, !.x5t = root], [EcA EXCEPT !.x5t = Malformed],
   [Doc(oct, "secret") EXCEPT !.x5c = <<leaf>>]}

MCReceived == Sounds \union Defects

MCSettings ==
  {[use |-> "sig", chain |-> <<leaf, root>>], [use |-> "enc", ops |-> <<"sign">>],
   [alg |-> "ML-DSA-44", kid |-> "k1"], [chain |-> <<encLeaf>>, url |-> "url"],
   [x5t |-> leaf, x5t256 |-> stranger]}
=============================================================================
