--------------------------- MODULE KeyPublication ---------------------------
(***************************************************************************)
(* An issuer publishes a JWK Set key by key, and recipients read it and    *)
(* ask for keys of it with the operators of KeySelection.                  *)
(***************************************************************************)
EXTENDS KeySelection

CONSTANTS
  JWKs,         (* the keys that an issuer may publish                     *)
  Requests,     (* what verification and decryption ask of a set           *)
  MaxKeys       (* bound: the keys of a set                                *)

\* Each JWK has the parameters of KeySelection, and a caller asks for the use of
\* its operation, as verifySignature and decryption do.
ASSUME KeyPublicationAssumption ==
  /\ \A raw \in JWKs :
       raw = [use |-> raw.use, ops |-> raw.ops, alg |-> raw.alg, kid |-> raw.kid,
              kty |-> raw.kty, half |-> raw.half]
  /\ \A req \in Requests : req.use = ImpliedUse(req.op)

VARIABLES
  published,    (* the JWK Set document of the issuer, as it grows         *)
  asked,        (* the request of the recipient, if it made one: a set     *)
  found         (* what Candidates and Key gave to it                      *)

vars == <<published, asked, found>>

Nothing == [candidates |-> <<>>, best |-> 0]

Init ==
  /\ published = <<>>
  /\ asked = {}
  /\ found = Nothing

Publish(raw) ==
  /\ Len(published) < MaxKeys
  /\ published' = Append(published, raw)
  /\ asked' = {}
  /\ found' = Nothing

\* A recipient reads the document and asks.
Ask(req) ==
  LET keys == ReadSet(published) IN
  /\ asked' = {req}
  /\ found' = [candidates |-> Candidates(keys, req), best |-> BestKey(keys, req)]
  /\ UNCHANGED published

Next == (\E raw \in JWKs : Publish(raw)) \/ (\E req \in Requests : Ask(req))

Spec == Init /\ [][Next]_vars

-----------------------------------------------------------------------------
(* Properties *)

Held == ReadSet(published)

\* The two ways to select agree: the loop of Key, with no sort, gives the key
\* that the stable sort of Candidates puts first, and none when it has none.
KeyIsFirstCandidate ==
  found.best = IF found.candidates = <<>> THEN 0 ELSE Head(found.candidates)

\* "A verifier must thus try each key" (the comment of Candidates): no key of
\* the document that could have made the signature is left out, each comes
\* once, and keys of equal rank keep the sequence of the issuer.
EveryUsableKeyOnce ==
  \A req \in asked :
    LET rank(p) == Weight(Held[found.candidates[p]], req) IN
    /\ Len(found.candidates) = Cardinality(SuitableIn(Held, req))
    /\ ToSet(found.candidates) = SuitableIn(Held, req)
    /\ \A p, q \in DOMAIN found.candidates :
         p < q => \/ rank(p) > rank(q)
                  \/ rank(p) = rank(q) /\ found.candidates[p] < found.candidates[q]

\* A key that carries the "kid" of the token is tried before each key that
\* does not, whatever else those match: no sum of other points reaches it.
Names(key, req) == req.kid # Absent /\ key.kid = req.kid

KidFirst ==
  \A req \in asked : \A p, q \in DOMAIN found.candidates :
    (Names(Held[found.candidates[q]], req) /\ ~Names(Held[found.candidates[p]], req))
      => q < p

\* "a caller does not use a key for a function that its publisher rejected"
\* (the comment of Key), said with "use" or with "key_ops" alone.
PurposeKept ==
  \A req \in asked : \A p \in DOMAIN found.candidates :
    LET key == Held[found.candidates[p]] IN
    /\ key.use \in {Absent, req.use}
    /\ key.ops # <<>> => req.use \in {ImpliedUse(key.ops[i]) : i \in DOMAIN key.ops}

\* A set published with KeySet.Public selects the keys that the set of the
\* issuer selects, in the same order, less the secrets.
PublishingKeepsSelection ==
  \A req \in asked :
    LET Chosen(keys) == [p \in DOMAIN Candidates(keys, req) |->
                           keys[Candidates(keys, req)[p]]]
    IN Chosen(PublicSet(Held)) = PublicSet(Chosen(Held))
=============================================================================
