---------------------------- MODULE KeySelection ----------------------------
(***************************************************************************)
(* How a recipient selects keys from a JWK Set (jwk/key.go): what it drops *)
(* when it reads a published set, which keys are suitable for a function,  *)
(* which one KeySet.Key gives and in which order KeySet.Candidates tries   *)
(* them: functions of the set and the request, which KeyPublication checks *)
(* on every small set and Verification selects keys with.                  *)
(***************************************************************************)
EXTENDS Integers, FiniteSets, SequencesExt

\* A member that a JWK does not have, or a header parameter a token does not.
Absent == "absent"

\* A JWK has "use", "ops" (key_ops), "alg" and "kid".  As its publisher wrote it,
\* it also has "kty": one that this package reads, one that it does not, or one
\* whose members are malformed; and "half", the half of the pair it holds.

\* operationUse; Absent for an operation that it does not define.
ImpliedUse(op) ==
  CASE op \in {"sign", "verify"} -> "sig"
    [] op \in {"encrypt", "decrypt", "wrapKey", "unwrapKey", "deriveKey", "deriveBits"} -> "enc"
    [] OTHER -> Absent

\* checkOperations: no duplicate, and nothing that contradicts "use".
OperationsAgree(use, ops) ==
  /\ \A i, j \in DOMAIN ops : ops[i] = ops[j] => i = j
  /\ use \in {"sig", "enc"} => \A i \in DOMAIN ops : ImpliedUse(ops[i]) \in {use, Absent}

\* Key.UnmarshalJSON gives no error and a key with material.
Readable(raw) ==
  /\ OperationsAgree(raw.use, raw.ops)
  /\ raw.alg # "unknown"
  /\ raw.kty = "supported"

\* What s has at these positions, in the order of s.
At(s, positions) ==
  LET kept == CHOOSE f \in SetToSeqs(positions) : IsSorted(f, <)
  IN [p \in DOMAIN kept |-> s[kept[p]]]

\* KeySet.UnmarshalJSON: the keys it cannot use go, the others keep their
\* order.
ReadSet(raws) == At(raws, {i \in DOMAIN raws : Readable(raws[i])})

\* Key.Public: a secret has no public half; the other parameters stay.
PublicHalf_Verify(key) == [key EXCEPT !.half = "public", !.ops = <<>>]
PublicHalf(key) == [key EXCEPT !.half = "public"]

\* KeySet.Public.
PublicSet(keys) ==
  LET pub == At(keys, {i \in DOMAIN keys : keys[i].half # "secret"})
  IN [i \in DOMAIN pub |-> PublicHalf(pub[i])]

\* Key.suitable: a parameter that both sides have must agree.
Suitable_IgnoresUse(key, req) ==
  /\ req.op \in ToSet(key.ops) \/ key.ops = <<>>
  /\ key.alg = Absent \/ req.alg = Absent \/ key.alg = req.alg
  /\ key.kid = Absent \/ req.kid = Absent \/ key.kid = req.kid

Suitable(key, req) ==
  /\ key.use # Absent => key.use = req.use
  /\ key.ops # <<>> => req.op \in ToSet(key.ops)
  /\ (key.alg # Absent /\ req.alg # Absent) => key.alg = req.alg
  /\ (key.kid # Absent /\ req.kid # Absent) => key.kid = req.kid

\* Key.weight, for the one operation that each caller in this module asks for.
Points(holds, points) == IF holds THEN points ELSE 0

Weight_Kid(key, req) ==
  Points(key.use = req.use, 16) + Points(req.op \in ToSet(key.ops), 8)
  + Points(key.alg # Absent /\ key.alg = req.alg, 64)
  + Points(key.kid # Absent /\ key.kid = req.kid, 32)

Weight(key, req) ==
  Points(key.use = req.use, 16) + Points(req.op \in ToSet(key.ops), 8)
  + Points(key.alg # Absent /\ key.alg = req.alg, 64)
  + Points(key.kid # Absent /\ key.kid = req.kid, 128)

SuitableIn(keys, req) == {i \in DOMAIN keys : Suitable(keys[i], req)}

\* KeySet.Key: the loop over the set; 0 is "no key yet" and ErrNoSuitableKey.
Better_Later(keys, req, best, i) ==
  best = 0 \/ Weight(keys[i], req) >= Weight(keys[best], req)

Better(keys, req, best, i) ==
  best = 0 \/ Weight(keys[i], req) > Weight(keys[best], req)

BestKey(keys, req) ==
  FoldLeft(LAMBDA best, i : IF Suitable(keys[i], req) /\ Better(keys, req, best, i)
                            THEN i ELSE best,
           0, [i \in DOMAIN keys |-> i])

\* slices.SortStableFunc on the weights: i comes before j.
Precedes(keys, req, i, j) ==
  LET w(k) == Weight(keys[k], req) IN w(i) > w(j) \/ (w(i) = w(j) /\ i < j)

\* KeySet.Candidates, as positions in the set.
Candidates_Best(keys, req) ==
  IF BestKey(keys, req) = 0 THEN <<>> ELSE <<BestKey(keys, req)>>

Candidates(keys, req) ==
  CHOOSE f \in SetToSeqs(SuitableIn(keys, req)) :
    IsSorted(f, LAMBDA i, j : Precedes(keys, req, i, j))
=============================================================================
