-------------------------- MODULE MCKeyPublication --------------------------
(***************************************************************************)
(* The keys that an issuer of two algorithms and two key identifiers       *)
(* publishes, one of them with an operation that no registry defines, and  *)
(* the defects that a reader of the set must drop.                         *)
(***************************************************************************)
EXTENDS KeyPublication

JWK(use, ops, alg, kid) ==
  [use |-> use, ops |-> ops, alg |-> alg, kid |-> kid, kty |-> "supported", half |-> "private"]

Defective ==
  { [JWK("sig", <<>>, "a1", "k1") EXCEPT !.kty = "other"],
    [JWK("sig", <<>>, "a1", "k1") EXCEPT !.kty = "malformed"],
    JWK("sig", <<>>, "unknown", "k1"),
    JWK("sig", <<"verify", "decrypt">>, "a1", "k1"),
    JWK(Absent, <<"verify", "verify">>, "a1", "k1") }

Sound ==
  {JWK(use, <<>>, alg, kid) : use \in {"sig", Absent}, alg \in {"a1", Absent},
                              kid \in {"k1", "k2", Absent}}
  \union {JWK(use, ops, "a1", kid) : use \in {"sig", Absent},
            ops \in {<<"verify">>, <<"sign", "verify">>}, kid \in {"k1", Absent}}
  \union {JWK("sig", <<"custom", "verify">>, "a1", "k1"),
          JWK("enc", <<>>, Absent, "k1"), JWK("enc", <<"decrypt">>, "a2", Absent),
          JWK(Absent, <<"verify", "decrypt">>, Absent, Absent),
          [JWK(Absent, <<>>, "a1", "k1") EXCEPT !.half = "secret"],
          [JWK(Absent, <<>>, Absent, Absent) EXCEPT !.half = "secret"]}

MCJWKs == Sound \union Defective

MCRequests ==
  {[use |-> "sig", op |-> "verify", alg |-> alg, kid |-> kid] :
     alg \in {"a1", "a2"}, kid \in {"k1", "k2", Absent}}
  \union {[use |-> "enc", op |-> "decrypt", alg |-> "a2", kid |-> kid] : kid \in {"k1", Absent}}
=============================================================================
