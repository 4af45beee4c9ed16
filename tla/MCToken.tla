------------------------------ MODULE MCToken ------------------------------
(***************************************************************************)
(* An empty claims set and three that confirm a public key, a secret and   *)
(* two keys; an issuer that the recipient trusts and one that it does not; *)
(* a rule that rejects two of the claims sets, the rule of a confirmation, *)
(* and the documents that other parties send: sound ones, one with an      *)
(* altered payload, one with two signatures, and JWEs with and without a   *)
(* token inside.                                                           *)
(***************************************************************************)
EXTENDS Token

CONSTANTS alice, mallory, none, a, b, c, Confirmed, Asymmetric

MCClaims == {none, a, b, c}

\* "cnf" has a public key in a, a symmetric key in b and two keys in c.
Keys(jwk, jwe) == [jwk |-> jwk, jwe |-> jwe, jku |-> Absent]
MCCnf ==
  none :> Keys(Absent, Absent) @@ a :> Keys(Asymmetric, Absent)
  @@ b :> Keys(Symmetric, Absent) @@ c :> Keys(Symmetric, Asymmetric)
MCPresented == {a, b, c}
MCRules == {{a, none}, Confirmed}

By(signer, over) == [Sign(signer, over) EXCEPT !.here = FALSE]

MCReceived ==
  { JWS(a, <<By(alice, a)>>),
    JWS(b, <<By(alice, a)>>),
    JWS(b, <<By(mallory, b), By(alice, b)>>),
    JWE(TRUE, a, <<By(alice, a)>>),
    JWE(TRUE, b, <<By(mallory, b)>>),
    JWE(FALSE, b, <<>>),
    JWE(FALSE, NoText, <<>>) }
=============================================================================
