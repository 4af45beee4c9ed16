---------------------------- MODULE MCSignature ----------------------------
(***************************************************************************)
(* The headers that an issuer makes and that others send: one of each      *)
(* defect that stops a reader at a step, each case of "crit" and "b64",    *)
(* empty and unregistered members, and each parameter that is forbidden in *)
(* one of the two headers.                                                 *)
(***************************************************************************)
EXTENDS Signature

CONSTANTS a1, t1, k1, k2

Only(given) ==
  [name \in Members |-> IF name \in DOMAIN given THEN given[name] ELSE Absent]
Plain == [Only([alg |-> a1]) EXCEPT !["typ"] = t1]
With(name, value) == [Plain EXCEPT ![name] = value]
Crit(crit, b64) == [Plain EXCEPT !["crit"] = crit, !["b64"] = b64]

Texts ==
  { Plain, Only([kid |-> k1]), With("kid", k1), With("kid", Empty), With("other", k1),
    With("alg", "unknown"), With("jku", "url"), With("jku", "malformed"),
    [With("x5u", "url") EXCEPT !["kid"] = k1],
    [With("jwk", "opaque") EXCEPT !["kid"] = k1], With("epk", "private"),
    With("enc", "a128gcm"), With("enc", "wrapper"),
    [With("apu", "octets") EXCEPT !["tag"] = "malformed"],
    Crit(<<"b64">>, TRUE), Crit(<<"b64">>, Absent), Crit(<<"b64">>, Empty), Crit(Absent, TRUE),
    Crit(<<"b64">>, FALSE), Crit(<<"b64", "b64">>, TRUE), Crit(<<"exp">>, Absent),
    Crit(Empty, Absent), Broken }

Unprotected ==
  { Only(<<>>), Only([kid |-> k2]), Only([kid |-> Empty]), Only([other |-> k1]), Only([alg |-> a1]),
    Only([alg |-> "unknown"]), Only([crit |-> <<"b64">>, b64 |-> TRUE]), Only([b64 |-> TRUE]),
    Only([crit |-> <<"b64">>]), Only([crit |-> Empty]), Only([enc |-> "a128gcm"]), Only([jwk |-> "opaque"]),
    Only([kid |-> k2, jku |-> "malformed"]), Broken }

\* Each protected header alone, each unprotected one beside two of them, and
\* signature octets that do not decode.
MCReceived ==
  {Document("json", text, Nil, text) : text \in Texts}
  \union {Document("compact", text, Nil, text) :
            text \in {With("kid", k1), With("enc", "a128gcm"), Crit(<<"exp">>, Absent), Broken}}
  \union {Document("json", text, header, text) : header \in Unprotected,
            text \in {With("kid", k1), With("jwk", "opaque")}}
  \union {Document(form, With("kid", k1), Nil, Malformed) : form \in {"json", "compact"}}

MCSettings ==
  { [kid |-> k2, x5c |-> "other chain"], [kid |-> None, jwk |-> "opaque"],
    [crit |-> <<"b64">>, b64 |-> TRUE], [crit |-> <<"exp">>], [enc |-> "a128gcm"] }
=============================================================================
