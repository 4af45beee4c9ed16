----------------------------- MODULE MCMessage -----------------------------
(***************************************************************************)
(* Two symmetric keys and a key pair, two Per-Recipient Unprotected        *)
(* Headers, and what other parties send: a sound document, recipients with *)
(* an algorithm that this module does not have, without the parameters of  *)
(* their algorithm or with them in two headers, a protected header that    *)
(* somebody changed, one with no "enc", and compressed content.            *)
(***************************************************************************)
EXTENDS Message, TLC

CONSTANTS k1, k2, pair, h1, h2

MCFits == k1 :> {"dir", "kw", "gcm"} @@ k2 :> {"dir", "kw", "gcm"} @@ pair :> {"es", "eskw"}
MCNamed == h1 :> "gcm" @@ h2 :> None

Wrapped(key, iv) == Box(FreshCEK(<<9, 0>>), key, iv, Unset)
To(own, box) == [own |-> own, box |-> box, supported |-> TRUE]
Iv(n) == [NoParameters EXCEPT !["iv"] = <<9, n>>]

Sent(prot, recipients) ==
  [prot |-> prot, shared |-> NoHeader, recipients |-> recipients, aad |-> None,
   body |-> [plaintext |-> CHOOSE p \in Plaintexts : TRUE, cek |-> FreshCEK(<<9, 0>>),
             covers |-> Covered(prot, None)]]

Kw == To(Header("kw", NoParameters), Wrapped(k1, Unset))
Gcm == To(Header("gcm", Iv(2)), Wrapped(k2, <<9, 2>>))
Unknown == [To(Header("unknown", NoParameters), Wrapped(k1, Unset)) EXCEPT !.supported = FALSE]
Open1 == Protected(None, TRUE, "none")

MCReceived ==
  { Sent(Open1, <<Kw, Gcm>>),
    Sent(Open1, <<Unknown, Gcm>>),
    Sent(Open1, <<Unknown>>),
    Sent(Open1, <<To(Header("gcm", NoParameters), Wrapped(k2, <<9, 2>>)), Kw>>),
    Sent([Protected("gcm", TRUE, "none") EXCEPT !.parameters = Iv(1)],
         <<To(Header(None, Iv(2)), Wrapped(k2, <<9, 2>>))>>),
    Sent(Protected("es", TRUE, "none"), <<To(NoHeader, EmptyBox)>>),
    [Sent(Open1, <<Kw>>) EXCEPT !.prot.alg = "kw", !.recipients[1].own = NoHeader],
    Sent(Protected(None, FALSE, "none"), <<Kw>>),
    Sent(Protected(None, TRUE, "sound"), <<Kw>>),
    Sent(Protected(None, TRUE, "Oversized"), <<Kw, Gcm>>) }
=============================================================================
