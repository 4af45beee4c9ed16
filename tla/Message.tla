------------------------------ MODULE Message ------------------------------
(***************************************************************************)
(* The life of a jwe.Message (jwe/jwe.go, jwe/serialization.go): a caller  *)
(* names the algorithms, encrypts to one recipient or more, writes the     *)
(* message, reads it and decrypts it.  m is the Go struct; the header of a *)
(* recipient is a pointer that the caller keeps, thus m.heads is what the  *)
(* caller's header objects hold, whichever recipients point to them.       *)
(*                                                                         *)
(* The cryptography is ideal: an encrypted key opens with the key that     *)
(* made it and gives the Content Encryption Key in it, and content opens   *)
(* with that key and the octets of the protected header that were covered. *)
(***************************************************************************)
EXTENDS Integers, SequencesExt

CONSTANTS
  Keys,         (* the keys that the parties hold                          *)
  Fits,         (* the key management algorithms that each key is for      *)
  Heads,        (* the caller's Per-Recipient Unprotected Headers          *)
  Named,        (* the "alg" in each, or None                              *)
  None,         (* nil                                                     *)
  Plaintexts,
  Nil,          (* those that the content encryption decrypts to nil       *)
  Received,     (* documents that other parties send                       *)
  Careless,     (* what a caller does beside the uses that RoundTrip is    *)
                (* about: "again", it encrypts a message that was          *)
                (* encrypted or read; "object", it gives one header object *)
                (* to two recipients; "party", it writes "apu" into an     *)
                (* unprotected header; "empty", its "aad" is empty         *)
  MaxRecipients, (* bound: recipients of a message                         *)
  MaxEncryptions (* bound: calls of EncryptTo on a message                 *)

ASSUME MessageAssumption ==
  /\ DOMAIN Fits = Keys /\ DOMAIN Named = Heads
  /\ None \notin Heads \union Keys \union {"data", "empty"}
  /\ Nil \subseteq Plaintexts
  /\ Careless \subseteq {"again", "object", "party", "empty"}
  /\ MaxRecipients \in Nat /\ MaxEncryptions \in Nat

\* Direct encryption, key wrapping with and without parameters of its own, and
\* key agreement, direct and with key wrapping; and those that are a
\* jwa.KeyWrapper.
Algorithms == {"dir", "kw", "gcm", "es", "eskw"}
Agreements == {"es", "eskw"}
Wrappers == {"kw", "gcm", "eskw"}

\* The parameters that an algorithm makes ("iv" stands for "iv" and "tag", and
\* for "p2s" and "p2c"): a fresh value is the number of the encryption and of
\* the recipient.  "apu" (and "apv") come from the caller.
Unset == <<0, 0>>
PartyInfo == <<0, 1>>
NoParameters == [name \in {"iv", "epk", "apu"} |-> Unset]
CallerParameters(given) == [NoParameters EXCEPT !["apu"] = IF given THEN PartyInfo ELSE Unset]
MadeBy(alg) == CASE alg = "gcm" -> {"iv"} [] alg \in Agreements -> {"epk"} [] OTHER -> {}

\* What EncryptKey and WrapKey write into a copy of the parameters.
With(parameters, alg, value) ==
  [name \in DOMAIN parameters |-> IF name \in MadeBy(alg) THEN value ELSE parameters[name]]

\* mergeKeyParameters.
Merged(base, overlay) ==
  [name \in DOMAIN base |-> IF overlay[name] = Unset THEN base[name] ELSE overlay[name]]

Header(alg, parameters) == [alg |-> alg, parameters |-> parameters]
NoHeader == Header(None, NoParameters)

\* Header.Members, of what differs from header to header.
Members(header) ==
  {"alg" : a \in {header.alg} \ {None}}
  \union {name \in DOMAIN header.parameters : header.parameters[name] # Unset}

\* A Content Encryption Key: agreed with a key and "apu", or fresh (of None).
CEK(of, value, apu) == [of |-> of, value |-> value, apu |-> apu]
FreshCEK(value) == CEK(None, value, Unset)
NoCEK == FreshCEK(Unset)
Box(cek, key, value, apu) == [cek |-> cek, key |-> key, value |-> value, apu |-> apu]
EmptyBox == Box(NoCEK, None, Unset, Unset)  \* the empty JWE Encrypted Key

\* "zip" is what decompress makes of the content: "none" when there is none.
Protected(alg, enc, zip) ==
  [alg |-> alg, enc |-> enc, zip |-> zip, parameters |-> NoParameters]
ZeroHeader == Protected(None, FALSE, "none")
NoText == Protected(None, FALSE, "no text")    \* an empty encodedHeader

\* What the tag covers: the protected octets and "aad".
Covered(text, aad) == [text |-> text, aad |-> aad]
NoBody == [plaintext |-> None, cek |-> NoCEK, covers |-> Covered(NoText, None)]

\* "aad" of a message: nil, octets, and an empty slice.
Aads == {None, "data", "empty"}

HasParameters(header) == DOMAIN header.parameters = DOMAIN NoParameters

IsProtected(prot) ==
  /\ prot = [alg |-> prot.alg, enc |-> prot.enc, zip |-> prot.zip, parameters |-> prot.parameters]
  /\ prot.alg \in Algorithms \union {None}
  /\ prot.zip # NoText.zip
  /\ HasParameters(prot)

IsSeq(s) == Len(s) \in Nat /\ s = [i \in 1..Len(s) |-> s[i]]

IsDocument(d) ==
  /\ IsProtected(d.prot)
  /\ HasParameters(d.shared)
  /\ IsSeq(d.recipients) /\ d.recipients # <<>>
  /\ \A i \in DOMAIN d.recipients : HasParameters(d.recipients[i].own)
  /\ d.body.plaintext \in Plaintexts \union {None}

ASSUME PartiesAssumption ==
  /\ \A key \in Keys : Fits[key] \subseteq Algorithms
  /\ \A d \in Received : IsDocument(d)

VARIABLES
  m,            (* the Message                                             *)
  written       (* what Marshal or MarshalJSON gave last, if anything      *)

VARIABLES       \* history, read by properties only
  count,        (* calls of EncryptTo                                      *)
  sent          (* the keys and the plaintext of the last, if it succeeded *)

vars == <<m, written, count, sent>>

NoDocument ==
  [prot |-> NoText, shared |-> NoHeader, recipients |-> <<>>, aad |-> None, body |-> NoBody]
Nobody == [keys |-> {}, plaintext |-> None]

Created(prot, text, shared, recipients, aad, body) ==
  [prot |-> prot, text |-> text, shared |-> shared, recipients |-> recipients, aad |-> aad,
   body |-> body, heads |-> [h \in Heads |-> NoParameters]]

Init ==
  /\ m = Created(ZeroHeader, NoText, NoHeader, <<>>, None, NoBody)
  /\ written = NoDocument
  /\ count = 0
  /\ sent = Nobody

-----------------------------------------------------------------------------
(* Headers *)

\* The header that a recipient points to, or its own.
HeaderOf(msg, r) ==
  IF r.head = None THEN r.own ELSE Header(Named[r.head], msg.heads[r.head])

\* keyManagement; None is ErrMalformedMessage.
KeyManagement(msg, header) ==
  IF msg.prot.alg # None THEN msg.prot.alg
  ELSE IF msg.shared.alg # None THEN msg.shared.alg ELSE header.alg

HeadersDisjoint_Unprotected(msg) ==
  \A i \in DOMAIN msg.recipients :
    Members(msg.shared) \intersect Members(HeaderOf(msg, msg.recipients[i])) = {}

\* checkHeaders: the three headers of each recipient have no name twice.
HeadersDisjoint(msg) ==
  LET prot == Members(msg.prot)
      shared == Members(msg.shared)
  IN \A i \in DOMAIN msg.recipients :
       LET own == Members(HeaderOf(msg, msg.recipients[i]))
       IN prot \intersect shared = {} /\ (prot \union shared) \intersect own = {}

\* Header.Marshal: the octets that were kept come before the fields.
Text(msg) == IF msg.text = NoText THEN msg.prot ELSE msg.text

-----------------------------------------------------------------------------
(* Encryption *)

AlgOf(msg, rk) ==
  KeyManagement(msg, Header(IF rk.head = None THEN None ELSE Named[rk.head], NoParameters))

RecipientError(msg, rk, several) ==
  LET alg == AlgOf(msg, rk)
  IN IF alg = None THEN "Malformed"
     ELSE IF several /\ alg \notin Wrappers THEN "DirectKeyManagement"
     ELSE IF alg \notin Fits[rk.key] THEN "Key" ELSE "none"

\* The encrypted key for the recipient at position i of the n-th encryption.
\* Agreement reads "apu" of the protected header, whichever header the
\* recipient has.
BoxFor(msg, alg, cek, key, n, i) ==
  CASE alg = "kw" -> Box(cek, key, Unset, Unset)
    [] alg = "gcm" -> Box(cek, key, <<n, i>>, Unset)
    [] alg = "eskw" -> Box(cek, key, <<n, i>>, msg.prot.parameters["apu"])
    [] OTHER -> EmptyBox

CEKForOne(msg, alg, key, n) ==
  CASE alg = "dir" -> CEK(key, Unset, Unset)
    [] alg = "es" -> CEK(key, <<n, 1>>, msg.prot.parameters["apu"])
    [] OTHER -> FreshCEK(<<n, 1>>)

ForOne_ParametersLost(msg, rk, n) ==
  LET alg == AlgOf(msg, rk)
      cek == CEKForOne(msg, alg, rk.key, n)
  IN [cek |-> cek,
      msg |-> [msg EXCEPT !.recipients =
                 <<[head |-> rk.head, own |-> NoHeader, supported |-> TRUE,
                    box |-> BoxFor(msg, alg, cek, rk.key, n, 1)]>>]]

\* encryptKeys for one recipient: the parameters go to the protected header.
ForOne(msg, rk, n) ==
  LET alg == AlgOf(msg, rk)
      cek == CEKForOne(msg, alg, rk.key, n)
  IN [cek |-> cek,
      msg |-> [msg EXCEPT !.recipients =
                 <<[head |-> rk.head, own |-> NoHeader, supported |-> TRUE,
                    box |-> BoxFor(msg, alg, cek, rk.key, n, 1)]>>,
               !.prot.parameters = With(@, alg, <<n, 1>>)]]

\* encryptKeys for several recipients: to the header of each, up to the first
\* that fails.  The parameters that the algorithm did not make are those of the
\* protected header.
HeadsWritten(msg, rks, n, last) ==
  [h \in Heads |->
     LET writes == {i \in 1..last : rks[i].head = h /\ MadeBy(AlgOf(msg, rks[i])) # {}}
     IN IF writes = {} THEN msg.heads[h]
        ELSE With(msg.prot.parameters, AlgOf(msg, rks[Max(writes)]), <<n, Max(writes)>>)]

ForEach(msg, rks, n) ==
  LET cek == FreshCEK(<<n, 0>>)
      Made(i) ==
        LET alg == AlgOf(msg, rks[i]) IN
        [head |-> rks[i].head, supported |-> TRUE, box |-> BoxFor(msg, alg, cek, rks[i].key, n, i),
         own |-> IF rks[i].head = None /\ MadeBy(alg) # {}
                   THEN Header(None, With(msg.prot.parameters, alg, <<n, i>>)) ELSE NoHeader]
  IN [cek |-> cek,
      msg |-> [msg EXCEPT !.recipients = [i \in DOMAIN rks |-> Made(i)],
                          !.heads = HeadsWritten(msg, rks, n, Len(rks))]]

Sealed_NotKept(msg, plaintext, cek) ==
  [msg EXCEPT !.body = [plaintext |-> plaintext, cek |-> cek,
                        covers |-> Covered(Text(msg), msg.aad)]]

\* The content, when the headers are as they are written.  SetEncoded keeps them.
Sealed(msg, plaintext, cek) ==
  [msg EXCEPT !.text = Text(msg),
              !.body = [plaintext |-> plaintext, cek |-> cek,
                        covers |-> Covered(Text(msg), msg.aad)]]

\* EncryptTo: the message after it, and its error.
Encrypted(msg, plaintext, rks, n) ==
  LET several == Len(rks) > 1
      failed == {i \in DOMAIN rks : RecipientError(msg, rks[i], several) # "none"}
      first == CHOOSE i \in failed : \A j \in failed : i <= j
      e == IF several THEN ForEach(msg, rks, n) ELSE ForOne(msg, rks[1], n)
  IN IF rks = <<>> \/ ~msg.prot.enc THEN [msg |-> msg, err |-> "Malformed"]
     ELSE IF msg.prot.zip # "none" THEN [msg |-> msg, err |-> "Compressed"]
     ELSE IF failed # {}
       THEN [msg |-> [msg EXCEPT !.heads = IF several THEN HeadsWritten(msg, rks, n, first - 1)
                                           ELSE @],
             err |-> RecipientError(msg, rks[first], several)]
     ELSE IF ~HeadersDisjoint(e.msg) THEN [msg |-> e.msg, err |-> "Duplicate"]
     ELSE [msg |-> Sealed(e.msg, plaintext, e.cek), err |-> "none"]

-----------------------------------------------------------------------------
(* Decryption *)

Result(err, plaintext) == [err |-> err, plaintext |-> plaintext]
Failure(err) == Result(err, None)

\* keyParameters.
Parameters(msg, r) ==
  Merged(Merged(msg.prot.parameters, msg.shared.parameters), HeaderOf(msg, r).parameters)

\* DecryptKey: the Content Encryption Key, or none of them.
DecryptKey(alg, box, key, parameters) ==
  LET empty == {box} \intersect {EmptyBox}
      unwrapped(value, apu) == {b.cek : b \in {box} \intersect {Box(box.cek, key, value, apu)}}
  IN CASE alg = "dir" -> {CEK(key, Unset, Unset) : b \in empty}
       [] alg = "es" -> {CEK(key, parameters["epk"], parameters["apu"]) : b \in empty}
       [] alg = "kw" -> unwrapped(Unset, Unset)
       [] alg = "gcm" -> IF parameters["iv"] = Unset THEN {} ELSE unwrapped(parameters["iv"], Unset)
       [] alg = "eskw" -> unwrapped(parameters["epk"], parameters["apu"])

\* decryptRecipient.
Open(msg, r, key) ==
  LET alg == KeyManagement(msg, HeaderOf(msg, r))
      parameters == Parameters(msg, r)
  IN IF ~r.supported THEN Failure("Unsupported")
     ELSE IF alg = None THEN Failure("Malformed")
     ELSE IF alg \notin Fits[key] \/ (alg \in Agreements /\ parameters["epk"] = Unset)
       THEN Failure("Key")
     ELSE IF msg.body # NoBody /\ msg.body.covers = Covered(Text(msg), msg.aad)
             /\ msg.body.cek \in DecryptKey(alg, r.box, key, parameters)
       THEN Result("none", msg.body.plaintext)
     ELSE Failure("DecryptionFailed")

\* prepareDecryption.
PrepareError(msg) ==
  IF ~msg.prot.enc \/ msg.recipients = <<>> THEN "Malformed"
  ELSE IF ~HeadersDisjoint(msg) THEN "Duplicate" ELSE "none"

\* decryptionFailure.
Reported(msg, err) ==
  IF Len(msg.recipients) = 1 THEN err ELSE "DecryptionFailed"

Decompressed(msg, plaintext) ==
  IF msg.prot.zip \in {"none", "sound"} THEN Result("none", plaintext)
  ELSE Failure(msg.prot.zip)

Opened(msg, key) ==
  [i \in DOMAIN msg.recipients |-> Open(msg, msg.recipients[i], key)]

\* Decrypt: the first recipient that gives the plaintext.
Decrypt(msg, key) ==
  LET results == Opened(msg, key)
      good == {i \in DOMAIN results : results[i].err = "none"}
  IN IF PrepareError(msg) # "none" THEN Failure(PrepareError(msg))
     ELSE IF good = {} THEN Failure(Reported(msg, Last(results).err))
     ELSE Decompressed(msg, results[CHOOSE i \in good : \A j \in good : i <= j].plaintext)

DecryptAll_LastDecides(msg, key) ==
  LET results == Opened(msg, key)
  IN IF PrepareError(msg) # "none" THEN Failure(PrepareError(msg))
     ELSE IF Last(results).err # "none" THEN Failure(Reported(msg, Last(results).err))
     ELSE Decompressed(msg, Last(results).plaintext)

\* DecryptAll, which does not stop and takes the first plaintext that is not nil,
\* before it decompresses it.
DecryptAll(msg, key) ==
  LET results == Opened(msg, key)
      isNil(i) == msg.prot.zip = "none" /\ results[i].plaintext \in Nil
      good == {i \in DOMAIN results : results[i].err = "none" /\ ~isNil(i)}
      bad == {i \in DOMAIN results : results[i].err # "none"}
  IN IF PrepareError(msg) # "none" THEN Failure(PrepareError(msg))
     ELSE IF good = {}
       THEN Failure(IF bad = {} THEN "DecryptionFailed" ELSE Reported(msg, results[Max(bad)].err))
     ELSE Decompressed(msg, results[CHOOSE i \in good : \A j \in good : i <= j].plaintext)

-----------------------------------------------------------------------------
(* The callers *)

\* A Message with a protected header, and perhaps a shared one, "aad", and "apu"
\* in one of the headers.
New(alg, shared, party, aad) ==
  /\ party \in {"nowhere", "protected"} \/ "party" \in Careless
  /\ aad # "empty" \/ "empty" \in Careless
  /\ m' = [Created([Protected(alg, TRUE, "none") EXCEPT
                      !.parameters = CallerParameters(party = "protected")],
                   NoText, Header(shared, CallerParameters(party = "shared")), <<>>, aad, NoBody)
             EXCEPT !.heads = [h \in Heads |-> CallerParameters(party = "own")]]
  /\ written' = NoDocument
  /\ count' = 0
  /\ sent' = Nobody

EncryptTo(plaintext, rks) ==
  LET e == Encrypted(m, plaintext, rks, count + 1) IN
  /\ count < MaxEncryptions
  /\ "again" \in Careless \/ m.text = NoText
  /\ m' = e.msg
  /\ written' = NoDocument
  /\ count' = count + 1
  /\ sent' = IF e.err # "none" THEN Nobody
             ELSE [keys |-> {rks[i].key : i \in DOMAIN rks}, plaintext |-> plaintext]

\* A recipient as MarshalJSON writes it, an unsupported one with the octets that
\* were kept, and as Marshal does: with the encrypted key alone.
WrittenRecipient(msg, r, json) ==
  IF json THEN [own |-> HeaderOf(msg, r), box |-> r.box, supported |-> r.supported]
  ELSE [own |-> NoHeader, box |-> r.box, supported |-> TRUE]

\* An empty "aad" is a member that the encoder leaves out.
Document(msg, json) ==
  [prot |-> Text(msg), shared |-> msg.shared, body |-> msg.body,
   aad |-> IF msg.aad = "empty" THEN None ELSE msg.aad,
   recipients |-> [i \in DOMAIN msg.recipients |->
                     WrittenRecipient(msg, msg.recipients[i], json)]]

\* The Header of an unsupported recipient is nil: rawHeader has what it was.
Compactable(msg) ==
  /\ Len(msg.recipients) = 1
  /\ \A i \in DOMAIN msg.recipients :
       msg.recipients[i].supported => HeaderOf(msg, msg.recipients[i]) = NoHeader
  /\ msg.shared = NoHeader /\ msg.aad = None

\* Marshal, and MarshalJSON.
Marshal(json) ==
  /\ m.recipients # <<>>
  /\ json \/ Compactable(m)
  /\ written' = Document(m, json)
  /\ UNCHANGED <<m, count, sent>>

\* Unmarshal and UnmarshalJSON.
Loaded(document) ==
  Created(document.prot, document.prot, document.shared,
          [i \in DOMAIN document.recipients |->
             [head |-> None, own |-> document.recipients[i].own,
              box |-> document.recipients[i].box,
              supported |-> document.recipients[i].supported]],
          document.aad, document.body)

Unmarshal(document) ==
  /\ m' = Loaded(document)
  /\ written' = NoDocument
  /\ count' = 0
  /\ sent' = Nobody

RecipientKeys == [key : Keys, head : Heads \union {None}]
Recipients ==
  {rks \in UNION {[1..n -> RecipientKeys] : n \in 0..MaxRecipients} :
     \/ "object" \in Careless
     \/ \A i, j \in DOMAIN rks : rks[i].head = rks[j].head /\ rks[i].head # None => i = j}

Next ==
  \/ \E alg, shared \in Algorithms \union {None}, aad \in Aads,
        party \in {"nowhere", "protected", "shared", "own"} : New(alg, shared, party, aad)
  \/ \E plaintext \in Plaintexts, rks \in Recipients : EncryptTo(plaintext, rks)
  \/ \E json \in BOOLEAN : Marshal(json)
  \/ \E document \in (Received \union {written}) \ {NoDocument} : Unmarshal(document)

Spec == Init /\ [][Next]_vars

-----------------------------------------------------------------------------
(* Properties *)

\* Every variable has its type, and a message that was encrypted or read keeps
\* the octets of its protected header.
TypeOK ==
  /\ m.prot.alg \in Algorithms \union {None}
  /\ m.body # NoBody => m.text # NoText
  /\ m.body.plaintext \in Plaintexts \union {None}
  /\ \A i \in DOMAIN m.recipients : m.recipients[i].head \in Heads \union {None}
  /\ written # NoDocument => written.recipients # <<>>
  /\ count \in 0..MaxEncryptions
  /\ sent.keys \subseteq Keys

\* What EncryptTo made decrypts, for each of the keys, in the message and in each
\* document written from it: whichever header the parameters went to, whatever
\* an earlier call that failed left behind, the recipient finds them and the
\* octets of the protected header are those that the tag covers.  It needs a
\* caller that is not Careless.
DecryptsFor(msg) == \A key \in sent.keys : Decrypt(msg, key) = Result("none", sent.plaintext)

RoundTrip ==
  sent # Nobody => /\ DecryptsFor(m)
                   /\ written # NoDocument => DecryptsFor(Loaded(written))

\* "The plaintext and the error are the values that Message.Decrypt gives" (the
\* comment of DecryptAll), for messages of this caller and of others.
DecryptAllAgrees == \A key \in Keys : DecryptAll(m, key) = Decrypt(m, key)

\* "A parameter with integrity protection can also occur again in an unprotected
\* header.  An attacker can then change that value" (the comment of
\* ErrDuplicateHeaderParameter): no key is decrypted with another value for a
\* parameter than the one that the tag protects.
ProtectedParametersHold ==
  \A key \in Keys, i \in DOMAIN m.recipients :
    Decrypt(m, key).err = "none" =>
      LET used == Parameters(m, m.recipients[i])
      IN \A name \in DOMAIN used :
           m.prot.parameters[name] # Unset => used[name] = m.prot.parameters[name]
=============================================================================
