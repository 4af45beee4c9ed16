----------------------------- MODULE Signature -----------------------------
(***************************************************************************)
(* One JWS signature with its two headers (jws/signature.go): an issuer    *)
(* signs, a recipient reads what anyone sends in the compact or the JSON   *)
(* serialization, on an object that may have been used before, and either  *)
(* changes the headers and writes the signature again.  sig is the Go      *)
(* struct.  A signature is the protected octets that it covers.            *)
(***************************************************************************)
EXTENDS Header

CONSTANTS
  Received,     (* documents that others send                              *)
  Settings,     (* what options set: parameters to values                  *)
  Alg, Typ      (* what sign puts into each protected header               *)

\* No header, and signature octets that do not decode.
Nil == [header |-> "nil"]
Malformed == [octets |-> "malformed"]

Document(form, protected, header, octets) ==
  [form |-> form, protected |-> protected, header |-> header, octets |-> octets]

\* The compact serialization has no unprotected header.
IsDocument(d) ==
  /\ d = Document(d.form, d.protected, d.header, d.octets)
  /\ d.form \in {"json", "compact"}
  /\ IsText(d.protected)
  /\ d.header = Nil \/ (IsText(d.header) /\ d.form = "json")

ASSUME SignatureAssumption ==
  /\ None # Malformed
  /\ Settable("alg", Alg) /\ Settable("typ", Typ)
  /\ \A setting \in Settings : \A name \in DOMAIN setting :
       name \in Parameters /\ Settable(name, setting[name])
  /\ \A d \in Received : IsDocument(d)

VARIABLES
  sig,          (* the Signature                                           *)
  written,      (* what MarshalJSON or Marshal wrote, if it was the last   *)
                (* call                                                    *)
  source        (* history: the document that sig holds, as it was read or *)
                (* signed, or NoDocument when the caller changed sig       *)

vars == <<sig, written, source>>

NoDocument == Document("none", NoText, Nil, None)

Object(protected, header, octets) ==
  [protected |-> protected, header |-> header, octets |-> octets]

NewObject == Object(Nil, Nil, None)

Init == sig = NewObject /\ written = NoDocument /\ source = NoDocument

-----------------------------------------------------------------------------
(* The rules *)

FieldsOf(header) == IF header = Nil THEN ZeroFields ELSE header.fields

\* disjoint: it reads the names from what each header would write.
Disjoint(protected, header) ==
  /\ Writable(FieldsOf(header))
  /\ MemberNames(FieldsOf(header)) # {} =>
       /\ Writable(FieldsOf(protected))
       /\ MemberNames(FieldsOf(header)) \intersect MemberNames(FieldsOf(protected)) = {}

\* checkUnencodedPayload and checkContentEncryption.
PayloadEncoded(header) == FieldsOf(header)["b64"] = None
NotEncrypted(header) == FieldsOf(header)["enc"] = None

Permitted(protected, header) ==
  /\ Disjoint(protected, header)
  /\ PayloadEncoded(header)
  /\ NotEncrypted(protected) /\ NotEncrypted(header)

-----------------------------------------------------------------------------
(* Reading, on an object that may hold another signature *)

Fresh(text) == ReadHeader(ZeroHeader, text)

\* Signature.Unmarshal: it does not touch the unprotected header of the object.
ReadCompact_Reused(object, document) ==
  LET p == ReadHeader(IF object.protected = Nil THEN ZeroHeader ELSE object.protected,
                      document.protected)
  IN IF p.ok /\ NotEncrypted(p.header) /\ document.octets # Malformed
       THEN [object |-> Object(p.header, object.header, document.octets), ok |-> TRUE]
     ELSE [object |-> object, ok |-> FALSE]

ReadCompact(object, document) ==
  LET p == Fresh(document.protected)
  IN IF p.ok /\ NotEncrypted(p.header) /\ document.octets # Malformed
       THEN [object |-> Object(p.header, object.header, document.octets), ok |-> TRUE]
     ELSE [object |-> object, ok |-> FALSE]

\* Signature.UnmarshalJSON.
HeaderIn(document) ==
  IF document.header = Nil THEN [header |-> Nil, ok |-> TRUE]
  ELSE LET r == ReadFields(ZeroFields, document.header)
       IN [header |-> [fields |-> r.fields, kept |-> NoText], ok |-> r.ok]

ReadJSON(object, document) ==
  LET p == Fresh(document.protected)
      h == HeaderIn(document)
  IN IF p.ok /\ h.ok /\ Permitted(p.header, h.header) /\ document.octets # Malformed
       THEN [object |-> Object(p.header, h.header, document.octets), ok |-> TRUE]
     ELSE [object |-> object, ok |-> FALSE]

Reading(object, document) ==
  IF document.form = "compact" THEN ReadCompact(object, document)
  ELSE ReadJSON(object, document)

-----------------------------------------------------------------------------
(* Writing *)

\* MarshalJSON; an unprotected header with nothing to write is left out.
WriteJSON(object) ==
  Document("json", HeaderText(object.protected),
           IF MemberNames(FieldsOf(object.header)) = {} THEN Nil
           ELSE WriteFields(FieldsOf(object.header)),
           object.octets)

\* Token.Marshal writes no unprotected header and has no check of its own.
WriteCompact(object) ==
  Document("compact", HeaderText(object.protected), Nil, object.octets)

MayWriteJSON(object) ==
  HasText(object.protected) /\ Permitted(object.protected, object.header)

-----------------------------------------------------------------------------
(* The callers *)

Set(fields, setting) ==
  [name \in Parameters |-> IF name \in DOMAIN setting THEN setting[name] ELSE fields[name]]

\* Token.sign: a chain in a header must carry the key, when there is a key and
\* not a device; then the octets of the header are kept and signed.
ChainFits(fields, keyed) == keyed => fields["x5c"] # "other chain"

NewProtected(setting) == Set([ZeroFields EXCEPT !["typ"] = Typ, !["alg"] = Alg], setting)

Signed(protected, header) ==
  Object([fields |-> protected, kept |-> WriteFields(protected)], header, WriteFields(protected))

Sign(setting, header, keyed) ==
  LET protected == NewProtected(setting) IN
  /\ sig = NewObject
  /\ ChainFits(protected, keyed) /\ ChainFits(FieldsOf(header), keyed)
  /\ Writable(protected)
  /\ sig' = Signed(protected, header)
  /\ source' = Document("signed", WriteFields(protected), Nil, WriteFields(protected))
  /\ written' = NoDocument

\* A reader gets a document of another party, or one that was written here.
Read(document) ==
  LET r == Reading(sig, document) IN
  /\ document # NoDocument
  /\ sig' = r.object
  /\ source' = IF r.ok THEN document ELSE source
  /\ written' = NoDocument

\* The options, on a signature in use.
WithProtectedHeader(setting) ==
  /\ sig.protected # Nil
  /\ sig' = [sig EXCEPT !.protected.fields = Set(@, setting)]
  /\ source' = NoDocument
  /\ written' = NoDocument

WithHeader(setting) ==
  /\ sig' = [sig EXCEPT !.header = [fields |-> Set(ZeroFields, setting), kept |-> NoText]]
  /\ source' = NoDocument
  /\ written' = NoDocument

\* SetEncoded with no octets.
SetEncoded ==
  /\ sig.protected # Nil
  /\ sig' = [sig EXCEPT !.protected.kept = NoText]
  /\ source' = NoDocument
  /\ written' = NoDocument

MarshalJSON ==
  /\ sig.protected # Nil
  /\ written' = IF MayWriteJSON(sig) THEN WriteJSON(sig) ELSE NoDocument
  /\ UNCHANGED <<sig, source>>

Marshal ==
  /\ sig.protected # Nil
  /\ written' = IF HasText(sig.protected) THEN WriteCompact(sig) ELSE NoDocument
  /\ UNCHANGED <<sig, source>>

Next ==
  \/ \E setting \in Settings, keyed \in BOOLEAN :
       \/ Sign(setting, Nil, keyed)
       \/ \E unsigned \in Settings :
            Sign(setting, [fields |-> Set(ZeroFields, unsigned), kept |-> NoText], keyed)
  \/ \E document \in Received \union {written} : Read(document)
  \/ \E setting \in Settings : WithProtectedHeader(setting) \/ WithHeader(setting)
  \/ SetEncoded
  \/ MarshalJSON
  \/ Marshal

Spec == Init /\ [][Next]_vars

-----------------------------------------------------------------------------
(* Properties *)

\* Every variable has its type.
IsHeader(header) ==
  /\ DOMAIN header.fields = Parameters
  /\ \A name \in Parameters : header.fields[name] \notin {Absent, Empty}
  /\ header.kept = NoText \/ DOMAIN header.kept = Members

TypeOK ==
  /\ sig.protected = Nil \/ IsHeader(sig.protected)
  /\ sig.header = Nil \/ (IsHeader(sig.header) /\ sig.header.kept = NoText)
  /\ sig.octets # Malformed
  /\ written.form \in {"none", "json", "compact"}
  /\ source.form \in {"none", "json", "compact", "signed"}

\* "a header that came from a document keeps its text, and a signature on that
\* text stays correct" (the comment of Header.Marshal).  The protected fields
\* that the application reads are those that the signature covers, and they and
\* the signature come from one document, whatever the object held before and
\* whatever reads of other documents failed since.  So does the unprotected
\* header after UnmarshalJSON; after Unmarshal it is whatever it was before,
\* although the comment there says nil, and this property does not ask it.
FieldsAreSigned ==
  source # NoDocument =>
    LET p == Fresh(source.protected) IN
    /\ p.ok /\ sig.protected = p.header
    /\ sig.octets = source.octets
    /\ source.form = "json" => sig.header = HeaderIn(source).header

\* What the RFCs ask of the two headers, as their names and values are in the
\* document: "crit" is protected, names what is there and is understood, once;
\* "b64" is protected, true and named; no "enc"; one value for a parameter.
WellFormed(document) ==
  LET value(name) == document.protected[name]
      unsigned(name) == IF document.header = Nil THEN Absent ELSE document.header[name]
  IN /\ ~Given(unsigned("crit")) /\ ~Given(unsigned("b64"))
     /\ Given(value("crit")) => value("crit") = <<"b64">> /\ Given(value("b64"))
     /\ Given(value("b64")) => value("b64") = TRUE /\ Given(value("crit"))
     /\ ~Given(value("enc")) /\ ~Given(unsigned("enc"))
     /\ \A name \in Parameters : ~(Given(value(name)) /\ Given(unsigned(name)))

\* No sequence of calls makes this package accept another document.
AcceptedIsWellFormed == source.form \in {"json", "compact"} => WellFormed(source)

\* "A serialization that this package rejects on input is not a serialization
\* that it writes" (the comment of MarshalJSON), and its reader gets the
\* headers of the writer and the octets that were signed.  It needs a protected
\* header whose fields are not changed beside its octets, and the compact
\* serialization needs one without "enc".
Agrees(header) == header.kept # NoText => Fresh(header.kept).header = header

ReadsBack ==
  /\ written' \notin {written, NoDocument}
  /\ Agrees(sig.protected)
  /\ written'.form = "compact" => NotEncrypted(sig.protected)
  => LET r == Reading(NewObject, written') IN
       /\ r.ok /\ r.object.protected.fields = sig.protected.fields
       /\ written'.form = "json" => FieldsOf(r.object.header) = FieldsOf(sig.header)
       /\ r.object.octets = sig.octets
       /\ source # NoDocument => written'.protected = source.protected

RoundTrip == [][ReadsBack]_vars
=============================================================================
