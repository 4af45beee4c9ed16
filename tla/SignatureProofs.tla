-------------------------- MODULE SignatureProofs --------------------------
(***************************************************************************)
(* Proofs about Signature, for any documents, settings and values: the     *)
(* fields of a signature are those that it covers, and what is accepted    *)
(* is well formed.                                                         *)
(***************************************************************************)
EXTENDS Signature, WellFoundedInduction, TLAPS

-----------------------------------------------------------------------------
(* The order of the parameters *)

LEMMA OrderLength == Len(Order) = 16 /\ DOMAIN Order = 1..16
  BY DEF Order

LEMMA Named ==
  /\ {"b64", "crit", "alg", "typ", "enc", "jwk"} \subseteq Parameters
<1>1. Order[1] = {"b64", "crit"} /\ Order[2] = {"alg"} /\ Order[3] = {"typ", "cty"}
      /\ Order[5] = {"jwk", "kid"} /\ Order[8] = {"enc"}
  BY DEF Order
<1>2. \A i \in 1..16 : Order[i] \subseteq Parameters
  BY OrderLength DEF Parameters, ToSet
<1> QED
  BY <1>1, <1>2

LEMMA Positions == \A name \in Parameters : Position[name] \in 1..16
<1> SUFFICES ASSUME NEW name \in Parameters PROVE Position[name] \in 1..16
  OBVIOUS
<1>1. \E i \in DOMAIN Order : name \in Order[i]
  BY DEF Parameters, ToSet
<1>2. Position[name] = CHOOSE i \in DOMAIN Order : name \in Order[i]
  BY DEF Position
<1> QED
  BY <1>1, <1>2, OrderLength

LEMMA Least ==
  ASSUME NEW T, T \subseteq Nat, T # {}
  PROVE  \E i \in T : \A j \in T : i <= j
<1> DEFINE R == OpToRel(<, Nat)
<1>1. PICK i \in T : \A j \in T : <<j, i>> \notin R
  BY NatLessThanWellFounded, WFMin
<1>2. \A j \in T : ~(j < i)
  BY <1>1 DEF OpToRel
<1> HIDE DEF R
<1> QED
  BY <1>2

\* UnmarshalJSON stops at the first parameter that it cannot use, or at none.
LEMMA Stops ==
  ASSUME NEW document
  PROVE  \/ /\ Stop(document) = 17
            /\ \A name \in Parameters : ~Unusable(name, document[name])
         \/ /\ Stop(document) \in 1..16
            /\ \E name \in Parameters : Unusable(name, document[name])
<1> DEFINE bad == {n \in Parameters : Unusable(n, document[n])}
           stops == {Position[name] : name \in bad}
<1>1. CASE bad = {}
  BY <1>1, OrderLength DEF Stop
<1>2. CASE bad # {}
  <2>1. stops # {} /\ stops \subseteq 1..16
    BY <1>2, Positions
  <2>2. Stop(document) = CHOOSE i \in stops : \A j \in stops : i <= j
    BY <2>1 DEF Stop
  <2> HIDE DEF stops
  <2>3. \E i \in stops : \A j \in stops : i <= j
    <3>1. stops \subseteq Nat
      BY <2>1
    <3> QED
      BY <2>1, <3>1, Least
  <2>4. Stop(document) \in stops
    BY <2>2, <2>3
  <2>5. Stop(document) \in 1..16 /\ \E name \in Parameters : Unusable(name, document[name])
    BY <1>2, <2>1, <2>4
  <2> QED
    BY <2>5
<1> QED
  BY <1>1, <1>2

\* What a read without an error gives.
LEMMA ReadGives ==
  ASSUME NEW old, NEW document, ReadFields(old, document).ok
  PROVE  /\ document # Broken
         /\ CriticalAgrees(document["crit"], document["b64"])
         /\ \A name \in Parameters : ~Unusable(name, document[name])
         /\ ReadFields(old, document).fields =
              [name \in Parameters |-> Value(name, old[name], document[name])]
<1>1. document # Broken /\ CriticalAgrees(document["crit"], document["b64"])
  BY DEF ReadFields
<1>2. Stop(document) > Len(Order)
  BY <1>1 DEF ReadFields
<1>3. Stop(document) = 17 /\ \A name \in Parameters : ~Unusable(name, document[name])
  BY <1>2, Stops, OrderLength
<1>4. ReadFields(old, document).fields =
        [name \in Parameters |-> Value(name, old[name], document[name])]
  BY <1>1, <1>3, Positions DEF ReadFields
<1> QED
  BY <1>1, <1>3, <1>4

\* When a read gives no error.
LEMMA ReadSucceeds ==
  ASSUME NEW old, NEW document, document # Broken,
         CriticalAgrees(document["crit"], document["b64"]),
         \A name \in Parameters : ~Unusable(name, document[name])
  PROVE  /\ ReadFields(old, document).ok
         /\ ReadFields(old, document).fields =
              [name \in Parameters |-> Value(name, old[name], document[name])]
<1>1. Stop(document) = 17
  BY Stops
<1>2. ReadFields(old, document) =
        [fields |-> [name \in Parameters |->
                       IF Position[name] < 17
                         THEN Value(name, old[name], document[name]) ELSE old[name]],
         ok |-> 17 > Len(Order)]
  BY <1>1 DEF ReadFields
<1>3. ReadFields(old, document).ok = (17 > Len(Order))
  BY <1>2
<1>4. 17 > Len(Order)
  BY OrderLength
<1>5. ReadFields(old, document).ok
  BY <1>3, <1>4, Zenon
<1> QED
  BY <1>5, ReadGives
-----------------------------------------------------------------------------
(* Types *)

FieldsOK(f) ==
  /\ f = [name \in Parameters |-> f[name]]
  /\ \A name \in Parameters : Settable(name, f[name])

HeaderOK(h) ==
  /\ h = [fields |-> h.fields, kept |-> h.kept]
  /\ FieldsOK(h.fields)
  /\ h.kept = NoText \/ (IsText(h.kept) /\ h.kept # Broken)

SigOK ==
  /\ sig = Object(sig.protected, sig.header, sig.octets)
  /\ sig.protected = Nil \/ HeaderOK(sig.protected)
  /\ sig.header = Nil \/ (HeaderOK(sig.header) /\ sig.header.kept = NoText)
  /\ sig.octets # Malformed

DocumentsOK ==
  /\ written = NoDocument \/ IsDocument(written)
  /\ source = NoDocument \/ IsDocument(source) \/ source.form = "signed"

IInv == SigOK /\ DocumentsOK /\ FieldsAreSigned /\ AcceptedIsWellFormed

LEMMA TextIsNone == ASSUME NEW text, IsText(text) PROVE text # NoText
<1>1. DOMAIN NoText = {"octets"} /\ DOMAIN Broken = {"octets"}
  BY DEF NoText, Broken
<1>2. "crit" \in Members
  BY Named DEF Members
<1>3. NoText # Broken
  BY DEF NoText, Broken
<1> QED
  BY <1>1, <1>2, <1>3 DEF IsText

LEMMA ZeroOK == FieldsOK(ZeroFields)
  BY HeaderAssumption DEF FieldsOK, ZeroFields, Settable, Unusable

\* What an option sets can be set.
LEMMA SetOK ==
  ASSUME NEW f, FieldsOK(f), NEW setting \in Settings
  PROVE  FieldsOK(Set(f, setting))
<1>1. \A name \in DOMAIN setting : name \in Parameters /\ Settable(name, setting[name])
  BY SignatureAssumption
<1> QED
  BY <1>1 DEF FieldsOK, Set

\* What a read of a text gives.
LEMMA ReadOK ==
  ASSUME NEW text, IsText(text), ReadFields(ZeroFields, text).ok
  PROVE  /\ FieldsOK(ReadFields(ZeroFields, text).fields)
         /\ \A name \in Parameters :
              /\ Given(text[name]) => ReadFields(ZeroFields, text).fields[name] = text[name]
              /\ ~Given(text[name]) => ReadFields(ZeroFields, text).fields[name] = None
         /\ CriticalAgrees(text["crit"], text["b64"])
         /\ text # Broken
<1> DEFINE f == ReadFields(ZeroFields, text).fields
<1>1. /\ text # Broken /\ CriticalAgrees(text["crit"], text["b64"])
      /\ \A name \in Parameters : ~Unusable(name, text[name])
      /\ f = [name \in Parameters |-> Value(name, ZeroFields[name], text[name])]
  BY ReadGives
<1> HIDE DEF f
<1>2. \A name \in Parameters : f[name] = IF Given(text[name]) THEN text[name] ELSE None
  BY <1>1 DEF ZeroFields, Value
<1>3. \A name \in Parameters : Settable(name, f[name])
  <2> SUFFICES ASSUME NEW name \in Parameters PROVE Settable(name, f[name])
    OBVIOUS
  <2>1. CASE Given(text[name])
    BY <1>1, <1>2, <2>1 DEF Settable, Given, IsText
  <2>2. CASE ~Given(text[name])
    BY <1>2, <2>2, HeaderAssumption DEF Settable, Unusable
  <2> QED
    BY <2>1, <2>2
<1>4. f = [name \in Parameters |-> f[name]]
  BY <1>1
<1> QED
  BY <1>1, <1>2, <1>3, <1>4 DEF f, FieldsOK

\* What is written is a text.
LEMMA WrittenIsText ==
  ASSUME NEW f, FieldsOK(f)
  PROVE  /\ IsText(WriteFields(f)) /\ WriteFields(f) # Broken
         /\ \A name \in Parameters :
              WriteFields(f)[name] = IF f[name] # None THEN f[name] ELSE Absent
<1> DEFINE text == WriteFields(f)
<1>1. /\ DOMAIN text = Members
      /\ \A name \in Parameters : text[name] = IF f[name] # None THEN f[name] ELSE Absent
  BY DEF WriteFields, Members
<1>2. text # Broken
  <2>1. DOMAIN Broken = {"octets"} /\ "crit" \in Members
    BY Named DEF Broken, Members
  <2> QED
    BY <1>1, <2>1
<1> HIDE DEF text
<1>3. IsText(text)
  BY <1>1, Named DEF IsText, FieldsOK, Settable
<1> QED
  BY <1>1, <1>2, <1>3 DEF text

\* What is written can be read, and gives the fields again.
LEMMA WriteThenRead ==
  ASSUME NEW f, FieldsOK(f), Writable(f)
  PROVE  /\ IsText(WriteFields(f)) /\ WriteFields(f) # Broken
         /\ ReadFields(ZeroFields, WriteFields(f)) = [fields |-> f, ok |-> TRUE]
<1> DEFINE text == WriteFields(f)
<1>1. \A name \in Parameters : text[name] = IF f[name] # None THEN f[name] ELSE Absent
  BY WrittenIsText
<1>2. text # Broken
  BY WrittenIsText
<1>3. IsText(text)
  BY WrittenIsText
<1> HIDE DEF text
<1>4. \A name \in Parameters : ~Unusable(name, text[name])
  BY <1>1, HeaderAssumption DEF FieldsOK, Settable, Unusable
<1>5. CriticalAgrees(text["crit"], text["b64"])
  <2>1. /\ Given(text["crit"]) <=> Given(f["crit"])
        /\ Given(text["b64"]) <=> Given(f["b64"])
        /\ Given(f["crit"]) => text["crit"] = f["crit"]
        /\ Given(f["b64"]) => text["b64"] = f["b64"]
    BY <1>1, Named DEF Given, FieldsOK, Settable
  <2>2. CriticalAgrees(f["crit"], f["b64"])
    BY DEF Writable
  <2> QED
    BY <2>1, <2>2 DEF CriticalAgrees
<1>6. /\ ReadFields(ZeroFields, text).ok
      /\ ReadFields(ZeroFields, text).fields =
           [name \in Parameters |-> Value(name, ZeroFields[name], text[name])]
  BY <1>2, <1>4, <1>5, ReadSucceeds
<1>7. \A name \in Parameters : Value(name, ZeroFields[name], text[name]) = f[name]
  BY <1>1 DEF Value, ZeroFields, Given, FieldsOK, Settable
<1>8. ReadFields(ZeroFields, text).fields = f
  BY <1>6, <1>7 DEF FieldsOK
<1> QED
  BY <1>2, <1>3, <1>6, <1>8 DEF text, ReadFields
\* What Unmarshal of a new header gives.
LEMMA FreshOK ==
  ASSUME NEW text, text = NoText \/ IsText(text), Fresh(text).ok
  PROVE  /\ IsText(text) /\ text # Broken /\ text # NoText
         /\ Fresh(text).header = [fields |-> ReadFields(ZeroFields, text).fields, kept |-> text]
         /\ HeaderOK(Fresh(text).header)
         /\ ReadFields(ZeroFields, text).ok
<1>1. text # NoText
  BY DEF Fresh, ReadHeader
<1>2. IsText(text) /\ ReadFields(ZeroFields, text).ok
  BY <1>1 DEF Fresh, ReadHeader, ZeroHeader
<1>3. Fresh(text).header = [fields |-> ReadFields(ZeroFields, text).fields, kept |-> text]
  BY <1>1, <1>2 DEF Fresh, ReadHeader, ZeroHeader
<1> QED
  BY <1>1, <1>2, <1>3, ReadOK DEF HeaderOK

LEMMA NilIsNoHeader == ASSUME NEW h, HeaderOK(h) PROVE h # Nil
<1>1. DOMAIN Nil = {"header"}
  BY DEF Nil
<1>2. DOMAIN h = {"fields", "kept"}
  BY DEF HeaderOK
<1> QED
  BY <1>1, <1>2

\* What an unprotected header in a document gives.
LEMMA HeaderInOK ==
  ASSUME NEW d, IsDocument(d), HeaderIn(d).ok
  PROVE  LET h == HeaderIn(d).header IN
         /\ h = Nil \/ (HeaderOK(h) /\ h.kept = NoText)
         /\ FieldsOK(FieldsOf(h))
         /\ d.header = Nil => h = Nil
         /\ d.header # Nil =>
              /\ CriticalAgrees(d.header["crit"], d.header["b64"])
              /\ \A name \in Parameters :
                   Given(d.header[name]) => FieldsOf(h)[name] = d.header[name]
<1>1. CASE d.header = Nil
  BY <1>1, ZeroOK DEF HeaderIn, FieldsOf
<1>2. CASE d.header # Nil
  <2> DEFINE r == ReadFields(ZeroFields, d.header)
             h == HeaderIn(d).header
  <2>1. IsText(d.header) /\ r.ok /\ h = [fields |-> r.fields, kept |-> NoText]
    BY <1>2 DEF HeaderIn, IsDocument
  <2>2. /\ FieldsOK(r.fields) /\ CriticalAgrees(d.header["crit"], d.header["b64"])
        /\ \A name \in Parameters : Given(d.header[name]) => r.fields[name] = d.header[name]
    BY <2>1, ReadOK
  <2> HIDE DEF r, h
  <2>3. HeaderOK(h) /\ h.kept = NoText /\ h.fields = r.fields
    BY <2>1, <2>2 DEF HeaderOK
  <2>4. h # Nil /\ FieldsOf(h) = r.fields
    BY <2>3, NilIsNoHeader DEF FieldsOf
  <2> QED
    BY <1>2, <2>2, <2>3, <2>4 DEF h
<1> QED
  BY <1>1, <1>2

\* A document that a reader accepts is well formed, and the object is of it.
LEMMA ReadingOK ==
  ASSUME NEW object, NEW d, IsDocument(d), Reading(object, d).ok
  PROVE  LET o == Reading(object, d).object IN
         /\ o = Object(Fresh(d.protected).header,
                       IF d.form = "json" THEN HeaderIn(d).header ELSE object.header, d.octets)
         /\ Fresh(d.protected).ok
         /\ d.form = "json" => HeaderIn(d).ok /\ Permitted(Fresh(d.protected).header, HeaderIn(d).header)
         /\ NotEncrypted(Fresh(d.protected).header)
         /\ d.octets # Malformed
<1>1. d.form \in {"json", "compact"}
  BY DEF IsDocument
<1>2. CASE d.form = "compact"
  BY <1>2 DEF Reading, ReadCompact
<1>3. CASE d.form = "json"
  BY <1>3 DEF Reading, ReadJSON, Permitted
<1> QED
  BY <1>1, <1>2, <1>3
\* "crit" of a header in a document, when it agrees with "b64".
LEMMA CriticalRule ==
  ASSUME NEW text, IsText(text), text # Broken, CriticalAgrees(text["crit"], text["b64"])
  PROVE  /\ Given(text["crit"]) => text["crit"] = <<"b64">> /\ Given(text["b64"])
         /\ Given(text["b64"]) => text["b64"] = TRUE /\ Given(text["crit"])
<1> DEFINE crit == text["crit"]
           b64 == text["b64"]
<1>1. crit \in {None, Absent, Empty} \union Lists
  BY DEF IsText
<1> HIDE DEF crit, b64
<1>2. ASSUME Given(crit) PROVE crit = <<"b64">> /\ Given(b64)
  <2>1. crit \in Seq(STRING) /\ crit # <<>>
    BY <1>1, <1>2 DEF Given, Lists
  <2>2. ToSet(crit) \subseteq {"b64"} /\ Len(crit) <= 1 /\ Given(b64)
    BY <1>2, <2>1 DEF CriticalAgrees, crit, b64
  <2>3. Len(crit) = 1
    <3>1. Len(crit) \in Nat /\ Len(crit) # 0
      BY <2>1
    <3> QED
      BY <2>2, <3>1
  <2>4. crit[1] = "b64"
    <3>1. 1 \in DOMAIN crit
      BY <2>1, <2>3
    <3> QED
      BY <2>2, <3>1 DEF ToSet
  <2> QED
    BY <2>1, <2>2, <2>3, <2>4
<1>3. ASSUME Given(b64) PROVE b64 = TRUE /\ Given(crit)
  BY <1>3 DEF CriticalAgrees, crit, b64
<1> QED
  BY <1>2, <1>3 DEF crit, b64

LEMMA AcceptedWellFormed ==
  ASSUME NEW object, NEW d, IsDocument(d), Reading(object, d).ok
  PROVE  WellFormed(d)
<1> DEFINE p == Fresh(d.protected).header
           h == HeaderIn(d).header
           value(name) == d.protected[name]
           unsigned(name) == IF d.header = Nil THEN Absent ELSE d.header[name]
<1>1. Fresh(d.protected).ok /\ NotEncrypted(p)
  BY ReadingOK
<1>2. d.form = "json" => HeaderIn(d).ok /\ Permitted(p, h)
  BY ReadingOK
<1>3. /\ IsText(d.protected) /\ d.protected # Broken
      /\ FieldsOf(p) = ReadFields(ZeroFields, d.protected).fields
      /\ ReadFields(ZeroFields, d.protected).ok
  <2>1. IsText(d.protected)
    BY DEF IsDocument
  <2>2. HeaderOK(p) /\ p.fields = ReadFields(ZeroFields, d.protected).fields
        /\ d.protected # Broken /\ ReadFields(ZeroFields, d.protected).ok
    <3>1. /\ p = [fields |-> ReadFields(ZeroFields, d.protected).fields, kept |-> d.protected]
          /\ HeaderOK(p) /\ d.protected # Broken /\ ReadFields(ZeroFields, d.protected).ok
      BY <1>1, <2>1, FreshOK
    <3> QED
      BY <3>1
  <2> QED
    BY <2>1, <2>2, NilIsNoHeader DEF FieldsOf
<1>4. /\ CriticalAgrees(value("crit"), value("b64"))
      /\ \A name \in Parameters :
           /\ Given(value(name)) => FieldsOf(p)[name] = value(name)
           /\ ~Given(value(name)) => FieldsOf(p)[name] = None
  BY <1>3, ReadOK
<1>5. /\ Given(value("crit")) => value("crit") = <<"b64">> /\ Given(value("b64"))
      /\ Given(value("b64")) => value("b64") = TRUE /\ Given(value("crit"))
  BY <1>3, <1>4, CriticalRule
<1>6. ~Given(value("enc"))
  BY <1>1, <1>4, Named DEF NotEncrypted, Given
<1>7. CASE d.header = Nil
  BY <1>5, <1>6, <1>7 DEF WellFormed, Given
<1>8. CASE d.header # Nil
  <2>1. d.form = "json" /\ IsText(d.header) /\ HeaderIn(d).ok /\ Permitted(p, h)
    BY <1>2, <1>8 DEF IsDocument
  <2>2. /\ FieldsOK(FieldsOf(h)) /\ CriticalAgrees(d.header["crit"], d.header["b64"])
        /\ \A name \in Parameters : Given(d.header[name]) => FieldsOf(h)[name] = d.header[name]
    BY <1>8, <2>1, HeaderInOK
  <2>3. d.header # Broken
    BY <1>8, <2>1 DEF HeaderIn, ReadFields
  <2>4. /\ FieldsOf(h)["b64"] = None /\ FieldsOf(h)["enc"] = None /\ Disjoint(p, h)
    BY <2>1 DEF Permitted, PayloadEncoded, NotEncrypted
  <2> HIDE DEF p, h
  <2>5. ~Given(d.header["b64"]) /\ ~Given(d.header["enc"])
    BY <2>2, <2>4, Named DEF Given
  <2>6. ~Given(d.header["crit"])
    BY <2>1, <2>2, <2>3, <2>5, CriticalRule
  <2>7. \A name \in Parameters : ~(Given(value(name)) /\ Given(d.header[name]))
    BY <1>4, <2>2, <2>4 DEF Disjoint, MemberNames, Given
  <2> QED
    BY <1>5, <1>6, <1>8, <2>5, <2>6, <2>7 DEF WellFormed
<1> QED
  BY <1>7, <1>8

-----------------------------------------------------------------------------
(* The invariant *)

LEMMA InitIInv == Init => IInv
<1> SUFFICES ASSUME Init PROVE IInv
  OBVIOUS
<1> QED
  BY SignatureAssumption DEF Init, IInv, SigOK, DocumentsOK, NewObject, Object, FieldsAreSigned,
              AcceptedIsWellFormed, NoDocument, Document

LEMMA SignIInv ==
  ASSUME IInv, NEW setting \in Settings, NEW keyed \in BOOLEAN,
         NEW header, header = Nil \/ (HeaderOK(header) /\ header.kept = NoText),
         Sign(setting, header, keyed)
  PROVE  IInv'
<1> DEFINE f == NewProtected(setting)
           text == WriteFields(f)
<1>1. FieldsOK(f)
  <2>1. FieldsOK([ZeroFields EXCEPT !["typ"] = Typ, !["alg"] = Alg])
    BY ZeroOK, Named, SignatureAssumption DEF FieldsOK
  <2> QED
    BY <2>1, SetOK DEF NewProtected
<1>2. /\ sig' = Object([fields |-> f, kept |-> text], header, text)
      /\ source' = Document("signed", text, Nil, text)
      /\ written' = NoDocument /\ Writable(f)
  BY DEF Sign, Signed
<1> HIDE DEF f
<1>3. /\ IsText(text) /\ text # Broken /\ text # NoText
      /\ ReadFields(ZeroFields, text) = [fields |-> f, ok |-> TRUE]
  BY <1>1, <1>2, WriteThenRead, TextIsNone
<1> HIDE DEF text
<1>4. Fresh(text) = [header |-> [fields |-> f, kept |-> text], ok |-> TRUE]
  <2> DEFINE r == ReadFields(ZeroFields, text)
  <2>1. r.ok /\ r.fields = f
    BY <1>3
  <2>2. ZeroHeader.fields = ZeroFields
    BY DEF ZeroHeader
  <2>3. ReadHeader(ZeroHeader, text) = [header |-> [fields |-> r.fields, kept |-> text], ok |-> r.ok]
    BY <1>3, <2>1, <2>2 DEF ReadHeader
  <2>4. r.ok = TRUE
    BY <1>3
  <2> QED
    BY <2>1, <2>3, <2>4 DEF Fresh
<1>5. text # Malformed
  <2>1. DOMAIN Malformed = {"octets"} /\ "crit" \in Members
    BY Named DEF Malformed, Members
  <2> QED
    BY <1>3, <2>1 DEF IsText
<1>6. SigOK'
  BY <1>1, <1>2, <1>3, <1>5 DEF SigOK, Object, HeaderOK
<1>7. DocumentsOK'
  BY <1>2 DEF DocumentsOK, Document
<1>8. FieldsAreSigned'
  BY <1>2, <1>4 DEF FieldsAreSigned, Document, Object
<1>9. AcceptedIsWellFormed'
  BY <1>2 DEF AcceptedIsWellFormed, Document
<1> QED
  BY <1>6, <1>7, <1>8, <1>9 DEF IInv

LEMMA ReadIInv ==
  ASSUME IInv, NEW d \in Received \union {written}, Read(d)
  PROVE  IInv'
<1>1. IsDocument(d)
  BY SignatureAssumption DEF Read, IInv, DocumentsOK
<1>2. written' = NoDocument /\ sig' = Reading(sig, d).object
      /\ source' = IF Reading(sig, d).ok THEN d ELSE source
  BY DEF Read
<1>3. CASE ~Reading(sig, d).ok
  <2>1. sig' = sig
    BY <1>2, <1>3 DEF Reading, ReadCompact, ReadJSON
  <2>2. source' = source
    BY <1>2, <1>3
  <2> QED
    BY <1>2, <2>1, <2>2 DEF IInv, SigOK, DocumentsOK, FieldsAreSigned, AcceptedIsWellFormed
<1>4. CASE Reading(sig, d).ok
  <2> DEFINE p == Fresh(d.protected).header
             h == IF d.form = "json" THEN HeaderIn(d).header ELSE sig.header
  <2>1. /\ sig' = Object(p, h, d.octets) /\ Fresh(d.protected).ok
        /\ d.form = "json" => HeaderIn(d).ok
        /\ d.octets # Malformed
    BY <1>1, <1>2, <1>4, ReadingOK
  <2>2. HeaderOK(p)
    BY <1>1, <2>1, FreshOK DEF IsDocument
  <2>3. h = Nil \/ (HeaderOK(h) /\ h.kept = NoText)
    BY <1>1, <2>1, HeaderInOK DEF IInv, SigOK
  <2> HIDE DEF p, h
  <2>4. SigOK'
    BY <2>1, <2>2, <2>3 DEF SigOK, Object
  <2>5. FieldsAreSigned'
    BY <1>2, <1>4, <2>1 DEF FieldsAreSigned, Object, p, h
  <2>6. AcceptedIsWellFormed'
    BY <1>1, <1>2, <1>4, AcceptedWellFormed DEF AcceptedIsWellFormed
  <2>7. DocumentsOK'
    BY <1>1, <1>2, <1>4 DEF DocumentsOK
  <2> QED
    BY <2>4, <2>5, <2>6, <2>7 DEF IInv
<1> QED
  BY <1>3, <1>4
\* The options change one header and nothing of a document is left.
LEMMA OptionsIInv ==
  ASSUME IInv,
         \/ \E setting \in Settings : WithProtectedHeader(setting) \/ WithHeader(setting)
         \/ SetEncoded
  PROVE  IInv'
<1>1. source' = NoDocument /\ written' = NoDocument
  BY DEF WithProtectedHeader, WithHeader, SetEncoded
<1>2. SigOK'
  <2>1. ASSUME NEW setting \in Settings, WithProtectedHeader(setting) PROVE SigOK'
    <3>1. FieldsOK(Set(sig.protected.fields, setting)) /\ HeaderOK(sig.protected)
      BY <2>1, SetOK DEF WithProtectedHeader, IInv, SigOK, HeaderOK
    <3>2. sig' = Object([sig.protected EXCEPT !.fields = Set(sig.protected.fields, setting)],
                        sig.header, sig.octets)
      BY <2>1 DEF WithProtectedHeader, IInv, SigOK, Object
    <3> QED
      BY <3>1, <3>2 DEF IInv, SigOK, Object, HeaderOK
  <2>2. ASSUME NEW setting \in Settings, WithHeader(setting) PROVE SigOK'
    <3> DEFINE h == [fields |-> Set(ZeroFields, setting), kept |-> NoText]
    <3>1. HeaderOK(h)
      BY ZeroOK, SetOK DEF HeaderOK
    <3>2. sig' = Object(sig.protected, h, sig.octets)
      BY <2>2 DEF WithHeader, IInv, SigOK, Object
    <3> QED
      BY <3>1, <3>2 DEF IInv, SigOK, Object
  <2>3. CASE SetEncoded
    <3>1. sig' = Object([sig.protected EXCEPT !.kept = NoText], sig.header, sig.octets)
          /\ HeaderOK(sig.protected)
      BY <2>3 DEF SetEncoded, IInv, SigOK, Object
    <3> QED
      BY <3>1 DEF IInv, SigOK, Object, HeaderOK
  <2> QED
    BY <2>1, <2>2, <2>3
<1> QED
  BY <1>1, <1>2 DEF IInv, DocumentsOK, FieldsAreSigned, AcceptedIsWellFormed, NoDocument, Document

LEMMA FieldsOfOK ==
  ASSUME NEW h, h = Nil \/ HeaderOK(h)
  PROVE  FieldsOK(FieldsOf(h)) /\ (HeaderOK(h) => FieldsOf(h) = h.fields)
  BY ZeroOK, NilIsNoHeader DEF FieldsOf, HeaderOK

\* What Marshal gives of a header is a text that is read.
LEMMA HeaderTextOK ==
  ASSUME NEW h, HeaderOK(h), HasText(h)
  PROVE  IsText(HeaderText(h)) /\ HeaderText(h) # Broken /\ HeaderText(h) # NoText
  BY WrittenIsText, TextIsNone DEF HeaderOK, HasText, HeaderText

LEMMA MarshalIInv ==
  ASSUME IInv, MarshalJSON \/ Marshal
  PROVE  IInv'
<1>1. HeaderOK(sig.protected) /\ UNCHANGED <<sig, source>>
  BY DEF MarshalJSON, Marshal, IInv, SigOK
<1>2. ASSUME HasText(sig.protected) PROVE IsDocument(WriteCompact(sig))
  BY <1>1, <1>2, HeaderTextOK DEF WriteCompact, IsDocument, Document
<1>3. ASSUME MayWriteJSON(sig) PROVE IsDocument(WriteJSON(sig))
  <2>1. IsText(HeaderText(sig.protected))
    BY <1>1, <1>3, HeaderTextOK DEF MayWriteJSON
  <2>2. IsText(WriteFields(FieldsOf(sig.header)))
    BY FieldsOfOK, WrittenIsText DEF IInv, SigOK
  <2> QED
    BY <2>1, <2>2 DEF WriteJSON, IsDocument, Document
<1>4. written' = NoDocument \/ IsDocument(written')
  BY <1>2, <1>3 DEF MarshalJSON, Marshal
<1> QED
  BY <1>1, <1>4 DEF IInv, SigOK, DocumentsOK, FieldsAreSigned, AcceptedIsWellFormed

LEMMA StepIInv == IInv /\ [Next]_vars => IInv'
<1> SUFFICES ASSUME IInv, [Next]_vars PROVE IInv'
  OBVIOUS
<1>1. CASE UNCHANGED vars
  BY <1>1 DEF vars, IInv, SigOK, DocumentsOK, FieldsAreSigned, AcceptedIsWellFormed
<1>2. ASSUME NEW setting \in Settings, NEW keyed \in BOOLEAN, Sign(setting, Nil, keyed)
      PROVE  IInv'
  BY <1>2, SignIInv
<1>3. ASSUME NEW setting \in Settings, NEW keyed \in BOOLEAN, NEW unsigned \in Settings,
             Sign(setting, [fields |-> Set(ZeroFields, unsigned), kept |-> NoText], keyed)
      PROVE  IInv'
  <2>1. HeaderOK([fields |-> Set(ZeroFields, unsigned), kept |-> NoText])
    BY ZeroOK, SetOK DEF HeaderOK
  <2> QED
    BY <1>3, <2>1, SignIInv
<1>4. ASSUME NEW d \in Received \union {written}, Read(d) PROVE IInv'
  BY <1>4, ReadIInv
<1>5. CASE \/ \E setting \in Settings : WithProtectedHeader(setting) \/ WithHeader(setting)
           \/ SetEncoded
  BY <1>5, OptionsIInv
<1>6. CASE MarshalJSON \/ Marshal
  BY <1>6, MarshalIInv
<1> QED
  BY <1>1, <1>2, <1>3, <1>4, <1>5, <1>6 DEF Next

\* The strengthening that every step keeps.
THEOREM Invariant == Spec => []IInv
  BY InitIInv, StepIInv, PTL DEF Spec

\* Each variable keeps its type: a signature has headers whose fields can be
\* written, and octets.
THEOREM Types == Spec => []TypeOK
<1>1. IInv => TypeOK
  <2> SUFFICES ASSUME IInv PROVE TypeOK
    OBVIOUS
  <2>1. \A h : HeaderOK(h) => IsHeader(h)
    BY DEF HeaderOK, IsHeader, FieldsOK, Settable, IsText
  <2> QED
    BY <2>1 DEF IInv, SigOK, DocumentsOK, TypeOK, IsDocument, NoDocument, Document
<1> QED
  BY <1>1, Invariant, PTL

\* The fields that an application reads are those of the octets that the
\* signature covers, for any documents and any sequence of calls that fail.
THEOREM SignedFields == Spec => []FieldsAreSigned
  BY Invariant, PTL DEF IInv

\* No sequence of calls accepts a document whose headers break the rules of
\* "crit", "b64", "enc" and disjoint names.
THEOREM WellFormedOnly == Spec => []AcceptedIsWellFormed
  BY Invariant, PTL DEF IInv

-----------------------------------------------------------------------------
(* What is written is read *)

\* What is written of a header is read into its fields.
LEMMA HeaderReadsBack ==
  ASSUME NEW h, HeaderOK(h), HasText(h), Agrees(h)
  PROVE  LET r == Fresh(HeaderText(h)) IN
         /\ r.ok /\ r.header # Nil
         /\ r.header.fields = h.fields /\ FieldsOf(r.header) = h.fields
<1> DEFINE text == HeaderText(h)
           r == Fresh(text)
<1>1. IsText(text) /\ text # NoText
  BY HeaderTextOK
<1>2. r.ok /\ r.header.fields = h.fields
  <2>1. CASE h.kept # NoText
    <3>1. r.header = h /\ text = h.kept
      BY <2>1 DEF Agrees, HeaderText
    <3>2. r.header.kept # NoText
      BY <2>1, <3>1
    <3> HIDE DEF text
    <3>3. r.ok
      BY <3>2 DEF Fresh, ReadHeader, ZeroHeader
    <3> QED
      BY <3>1, <3>3
  <2>2. CASE h.kept = NoText
    <3>1. text = WriteFields(h.fields) /\ Writable(h.fields) /\ FieldsOK(h.fields)
      BY <2>2 DEF HeaderText, HasText, HeaderOK
    <3>2. ReadFields(ZeroFields, text) = [fields |-> h.fields, ok |-> TRUE]
      BY <3>1, WriteThenRead
    <3> HIDE DEF text
    <3>3. r = [header |-> [fields |-> h.fields, kept |-> text], ok |-> TRUE]
      <4> DEFINE f == ReadFields(ZeroFields, text)
      <4>1. f.ok = TRUE /\ f.fields = h.fields
        BY <3>2
      <4>2. ZeroHeader.fields = ZeroFields
        BY DEF ZeroHeader
      <4>3. r = [header |-> [fields |-> f.fields, kept |-> IF f.ok THEN text ELSE ZeroHeader.kept],
                 ok |-> f.ok]
        BY <1>1, <4>2 DEF Fresh, ReadHeader
      <4> QED
        BY <4>1, <4>3
    <3> QED
      BY <3>3
  <2> QED
    BY <2>1, <2>2
<1>3. HeaderOK(r.header)
  BY <1>1, <1>2, FreshOK
<1> HIDE DEF text, r
<1>4. r.header # Nil /\ FieldsOf(r.header) = h.fields
  BY <1>2, <1>3, NilIsNoHeader DEF FieldsOf
<1> QED
  BY <1>2, <1>4 DEF text, r

\* What is written of an unprotected header is read into its fields.
LEMMA UnprotectedReadsBack ==
  ASSUME NEW object, object.header = Nil \/ HeaderOK(object.header),
         Writable(FieldsOf(object.header))
  PROVE  LET r == HeaderIn(WriteJSON(object)) IN
         r.ok /\ FieldsOf(r.header) = FieldsOf(object.header)
<1> DEFINE f == FieldsOf(object.header)
           d == WriteJSON(object)
           r == HeaderIn(d)
<1>1. FieldsOK(f) /\ Writable(f)
  BY FieldsOfOK
<1>2. d.header = IF MemberNames(f) = {} THEN Nil ELSE WriteFields(f)
  BY DEF WriteJSON, Document
<1> HIDE DEF f, d
<1>3. CASE MemberNames(f) = {}
  <2>1. f = ZeroFields
    BY <1>1, <1>3 DEF MemberNames, FieldsOK, ZeroFields
  <2> QED
    BY <1>2, <1>3, <2>1 DEF HeaderIn, FieldsOf, f, d
<1>4. CASE MemberNames(f) # {}
  <2> DEFINE text == WriteFields(f)
             g == ReadFields(ZeroFields, text)
  <2>1. IsText(text) /\ text # Broken /\ g = [fields |-> f, ok |-> TRUE]
    BY <1>1, WriteThenRead
  <2>2. text # Nil
    <3>1. DOMAIN Nil = {"header"} /\ "crit" \in Members
      BY Named DEF Nil, Members
    <3> HIDE DEF text
    <3> QED
      BY <2>1, <3>1 DEF IsText
  <2>3. d.header = text
    BY <1>2, <1>4
  <2> HIDE DEF text
  <2>4. g.ok = TRUE /\ g.fields = f
    BY <2>1
  <2> HIDE DEF g
  <2>5. r = [header |-> [fields |-> g.fields, kept |-> NoText], ok |-> g.ok]
    BY <2>2, <2>3 DEF HeaderIn, g
  <2>6. r.ok = TRUE /\ r.header = [fields |-> f, kept |-> NoText]
    BY <2>4, <2>5
  <2>7. HeaderOK(r.header) /\ r.header.fields = f
    BY <1>1, <2>6 DEF HeaderOK
  <2>8. FieldsOf(r.header) = f
    BY <2>7, NilIsNoHeader DEF FieldsOf
  <2> QED
    BY <2>6, <2>8 DEF f, d
<1> QED
  BY <1>3, <1>4

\* The first part of the object that was read or signed is its document.
LEMMA SourceIsKept ==
  ASSUME IInv, source # NoDocument, HasText(sig.protected)
  PROVE  HeaderText(sig.protected) = source.protected
<1>1. Fresh(source.protected).ok /\ sig.protected = Fresh(source.protected).header
  BY DEF IInv, FieldsAreSigned
<1>2. source.protected # NoText /\ sig.protected.kept = source.protected
  BY <1>1 DEF Fresh, ReadHeader
<1> QED
  BY <1>2 DEF HeaderText

LEMMA WrittenReadsBack == IInv /\ [Next]_vars => [ReadsBack]_vars
<1> SUFFICES ASSUME IInv, Next, written' \notin {written, NoDocument}, Agrees(sig.protected),
                    written'.form = "compact" => NotEncrypted(sig.protected)
             PROVE  LET r == Reading(NewObject, written') IN
                    /\ r.ok /\ r.object.protected.fields = sig.protected.fields
                    /\ written'.form = "json" => FieldsOf(r.object.header) = FieldsOf(sig.header)
                    /\ r.object.octets = sig.octets
                    /\ source # NoDocument => written'.protected = source.protected
  BY DEF ReadsBack
<1>1. MarshalJSON \/ Marshal
  BY DEF Next, Sign, Read, WithProtectedHeader, WithHeader, SetEncoded
<1> DEFINE p == Fresh(HeaderText(sig.protected))
<1>2. HeaderOK(sig.protected) /\ HasText(sig.protected) /\ sig.octets # Malformed
  BY <1>1 DEF IInv, SigOK, MarshalJSON, Marshal, MayWriteJSON
<1>3. /\ p.ok /\ p.header # Nil
      /\ p.header.fields = sig.protected.fields
      /\ FieldsOf(p.header) = FieldsOf(sig.protected)
  BY <1>2, HeaderReadsBack, FieldsOfOK
<1>4. source # NoDocument => HeaderText(sig.protected) = source.protected
  BY <1>2, SourceIsKept
<1> HIDE DEF p
<1>5. CASE Marshal
  <2>1. /\ written' = WriteCompact(sig) /\ written'.form = "compact"
        /\ written'.protected = HeaderText(sig.protected) /\ written'.octets = sig.octets
    BY <1>5 DEF Marshal, WriteCompact, Document
  <2>2. NotEncrypted(p.header)
    BY <1>3, <2>1 DEF NotEncrypted
  <2>3. Reading(NewObject, written') = [object |-> Object(p.header, Nil, sig.octets), ok |-> TRUE]
    BY <1>2, <1>3, <2>1, <2>2 DEF Reading, ReadCompact, NewObject, Object, p
  <2> QED
    BY <1>3, <1>4, <2>1, <2>3 DEF Object
<1>6. CASE MarshalJSON
  <2> DEFINE h == HeaderIn(WriteJSON(sig))
  <2>1. /\ written' = WriteJSON(sig) /\ written'.form = "json"
        /\ written'.protected = HeaderText(sig.protected) /\ written'.octets = sig.octets
    BY <1>6 DEF MarshalJSON, WriteJSON, Document
  <2>2. Permitted(sig.protected, sig.header)
    BY <1>6 DEF MarshalJSON, MayWriteJSON
  <2>3. h.ok /\ FieldsOf(h.header) = FieldsOf(sig.header)
    BY <2>2, UnprotectedReadsBack DEF IInv, SigOK, Permitted, Disjoint
  <2> HIDE DEF h
  <2>4. Permitted(p.header, h.header)
    BY <1>3, <2>2, <2>3 DEF Permitted, Disjoint, PayloadEncoded, NotEncrypted
  <2>5. HeaderIn(written') = h
    BY <2>1 DEF h
  <2>6. Reading(NewObject, written') = [object |-> Object(p.header, h.header, sig.octets), ok |-> TRUE]
    BY <1>2, <1>3, <2>1, <2>3, <2>4, <2>5 DEF Reading, ReadJSON, p
  <2> QED
    BY <1>3, <1>4, <2>1, <2>3, <2>6 DEF Object
<1> QED
  BY <1>1, <1>5, <1>6

\* Every serialization that is written is one that is read, with the headers of
\* the writer and the octets that were signed.
THEOREM WrittenIsRead == Spec => RoundTrip
  BY Invariant, WrittenReadsBack, PTL DEF Spec, RoundTrip
=============================================================================
