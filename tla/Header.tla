------------------------------- MODULE Header -------------------------------
(***************************************************************************)
(* The JOSE header (header/header.go): how a document is read into a       *)
(* Header and how a Header is written, with the rules for "crit" and       *)
(* "b64".  A document gives each member Absent, Empty (the member is there *)
(* and its value is "", null, 0 or []) or a value; a Header holds a value  *)
(* or None, and the octets that it was read from or NoText.                *)
(***************************************************************************)
EXTENDS Integers, SequencesExt

CONSTANTS
  None,         (* a field with the zero value                             *)
  Absent,       (* a member that is not in the document                    *)
  Empty         (* a member with an empty value                            *)

ASSUME HeaderAssumption ==
  /\ None \notin {Absent, Empty}
  /\ {None, Absent} \intersect {"unknown", "wrapper", "malformed", "private"} = {}

\* A text is a function of the members.  These two are none: no octets, and
\* octets that json.Unmarshal rejects (no object, a name twice, a value of
\* another type, a malformed JWK).
NoText == [octets |-> "none"]
Broken == [octets |-> "broken"]

\* The order in which UnmarshalJSON assigns, after the two of "crit".
Order ==
  << {"b64", "crit"}, {"alg"}, {"typ", "cty"}, {"jku"}, {"jwk", "kid"}, {"x5u"},
     {"x5c", "x5t", "x5t#S256"}, {"enc"}, {"zip"}, {"epk"}, {"p2c"},
     {"apu"}, {"apv"}, {"iv"}, {"tag"}, {"p2s"} >>

Parameters == UNION ToSet(Order)

Position == [name \in Parameters |-> CHOOSE i \in DOMAIN Order : name \in Order[i]]

\* Members that this package does not know are one more member.
Members == Parameters \union {"other"}

\* A parameter that the document does not give leaves these fields alone.
Kept == {"alg", "jku", "x5u", "enc"}

Octets == {"apu", "apv", "iv", "tag", "p2s"}

\* What stops UnmarshalJSON at a parameter: an algorithm that jwa does not
\* supply or that does not encrypt content, a URL or octets that do not parse,
\* a private ephemeral key.
Unusable(name, value) ==
  \/ name \in {"alg", "enc"} /\ value = "unknown"
  \/ name = "enc" /\ value = "wrapper"
  \/ name \in {"jku", "x5u"} \union Octets /\ value = "malformed"
  \/ name = "epk" /\ value = "private"

\* A JWK of a type that this package does not read has no material: it can be
\* read and not written.
Unwritable(name, value) == name \in {"jwk", "epk"} /\ value = "opaque"

\* What "crit" can be.
Lists == Seq(STRING) \ {<<>>}

\* What a field can be set to.
Settable(name, value) ==
  /\ value \notin {Absent, Empty}
  /\ ~Unusable(name, value)
  /\ name = "crit" => value \in {None} \union Lists

\* What a document can be: "crit" is no member, an empty value or a list.
IsText(text) ==
  text = Broken \/ (/\ DOMAIN text = Members
                    /\ text["crit"] \in {None, Absent, Empty} \union Lists)

ZeroFields == [name \in Parameters |-> None]
ZeroHeader == [fields |-> ZeroFields, kept |-> NoText]

Given(value) == value \notin {Absent, Empty, None}

\* checkCritical.
CriticalAgrees_PresentOnly(crit, b64) == ~Given(crit) \/ Given(b64)

CriticalAgrees(crit, b64) ==
  LET named == IF Given(crit) THEN crit ELSE <<>>
  IN /\ ToSet(named) \subseteq {"b64"}
     /\ Len(named) <= 1
     /\ named # <<>> => Given(b64)
     /\ Given(b64) => b64 = TRUE /\ named # <<>>

\* The step at which UnmarshalJSON stops, or one past the last.
Stop(document) ==
  LET stops == {Position[name] : name \in {n \in Parameters : Unusable(n, document[n])}}
  IN IF stops = {} THEN Len(Order) + 1 ELSE CHOOSE i \in stops : \A j \in stops : i <= j

Value_Present(name, old, value) ==
  IF value # Absent THEN value ELSE IF name \in Kept THEN old ELSE None
Value(name, old, value) ==
  IF Given(value) THEN value ELSE IF name \in Kept THEN old ELSE None

\* UnmarshalJSON on a Header with these fields: an error of the decoder or of
\* "crit" leaves them alone, a later one leaves what was assigned before it.
ReadFields(old, document) ==
  IF document = Broken THEN [fields |-> old, ok |-> FALSE]
  ELSE IF ~CriticalAgrees(document["crit"], document["b64"]) THEN [fields |-> old, ok |-> FALSE]
  ELSE LET stop == Stop(document) IN
    [fields |-> [name \in Parameters |->
                   IF Position[name] < stop
                     THEN Value(name, old[name], document[name]) ELSE old[name]],
     ok |-> stop > Len(Order)]

\* Unmarshal: the octets are kept only when all of them were read.
ReadHeader(header, text) ==
  LET r == IF text = NoText THEN [fields |-> header.fields, ok |-> FALSE]
           ELSE ReadFields(header.fields, text)
  IN [header |-> [fields |-> r.fields, kept |-> IF r.ok THEN text ELSE header.kept],
      ok |-> r.ok]

\* raw and the encoder: no error, and the members that it then writes.
Writable(fields) ==
  /\ CriticalAgrees(fields["crit"], fields["b64"])
  /\ \A name \in Parameters : ~Unwritable(name, fields[name])

WriteFields_NoType(fields) ==
  [name \in Members |-> IF name \in Parameters \ {"typ"} /\ fields[name] # None
                        THEN fields[name] ELSE Absent]
WriteFields(fields) ==
  [name \in Members |-> IF name \in Parameters /\ fields[name] # None
                        THEN fields[name] ELSE Absent]

\* Marshal: the kept octets come before the fields.
HasText(header) == header.kept # NoText \/ Writable(header.fields)
HeaderText(header) == IF header.kept # NoText THEN header.kept ELSE WriteFields(header.fields)

\* Members, of a header whose fields can be written.
MemberNames(fields) == {name \in Parameters : fields[name] # None}
=============================================================================
