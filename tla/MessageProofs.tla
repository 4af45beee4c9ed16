--------------------------- MODULE MessageProofs ---------------------------
(***************************************************************************)
(* Proofs about Message, for any keys, headers, plaintexts and documents   *)
(* of others and any number of encryptions: protected parameters hold, the *)
(* two ways to decrypt agree when no plaintext is given as nil, and what a *)
(* caller that is not careless encrypts decrypts.                          *)
(***************************************************************************)
EXTENDS Message, SequenceTheorems, WellFoundedInduction, TLAPS

-----------------------------------------------------------------------------
(* The inductive invariants *)

HasFields(msg) ==
  msg = [prot |-> msg.prot, text |-> msg.text, shared |-> msg.shared,
         recipients |-> msg.recipients, aad |-> msg.aad, body |-> msg.body,
         heads |-> msg.heads]

IsRecipient(r) == r.head \in Heads \union {None} /\ HasParameters(r.own)

\* What holds for every caller.
IsMessage(msg) ==
  /\ HasFields(msg)
  /\ IsProtected(msg.prot)
  /\ msg.text # NoText => IsProtected(msg.text)
  /\ IsSeq(msg.recipients)
  /\ \A i \in DOMAIN msg.recipients : IsRecipient(msg.recipients[i])
  /\ HasParameters(msg.shared)
  /\ \A h \in Heads : DOMAIN msg.heads[h] = DOMAIN NoParameters
  /\ msg.body # NoBody => msg.text # NoText
  /\ msg.body.plaintext \in Plaintexts \union {None}

IInv ==
  /\ IsMessage(m)
  /\ written # NoDocument => IsDocument(written)
  /\ count \in 0..MaxEncryptions
  /\ sent.keys \subseteq Keys

-----------------------------------------------------------------------------
(* Sequences *)

LEMMA LenOf ==
  ASSUME NEW n \in Nat, NEW f, f = [i \in 1..n |-> f[i]]
  PROVE  Len(f) = n
<1> DEFINE S == {f[i] : i \in 1..n}
<1>1. f \in Seq(S)
  BY SeqDef
<1>2. Len(f) \in Nat /\ DOMAIN f = 1..Len(f)
  BY <1>1, LenProperties
<1> HIDE DEF S
<1> QED
  BY <1>2

LEMMA LeastExists ==
  ASSUME NEW T, T \subseteq Nat, T # {}
  PROVE  \E i \in T : \A j \in T : i <= j
<1> DEFINE R == OpToRel(<, Nat)
<1>1. PICK i \in T : \A j \in T : <<j, i>> \notin R
  BY NatLessThanWellFounded, WFMin
<1>2. \A j \in T : ~(j < i)
  BY <1>1 DEF OpToRel
<1> HIDE DEF R
<1>3. \A j \in T : i <= j
  BY <1>2
<1> QED
  BY <1>3

LEMMA RecipientsSeq ==
  ASSUME NEW rks \in Recipients
  PROVE  /\ IsSeq(rks) /\ Len(rks) \in Nat /\ DOMAIN rks = 1..Len(rks)
         /\ \A i \in DOMAIN rks : rks[i] \in RecipientKeys
         /\ Len(rks) = 0 <=> rks = <<>>
<1>1. PICK n \in 0..MaxRecipients : rks \in [1..n -> RecipientKeys]
  BY DEF Recipients
<1>2. n \in Nat
  BY <1>1, MessageAssumption
<1>3. Len(rks) = n /\ DOMAIN rks = 1..n
  BY <1>1, <1>2
<1>4. n = 0 <=> rks = <<>>
  BY <1>1, <1>2, <1>3
<1> QED
  BY <1>1, <1>2, <1>3, <1>4 DEF IsSeq

-----------------------------------------------------------------------------
(* Types *)

LEMMA FreshMessage ==
  ASSUME NEW prot, IsProtected(prot), NEW text, text # NoText => IsProtected(text),
         NEW shared, HasParameters(shared), NEW recipients, IsSeq(recipients),
         \A i \in DOMAIN recipients : IsRecipient(recipients[i]),
         NEW aad, NEW body, body # NoBody => text # NoText,
         body.plaintext \in Plaintexts \union {None}
  PROVE  IsMessage(Created(prot, text, shared, recipients, aad, body))
BY DEF IsMessage, HasFields, Created

LEMMA ProtectedHeaders ==
  ASSUME NEW alg \in Algorithms \union {None}, NEW enc, NEW parameters,
         DOMAIN parameters = DOMAIN NoParameters
  PROVE  IsProtected([Protected(alg, enc, "none") EXCEPT !.parameters = parameters])
BY DEF IsProtected, Protected, NoText, NoParameters, HasParameters

\* What encryption writes.
LEMMA ForOneOK ==
  ASSUME NEW msg, IsMessage(msg), NEW rk \in RecipientKeys, NEW n \in Nat
  PROVE  IsMessage(ForOne(msg, rk, n).msg)
<1> DEFINE e == ForOne(msg, rk, n).msg
           alg == AlgOf(msg, rk)
<1>1. /\ e.text = msg.text /\ e.shared = msg.shared /\ e.aad = msg.aad /\ e.body = msg.body
      /\ e.heads = msg.heads
      /\ e.prot = [msg.prot EXCEPT !.parameters = With(@, alg, <<n, 1>>)]
      /\ Len(e.recipients) = 1 /\ e.recipients = <<e.recipients[1]>>
      /\ e.recipients[1].head = rk.head /\ e.recipients[1].own = NoHeader
      /\ DOMAIN e = DOMAIN msg
  BY DEF ForOne, IsMessage, HasFields
<1>2. IsProtected(e.prot)
  <2>1. \A prot, parameters :
          IsProtected(prot) /\ DOMAIN parameters = DOMAIN NoParameters
            => IsProtected([prot EXCEPT !.parameters = parameters])
    BY DEF IsProtected, HasParameters
  <2>2. DOMAIN With(msg.prot.parameters, alg, <<n, 1>>) = DOMAIN NoParameters
    BY DEF With, IsMessage, IsProtected, HasParameters
  <2> QED
    BY <1>1, <2>1, <2>2 DEF IsMessage
<1>3. IsSeq(e.recipients) /\ \A i \in DOMAIN e.recipients : IsRecipient(e.recipients[i])
  BY <1>1 DEF IsSeq, RecipientKeys, IsRecipient, HasParameters, NoHeader, Header
<1>4. HasFields(e)
  BY DEF ForOne, IsMessage, HasFields
<1> QED
  BY <1>1, <1>2, <1>3, <1>4 DEF IsMessage

LEMMA HeadsWrittenOK ==
  ASSUME NEW msg, IsMessage(msg), NEW rks, NEW n, NEW last, NEW h \in Heads
  PROVE  DOMAIN HeadsWritten(msg, rks, n, last)[h] = DOMAIN NoParameters
BY DEF HeadsWritten, With, IsMessage, IsProtected, HasParameters

LEMMA ForEachOK ==
  ASSUME NEW msg, IsMessage(msg), NEW rks \in Recipients, NEW n \in Nat
  PROVE  IsMessage(ForEach(msg, rks, n).msg)
<1> DEFINE e == ForEach(msg, rks, n).msg
           alg(i) == AlgOf(msg, rks[i])
<1>1. /\ e.text = msg.text /\ e.shared = msg.shared /\ e.aad = msg.aad /\ e.body = msg.body
      /\ e.prot = msg.prot /\ e.heads = HeadsWritten(msg, rks, n, Len(rks))
      /\ e.recipients = [i \in DOMAIN rks |-> e.recipients[i]]
      /\ \A i \in DOMAIN rks :
           /\ e.recipients[i].head = rks[i].head
           /\ e.recipients[i].own \in
                {NoHeader, Header(None, With(msg.prot.parameters, alg(i), <<n, i>>))}
  BY DEF ForEach, IsMessage, HasFields
<1>2. IsSeq(e.recipients)
  BY <1>1, RecipientsSeq, LenOf DEF IsSeq
<1>3. \A i \in DOMAIN e.recipients : IsRecipient(e.recipients[i])
  <2>1. HasParameters(NoHeader)
    BY DEF HasParameters, NoHeader, Header
  <2>2. \A i : HasParameters(Header(None, With(msg.prot.parameters, alg(i), <<n, i>>)))
    BY DEF HasParameters, Header, With, IsMessage, IsProtected
  <2> HIDE DEF e, alg
  <2>3. DOMAIN e.recipients = DOMAIN rks
    BY <1>1
  <2>4. \A i \in DOMAIN rks : rks[i].head \in Heads \union {None}
    BY RecipientsSeq DEF RecipientKeys
  <2>5. \A i \in DOMAIN rks : HasParameters(e.recipients[i].own)
    BY <1>1, <2>1, <2>2
  <2> QED
    BY <1>1, <2>3, <2>4, <2>5 DEF IsRecipient
<1>4. HasFields(e)
  BY DEF ForEach, IsMessage, HasFields
<1> QED
  BY <1>1, <1>2, <1>3, <1>4, HeadsWrittenOK DEF IsMessage

LEMMA SealedOK ==
  ASSUME NEW msg, IsMessage(msg), NEW plaintext \in Plaintexts, NEW cek
  PROVE  IsMessage(Sealed(msg, plaintext, cek))
<1> DEFINE e == Sealed(msg, plaintext, cek)
<1>1. /\ e.text = Text(msg) /\ e.body.plaintext = plaintext
      /\ e.prot = msg.prot /\ e.recipients = msg.recipients
      /\ e.shared = msg.shared /\ e.heads = msg.heads
  BY DEF Sealed, IsMessage, HasFields
<1>2. IsProtected(Text(msg))
  BY DEF Text, IsMessage
<1>3. HasFields(e)
  <2>1. \A text : HasFields([msg EXCEPT !.text = text])
    BY DEF IsMessage, HasFields
  <2>2. \A x, body : HasFields(x) => HasFields([x EXCEPT !.body = body])
    BY DEF HasFields
  <2> QED
    BY <2>1, <2>2 DEF Sealed
<1>4. e.text # NoText
  BY <1>1, <1>2 DEF IsProtected
<1>5. IsSeq(e.recipients)
      /\ \A i \in DOMAIN e.recipients : IsRecipient(e.recipients[i])
  BY <1>1 DEF IsMessage
<1>6. /\ IsProtected(e.prot) /\ IsProtected(e.text) /\ e.body.plaintext \in Plaintexts
      /\ HasParameters(e.shared) /\ \A h \in Heads : DOMAIN e.heads[h] = DOMAIN NoParameters
  BY <1>1, <1>2 DEF IsMessage
<1> HIDE DEF e
<1>7. IsMessage(e)
  BY <1>3, <1>4, <1>5, <1>6 DEF IsMessage
<1> QED
  BY <1>7 DEF e

LEMMA EncryptedOK ==
  ASSUME NEW msg, IsMessage(msg), NEW plaintext \in Plaintexts, NEW rks \in Recipients,
         NEW n \in Nat
  PROVE  IsMessage(Encrypted(msg, plaintext, rks, n).msg)
<1> DEFINE several == Len(rks) > 1
           e == IF several THEN ForEach(msg, rks, n) ELSE ForOne(msg, rks[1], n)
<1>1. CASE rks = <<>>
  BY <1>1 DEF Encrypted
<1>2. CASE rks # <<>>
  <2>1. IsMessage(e.msg)
    <3>1. 1 \in DOMAIN rks
      BY <1>2, RecipientsSeq DEF IsSeq
    <3> QED
      BY <3>1, ForOneOK, ForEachOK, RecipientsSeq
  <2>2. IsMessage(Sealed(e.msg, plaintext, e.cek))
    BY <2>1, SealedOK
  <2>3. \A last : IsMessage([msg EXCEPT !.heads = HeadsWritten(msg, rks, n, last)])
    <3>1. \A heads :
            (\A h \in Heads : DOMAIN heads[h] = DOMAIN NoParameters)
              => IsMessage([msg EXCEPT !.heads = heads])
      BY DEF IsMessage, HasFields
    <3> QED
      BY <3>1, HeadsWrittenOK
  <2> HIDE DEF e
  <2>4. \/ Encrypted(msg, plaintext, rks, n).msg \in {msg, e.msg, Sealed(e.msg, plaintext, e.cek)}
        \/ \E last : Encrypted(msg, plaintext, rks, n).msg
                       = [msg EXCEPT !.heads = HeadsWritten(msg, rks, n, last)]
    <3>1. [msg EXCEPT !.heads = msg.heads] = msg
      BY DEF IsMessage, HasFields
    <3> QED
      BY <3>1 DEF Encrypted, e
  <2> QED
    BY <2>1, <2>2, <2>3, <2>4
<1> QED
  BY <1>1, <1>2

LEMMA LoadedOK ==
  ASSUME NEW d, IsDocument(d)
  PROVE  IsMessage(Loaded(d))
<1> DEFINE rs == [i \in DOMAIN d.recipients |->
                    [head |-> None, own |-> d.recipients[i].own, box |-> d.recipients[i].box,
                     supported |-> d.recipients[i].supported]]
<1>1. IsSeq(rs) /\ \A i \in DOMAIN rs : IsRecipient(rs[i])
  BY LenOf DEF IsDocument, IsSeq, IsRecipient, HasParameters
<1>2. d.prot # NoText
  BY DEF IsDocument, IsProtected
<1> QED
  BY <1>1, <1>2, FreshMessage DEF Loaded, IsDocument

LEMMA DocumentOK ==
  ASSUME NEW msg, IsMessage(msg), msg.recipients # <<>>, NEW json
  PROVE  IsDocument(Document(msg, json))
<1> DEFINE d == Document(msg, json)
<1>1. IsProtected(d.prot) /\ d.body.plaintext \in Plaintexts \union {None}
  BY DEF Document, Text, IsMessage
<1>2. IsSeq(d.recipients) /\ Len(d.recipients) = Len(msg.recipients)
  BY LenOf DEF Document, IsSeq, IsMessage
<1>3. d.recipients # <<>>
  BY <1>2 DEF IsMessage, IsSeq
<1>4. \A i \in DOMAIN msg.recipients : HasParameters(HeaderOf(msg, msg.recipients[i]))
  BY DEF HeaderOf, HasParameters, Header, IsMessage, IsRecipient
<1>5. HasParameters(NoHeader)
  BY DEF HasParameters, NoHeader, Header
<1>6. HasParameters(d.shared) /\ \A i \in DOMAIN d.recipients : HasParameters(d.recipients[i].own)
  BY <1>4, <1>5 DEF Document, WrittenRecipient, IsMessage
<1> QED
  BY <1>1, <1>2, <1>3, <1>6 DEF IsDocument

LEMMA Invariance == Spec => []IInv
<1>1. Init => IInv
  <2> SUFFICES ASSUME Init PROVE IInv
    OBVIOUS
  <2>1. IsProtected(ZeroHeader)
    BY ProtectedHeaders DEF ZeroHeader, Protected, IsProtected, NoText
  <2>2. IsSeq(<<>>) /\ DOMAIN <<>> = {} /\ NoBody.plaintext = None
    BY DEF IsSeq, NoBody
  <2>3. IsMessage(Created(ZeroHeader, NoText, NoHeader, <<>>, None, NoBody))
    BY <2>1, <2>2, FreshMessage DEF HasParameters, NoHeader, Header
  <2>4. sent.keys \subseteq Keys
    BY DEF Init, Nobody
  <2> QED
    BY <2>3, <2>4, MessageAssumption DEF Init, IInv
<1>2. IInv /\ [Next]_vars => IInv'
  <2> SUFFICES ASSUME IInv, [Next]_vars PROVE IInv'
    OBVIOUS
  <2>1. ASSUME NEW alg \in Algorithms \union {None}, NEW shared \in Algorithms \union {None},
               NEW aad \in Aads, NEW party, New(alg, shared, party, aad)
        PROVE  IInv'
    <3>1. IsProtected([Protected(alg, TRUE, "none") EXCEPT
                         !.parameters = CallerParameters(party = "protected")])
      BY ProtectedHeaders DEF CallerParameters, NoParameters
    <3>2. IsSeq(<<>>) /\ DOMAIN <<>> = {} /\ NoBody.plaintext = None
      BY DEF IsSeq, NoBody
    <3>3. IsMessage(Created([Protected(alg, TRUE, "none") EXCEPT
                              !.parameters = CallerParameters(party = "protected")],
                            NoText, Header(shared, CallerParameters(party = "shared")), <<>>, aad,
                            NoBody))
      BY <3>1, <3>2, FreshMessage DEF HasParameters, Header, CallerParameters, NoParameters
    <3>4. \A msg, heads :
            /\ IsMessage(msg)
            /\ \A h \in Heads : DOMAIN heads[h] = DOMAIN NoParameters
            => IsMessage([msg EXCEPT !.heads = heads])
      BY DEF IsMessage, HasFields
    <3>5. IsMessage(m')
      BY <2>1, <3>3, <3>4 DEF New, CallerParameters, NoParameters
    <3> QED
      BY <2>1, <3>5, MessageAssumption DEF New, IInv, Nobody
  <2>2. ASSUME NEW plaintext \in Plaintexts, NEW rks \in Recipients, EncryptTo(plaintext, rks)
        PROVE  IInv'
    <3>1. IsMessage(m')
      BY <2>2, EncryptedOK DEF EncryptTo, IInv
    <3>2. sent'.keys \subseteq Keys
      BY <2>2, RecipientsSeq DEF EncryptTo, Nobody, RecipientKeys
    <3> QED
      BY <2>2, <3>1, <3>2, MessageAssumption DEF EncryptTo, IInv
  <2>3. ASSUME NEW json \in BOOLEAN, Marshal(json)
        PROVE  IInv'
    BY <2>3, DocumentOK DEF Marshal, IInv
  <2>4. ASSUME NEW d \in (Received \union {written}) \ {NoDocument}, Unmarshal(d)
        PROVE  IInv'
    <3>1. IsDocument(d)
      BY PartiesAssumption DEF IInv
    <3> QED
      BY <2>4, <3>1, LoadedOK, MessageAssumption DEF Unmarshal, IInv, Nobody
  <2>5. CASE UNCHANGED vars
    BY <2>5 DEF IInv, vars
  <2> QED
    BY <2>1, <2>2, <2>3, <2>4, <2>5 DEF Next
<1> QED
  BY <1>1, <1>2, PTL DEF Spec

\* A message keeps the octets of its protected header once it was encrypted or
\* read, and every part of it its type, after any calls that fail.
THEOREM Types == Spec => []TypeOK
<1>1. IInv => TypeOK
  BY DEF IInv, TypeOK, IsMessage, IsProtected, IsDocument, IsRecipient
<1> QED
  BY <1>1, Invariance, PTL
-----------------------------------------------------------------------------
(* Protected parameters *)

\* A name that two headers would have is in none of them.
LEMMA NotInTwo ==
  ASSUME NEW msg, HeadersDisjoint(msg), NEW i \in DOMAIN msg.recipients,
         DOMAIN msg.prot.parameters = DOMAIN NoParameters,
         NEW name \in DOMAIN NoParameters, msg.prot.parameters[name] # Unset
  PROVE  LET own == HeaderOf(msg, msg.recipients[i]).parameters IN
         /\ name \in DOMAIN msg.shared.parameters => msg.shared.parameters[name] = Unset
         /\ name \in DOMAIN own => own[name] = Unset
BY DEF HeadersDisjoint, Members

\* A value that the tag protects is the value that a key is decrypted with, for
\* any message that anyone sends.
THEOREM ProtectedValues == Spec => []ProtectedParametersHold
<1>1. IInv => ProtectedParametersHold
  <2> SUFFICES ASSUME IInv, NEW key \in Keys, NEW i \in DOMAIN m.recipients,
                      Decrypt(m, key).err = "none",
                      NEW name \in DOMAIN Parameters(m, m.recipients[i]),
                      m.prot.parameters[name] # Unset
               PROVE  Parameters(m, m.recipients[i])[name] = m.prot.parameters[name]
    BY DEF ProtectedParametersHold
  <2>1. HeadersDisjoint(m)
    BY DEF Decrypt, PrepareError, Failure, Result
  <2>2. DOMAIN m.prot.parameters = DOMAIN NoParameters
    BY DEF IInv, IsMessage, IsProtected, HasParameters
  <2>3. name \in DOMAIN NoParameters
    BY <2>2 DEF Parameters, Merged
  <2>4. DOMAIN HeaderOf(m, m.recipients[i]).parameters = DOMAIN NoParameters
    BY DEF IInv, IsMessage, IsRecipient, HeaderOf, HasParameters, Header
  <2>5. DOMAIN m.shared.parameters = DOMAIN NoParameters
    BY DEF IInv, IsMessage, HasParameters
  <2> QED
    BY <2>1, <2>2, <2>3, <2>4, <2>5, NotInTwo DEF Parameters, Merged
<1> QED
  BY <1>1, Invariance, PTL
-----------------------------------------------------------------------------
(* The two ways to decrypt *)

\* When no recipient opens a message, the last one failed last.
LEMMA AllFail ==
  ASSUME NEW n \in Nat \ {0}
  PROVE  Max(1..n) = n
<1>1. \A x \in 1..n : (\A y \in 1..n : x >= y) <=> x = n
  OBVIOUS
<1> QED
  BY <1>1 DEF Max

\* Decrypt and DecryptAll give the same of every message, for each caller whose
\* content encryption gives no plaintext as nil.
THEOREM DecryptAllIsDecrypt ==
  ASSUME Nil = {}
  PROVE  Spec => []DecryptAllAgrees
<1>1. IInv => DecryptAllAgrees
  <2> SUFFICES ASSUME IInv, NEW key \in Keys
               PROVE  DecryptAll(m, key) = Decrypt(m, key)
    BY DEF DecryptAllAgrees
  <2> DEFINE results == Opened(m, key)
             good == {i \in DOMAIN results : results[i].err = "none"}
             notNil == {i \in DOMAIN results :
                          results[i].err = "none"
                          /\ ~(m.prot.zip = "none" /\ results[i].plaintext \in Nil)}
             bad == {i \in DOMAIN results : results[i].err # "none"}
  <2>1. good = notNil
    OBVIOUS
  <2>2. CASE PrepareError(m) # "none"
    BY <2>2 DEF Decrypt, DecryptAll
  <2>3. CASE PrepareError(m) = "none" /\ good = {}
    <3>1. /\ Len(m.recipients) \in Nat \ {0}
          /\ results = [i \in 1..Len(m.recipients) |-> results[i]]
      BY <2>3 DEF PrepareError, IInv, IsMessage, IsSeq, Opened
    <3>2. Len(results) = Len(m.recipients)
      BY <3>1, LenOf
    <3>3. bad = 1..Len(results) /\ bad # {}
      <4>1. bad = DOMAIN results
        BY <2>3
      <4>2. DOMAIN results = 1..Len(results)
        BY <3>1, <3>2
      <4>3. 1 \in 1..Len(results)
        BY <3>1, <3>2
      <4> HIDE DEF results, bad
      <4> QED
        BY <4>1, <4>2, <4>3
    <3>4. Max(bad) = Len(results)
      BY <3>1, <3>2, <3>3, AllFail
    <3>5. results[Max(bad)] = Last(results)
      BY <3>4 DEF Last
    <3> HIDE DEF results
    <3> QED
      BY <2>1, <2>3, <3>3, <3>5 DEF Decrypt, DecryptAll, results
  <2>4. CASE PrepareError(m) = "none" /\ good # {}
    BY <2>1, <2>4 DEF Decrypt, DecryptAll
  <2> QED
    BY <2>2, <2>3, <2>4
<1> QED
  BY <1>1, Invariance, PTL
-----------------------------------------------------------------------------
(* What is encrypted decrypts *)

\* A message before EncryptTo succeeds: only a failed call left parameters in it,
\* and "apu" is nowhere but in the protected header and in copies of it.
Encryptable(msg) ==
  /\ msg.aad # "empty"
  /\ msg.shared.parameters = NoParameters
  /\ \A h \in Heads : msg.heads[h]["apu"] \in {Unset, msg.prot.parameters["apu"]}

CanOpen(msg, key) ==
  /\ PrepareError(msg) = "none" /\ msg.prot.zip = "none"
  /\ \E i \in DOMAIN msg.recipients : Open(msg, msg.recipients[i], key).err = "none"

\* A message after it: each key opens it, and it is written as it is.
Sound(msg, to) ==
  /\ msg.text = msg.prot /\ msg.aad # "empty"
  /\ \A i \in DOMAIN msg.recipients : msg.recipients[i].supported
  /\ msg.body.plaintext = to.plaintext
  /\ \A key \in to.keys : CanOpen(msg, key)

SInv ==
  /\ m.text = NoText => sent = Nobody /\ Encryptable(m)
  /\ sent # Nobody => Sound(m, sent)
  /\ written # NoDocument =>
       \E json \in BOOLEAN : (json \/ Compactable(m)) /\ written = Document(m, json)

\* A recipient opens a message whose values are those of its headers.
Matches(msg, r, key) ==
  LET alg == KeyManagement(msg, HeaderOf(msg, r))
      p == Parameters(msg, r)
      cek == msg.body.cek
  IN \/ alg = "dir" /\ r.box = EmptyBox /\ cek = CEK(key, Unset, Unset)
     \/ alg = "es" /\ r.box = EmptyBox /\ p["epk"] # Unset /\ cek = CEK(key, p["epk"], p["apu"])
     \/ alg = "kw" /\ r.box = Box(cek, key, Unset, Unset)
     \/ alg = "gcm" /\ p["iv"] # Unset /\ r.box = Box(cek, key, p["iv"], Unset)
     \/ alg = "eskw" /\ p["epk"] # Unset /\ r.box = Box(cek, key, p["epk"], p["apu"])

LEMMA MatchingOpens ==
  ASSUME NEW msg, NEW r, NEW key, r.supported, Matches(msg, r, key),
         KeyManagement(msg, HeaderOf(msg, r)) \in Fits[key] \ {None},
         msg.body # NoBody, msg.body.covers = Covered(Text(msg), msg.aad)
  PROVE  Open(msg, r, key).err = "none"
<1> DEFINE alg == KeyManagement(msg, HeaderOf(msg, r))
           p == Parameters(msg, r)
<1>1. msg.body.cek \in DecryptKey(alg, r.box, key, p)
  <2>0. ASSUME NEW cek, NEW value, NEW apu, r.box = Box(cek, key, value, apu)
        PROVE  cek \in {b.cek : b \in {r.box} \intersect {Box(r.box.cek, key, value, apu)}}
    <3>1. r.box.cek = cek
      BY <2>0 DEF Box
    <3>2. r.box \in {r.box} \intersect {Box(r.box.cek, key, value, apu)}
      BY <2>0, <3>1
    <3> QED
      BY <3>1, <3>2
  <2>1. CASE alg = "dir"
    BY <2>1 DEF Matches, DecryptKey
  <2>2. CASE alg = "es"
    BY <2>2 DEF Matches, DecryptKey
  <2>3. CASE alg = "kw"
    BY <2>0, <2>3 DEF Matches, DecryptKey
  <2>4. CASE alg = "gcm"
    BY <2>0, <2>4 DEF Matches, DecryptKey
  <2>5. CASE alg = "eskw"
    BY <2>0, <2>5 DEF Matches, DecryptKey
  <2> QED
    BY <2>1, <2>2, <2>3, <2>4, <2>5 DEF Matches
<1>2. alg \in Agreements => p["epk"] # Unset
  BY DEF Matches, Agreements
<1> QED
  BY <1>1, <1>2 DEF Open, Result

\* Every recipient that opens a message gives its plaintext.
LEMMA OpenedGives ==
  ASSUME NEW msg, IsSeq(msg.recipients), NEW key, CanOpen(msg, key)
  PROVE  Decrypt(msg, key) = Result("none", msg.body.plaintext)
<1> DEFINE results == Opened(msg, key)
           good == {i \in DOMAIN results : results[i].err = "none"}
<1>1. DOMAIN results = DOMAIN msg.recipients
      /\ \A i \in DOMAIN results : results[i] = Open(msg, msg.recipients[i], key)
  BY DEF Opened
<1>2. good # {}
  BY <1>1 DEF CanOpen
<1>3. \A r : Open(msg, r, key).err = "none" => Open(msg, r, key).plaintext = msg.body.plaintext
  BY DEF Open, Failure, Result
<1>4. \A i \in good : results[i].plaintext = msg.body.plaintext
  BY <1>1, <1>3
<1>5. \E i \in good : \A j \in good : i <= j
  <2>1. good \subseteq Nat
    BY <1>1 DEF IsSeq
  <2> QED
    BY <1>2, <2>1, LeastExists
<1>6. (CHOOSE i \in good : \A j \in good : i <= j) \in good
  BY <1>5
<1> QED
  BY <1>2, <1>4, <1>6 DEF Decrypt, CanOpen, Decompressed

\* The parameters that a recipient is given are those of the protected header,
\* with those of its own header before them.
LEMMA Lookup ==
  ASSUME NEW msg, IsMessage(msg), msg.shared.parameters = NoParameters,
         NEW r, IsRecipient(r), NEW name \in DOMAIN NoParameters
  PROVE  LET own == HeaderOf(msg, r).parameters IN
         Parameters(msg, r)[name] =
           IF own[name] = Unset THEN msg.prot.parameters[name] ELSE own[name]
BY DEF Parameters, Merged, IsMessage, IsProtected, HasParameters, NoParameters

\* EncryptTo for one recipient: the parameters are in the protected header, thus
\* its own header has none of them.
LEMMA OneMatches ==
  ASSUME NEW msg, IsMessage(msg), Encryptable(msg),
         NEW rk \in RecipientKeys, NEW n \in Nat \ {0}, NEW plaintext \in Plaintexts,
         RecipientError(msg, rk, FALSE) = "none",
         HeadersDisjoint(ForOne(msg, rk, n).msg)
  PROVE  LET e == ForOne(msg, rk, n)
             sealed == Sealed(e.msg, plaintext, e.cek)
         IN /\ Matches(sealed, sealed.recipients[1], rk.key)
            /\ KeyManagement(sealed, HeaderOf(sealed, sealed.recipients[1]))
                 \in Fits[rk.key] \ {None}
<1> DEFINE e == ForOne(msg, rk, n)
           sealed == Sealed(e.msg, plaintext, e.cek)
           alg == AlgOf(msg, rk)
           r == sealed.recipients[1]
           own == HeaderOf(sealed, r)
           p == Parameters(sealed, r)
<1>1. /\ e.msg.recipients = <<r>> /\ r.head = rk.head /\ r.own = NoHeader
      /\ r.box = BoxFor(msg, alg, e.cek, rk.key, n, 1)
      /\ sealed.recipients = e.msg.recipients
      /\ sealed.prot = e.msg.prot /\ sealed.shared = msg.shared /\ sealed.heads = msg.heads
      /\ e.msg.shared = msg.shared /\ e.msg.heads = msg.heads
      /\ e.msg.prot = [msg.prot EXCEPT !.parameters = With(@, alg, <<n, 1>>)]
      /\ sealed.body.cek = e.cek /\ e.cek = CEKForOne(msg, alg, rk.key, n)
  BY DEF Sealed, ForOne, IsMessage, HasFields
<1> HIDE DEF sealed, e
<1>2. sealed.prot.alg = msg.prot.alg
      /\ sealed.prot.parameters = With(msg.prot.parameters, alg, <<n, 1>>)
  BY <1>1 DEF IsMessage, IsProtected
<1>3. own = IF rk.head = None THEN NoHeader ELSE Header(Named[rk.head], msg.heads[rk.head])
  BY <1>1 DEF HeaderOf
<1>4. KeyManagement(sealed, own) = alg
  BY <1>1, <1>2, <1>3 DEF KeyManagement, AlgOf, Header, NoHeader
<1>5. alg \in Fits[rk.key] \ {None} /\ alg \in Algorithms
  BY PartiesAssumption DEF RecipientError, RecipientKeys, AlgOf
<1>6. \A name \in DOMAIN NoParameters :
        sealed.prot.parameters[name] # Unset => own.parameters[name] = Unset
  <2>1. own = HeaderOf(e.msg, e.msg.recipients[1]) /\ 1 \in DOMAIN e.msg.recipients
    BY <1>1 DEF HeaderOf
  <2>2. sealed.prot = e.msg.prot /\ DOMAIN e.msg.prot.parameters = DOMAIN NoParameters
    BY <1>1, <1>2 DEF With, IsMessage, IsProtected, HasParameters
  <2>3. DOMAIN own.parameters = DOMAIN NoParameters
    BY <1>3 DEF Header, NoHeader, IsMessage, RecipientKeys
  <2>4. HeadersDisjoint(e.msg)
    BY DEF e
  <2> HIDE DEF own
  <2> QED
    BY <2>1, <2>2, <2>3, <2>4, NotInTwo
<1>7. IsMessage(sealed) /\ IsRecipient(r) /\ sealed.shared.parameters = NoParameters
  <2>1. IsMessage(e.msg)
    BY ForOneOK DEF e
  <2>2. IsMessage(sealed)
    BY <2>1, SealedOK DEF sealed
  <2> QED
    BY <1>1, <2>2 DEF IsMessage, IsSeq, Encryptable
<1>8. \A name \in DOMAIN NoParameters :
        sealed.prot.parameters[name] # Unset => p[name] = sealed.prot.parameters[name]
  BY <1>6, <1>7, Lookup
<1>9. alg \in Agreements => p["apu"] = msg.prot.parameters["apu"]
  <2> SUFFICES ASSUME alg \in Agreements PROVE p["apu"] = msg.prot.parameters["apu"]
    OBVIOUS
  <2>1. sealed.prot.parameters["apu"] = msg.prot.parameters["apu"]
    BY <1>2 DEF With, MadeBy, IsMessage, IsProtected, HasParameters, NoParameters
  <2>2. own.parameters["apu"] = Unset
    BY <1>3, <1>6, <2>1 DEF Encryptable, Header, NoHeader, NoParameters, RecipientKeys
  <2>3. p["apu"] = sealed.prot.parameters["apu"]
    BY <1>7, <2>2, Lookup DEF NoParameters
  <2> QED
    BY <2>1, <2>3
<1>10. <<n, 1>> # Unset
  BY DEF Unset
<1>11. \A name \in MadeBy(alg) : p[name] = <<n, 1>>
  <2>1. MadeBy(alg) \subseteq DOMAIN NoParameters
    BY DEF MadeBy, NoParameters
  <2> QED
    BY <1>2, <1>8, <1>10, <2>1 DEF With, IsMessage, IsProtected, HasParameters
<1>12. Matches(sealed, r, rk.key)
  <2>1. CASE alg = "dir"
    BY <1>1, <1>4, <2>1 DEF Matches, BoxFor, CEKForOne
  <2>2. CASE alg = "es"
    BY <1>1, <1>4, <1>9, <1>10, <1>11, <2>2 DEF Matches, BoxFor, CEKForOne, MadeBy, Agreements
  <2>3. CASE alg = "kw"
    BY <1>1, <1>4, <2>3 DEF Matches, BoxFor
  <2>4. CASE alg = "gcm"
    <3>1. p["iv"] = <<n, 1>>
      BY <1>11, <2>4 DEF MadeBy, Agreements
    <3>2. r.box = Box(e.cek, rk.key, <<n, 1>>, Unset)
      BY <1>1, <2>4 DEF BoxFor
    <3> QED
      BY <1>1, <1>4, <1>10, <2>4, <3>1, <3>2 DEF Matches
  <2>5. CASE alg = "eskw"
    BY <1>1, <1>4, <1>9, <1>10, <1>11, <2>5 DEF Matches, BoxFor, MadeBy, Agreements
  <2> QED
    BY <1>5, <2>1, <2>2, <2>3, <2>4, <2>5 DEF Algorithms
<1> QED
  BY <1>4, <1>5, <1>12 DEF sealed, e

\* EncryptTo for several recipients, with a header object for each: the header of
\* each has its parameters and a copy of the protected ones.
LEMMA EachMatches ==
  ASSUME NEW msg, IsMessage(msg), Encryptable(msg),
         NEW rks \in Recipients, Len(rks) > 1, NEW i \in DOMAIN rks,
         Careless = {}, NEW n \in Nat \ {0}, NEW plaintext \in Plaintexts,
         RecipientError(msg, rks[i], TRUE) = "none"
  PROVE  LET e == ForEach(msg, rks, n)
             sealed == Sealed(e.msg, plaintext, e.cek)
         IN /\ Matches(sealed, sealed.recipients[i], rks[i].key)
            /\ KeyManagement(sealed, HeaderOf(sealed, sealed.recipients[i]))
                 \in Fits[rks[i].key] \ {None}
<1> DEFINE e == ForEach(msg, rks, n)
           sealed == Sealed(e.msg, plaintext, e.cek)
           rk == rks[i]
           alg == AlgOf(msg, rk)
           made == With(msg.prot.parameters, alg, <<n, i>>)
           r == sealed.recipients[i]
           own == HeaderOf(sealed, r)
           p == Parameters(sealed, r)
<1>1. /\ r.head = rk.head
      /\ r.own = IF rk.head = None /\ MadeBy(alg) # {} THEN Header(None, made) ELSE NoHeader
      /\ r.box = BoxFor(msg, alg, e.cek, rk.key, n, i)
      /\ DOMAIN sealed.recipients = DOMAIN rks
      /\ sealed.prot = msg.prot /\ sealed.shared = msg.shared
      /\ sealed.heads = HeadsWritten(msg, rks, n, Len(rks))
      /\ sealed.body.cek = e.cek
  BY DEF Sealed, ForEach, IsMessage, HasFields
<1>2. rk \in RecipientKeys /\ i \in 1..Len(rks) /\ Len(rks) \in Nat
  BY RecipientsSeq DEF IsSeq
<1>3. ASSUME rk.head # None
      PROVE  sealed.heads[rk.head] = IF MadeBy(alg) = {} THEN msg.heads[rk.head] ELSE made
  <2> DEFINE writes == {j \in 1..Len(rks) : rks[j].head = rk.head /\ MadeBy(AlgOf(msg, rks[j])) # {}}
  <2>1. \A j \in 1..Len(rks) : rks[j].head = rk.head => j = i
    BY <1>2, <1>3, RecipientsSeq DEF Recipients
  <2>2. writes = IF MadeBy(alg) = {} THEN {} ELSE {i}
    BY <1>2, <1>3, <2>1
  <2>3. Max({i}) = i
    BY <1>2 DEF Max
  <2>4. rk.head \in Heads
    BY <1>2, <1>3 DEF RecipientKeys
  <2>5. sealed.heads[rk.head] =
          IF writes = {} THEN msg.heads[rk.head]
          ELSE With(msg.prot.parameters, AlgOf(msg, rks[Max(writes)]), <<n, Max(writes)>>)
    BY <1>1, <1>2, <2>4 DEF HeadsWritten
  <2> HIDE DEF writes
  <2> QED
    BY <2>2, <2>3, <2>5
<1> HIDE DEF sealed, e
<1>4. own = IF rk.head = None
              THEN IF MadeBy(alg) # {} THEN Header(None, made) ELSE NoHeader
              ELSE Header(Named[rk.head], sealed.heads[rk.head])
  BY <1>1 DEF HeaderOf
<1>5. KeyManagement(sealed, own) = alg
  BY <1>1, <1>4 DEF KeyManagement, AlgOf, Header, NoHeader
<1>6. alg \in Fits[rk.key] \ {None} /\ alg \in Algorithms /\ alg \in Wrappers
  BY <1>2, PartiesAssumption DEF RecipientError, RecipientKeys, AlgOf
<1>7. MadeBy(alg) # {} => own.parameters = made
  BY <1>3, <1>4 DEF Header
<1>8. IsMessage(sealed) /\ IsRecipient(r) /\ sealed.shared.parameters = NoParameters
  <2>1. IsMessage(sealed)
    BY ForEachOK, SealedOK DEF sealed, e
  <2> QED
    BY <1>1, <2>1 DEF IsMessage, Encryptable
<1>9. <<n, i>> # Unset
  BY DEF Unset
<1>10. \A name \in MadeBy(alg) : p[name] = <<n, i>>
  <2>1. MadeBy(alg) \subseteq DOMAIN NoParameters
    BY DEF MadeBy, NoParameters
  <2>2. \A name \in MadeBy(alg) : own.parameters[name] = <<n, i>>
    BY <1>7, <2>1 DEF With, IsMessage, IsProtected, HasParameters
  <2>3. \A name \in DOMAIN NoParameters :
          p[name] = IF own.parameters[name] = Unset THEN sealed.prot.parameters[name]
                    ELSE own.parameters[name]
    BY <1>8, Lookup
  <2> HIDE DEF own, p
  <2> QED
    BY <1>9, <2>1, <2>2, <2>3
<1>11. alg \in Agreements => p["apu"] = msg.prot.parameters["apu"]
  <2> SUFFICES ASSUME alg \in Agreements PROVE p["apu"] = msg.prot.parameters["apu"]
    OBVIOUS
  <2>1. own.parameters["apu"] = msg.prot.parameters["apu"]
    BY <1>7 DEF With, MadeBy, Agreements, IsMessage, IsProtected, HasParameters, NoParameters
  <2> QED
    BY <1>1, <1>8, <2>1, Lookup DEF NoParameters
<1>12. Matches(sealed, r, rk.key)
  <2>1. CASE alg = "kw"
    BY <1>1, <1>5, <2>1 DEF Matches, BoxFor
  <2>2. CASE alg = "gcm"
    <3>1. p["iv"] = <<n, i>>
      BY <1>10, <2>2 DEF MadeBy, Agreements
    <3>2. r.box = Box(e.cek, rk.key, <<n, i>>, Unset)
      BY <1>1, <2>2 DEF BoxFor
    <3> QED
      BY <1>1, <1>5, <1>9, <2>2, <3>1, <3>2 DEF Matches
  <2>3. CASE alg = "eskw"
    <3>1. p["epk"] = <<n, i>>
      BY <1>10, <2>3 DEF MadeBy, Agreements
    <3>2. r.box = Box(e.cek, rk.key, <<n, i>>, msg.prot.parameters["apu"])
      BY <1>1, <2>3 DEF BoxFor
    <3> QED
      BY <1>1, <1>5, <1>9, <1>11, <2>3, <3>1, <3>2 DEF Matches, Agreements
  <2> QED
    BY <1>6, <2>1, <2>2, <2>3 DEF Wrappers
<1> QED
  BY <1>5, <1>6, <1>12 DEF sealed, e

\* EncryptTo that succeeds leaves a message that each of the keys opens.
LEMMA EncryptedSound ==
  ASSUME NEW msg, IsMessage(msg), Encryptable(msg), msg.text = NoText, Careless = {},
         NEW plaintext \in Plaintexts, NEW rks \in Recipients, NEW n \in Nat \ {0},
         Encrypted(msg, plaintext, rks, n).err = "none",
         NEW to, to = [keys |-> {rks[i].key : i \in DOMAIN rks}, plaintext |-> plaintext]
  PROVE  Sound(Encrypted(msg, plaintext, rks, n).msg, to)
<1> DEFINE several == Len(rks) > 1
           e == IF several THEN ForEach(msg, rks, n) ELSE ForOne(msg, rks[1], n)
           sealed == Sealed(e.msg, plaintext, e.cek)
<1>1. /\ rks # <<>> /\ msg.prot.enc /\ msg.prot.zip = "none"
      /\ \A i \in DOMAIN rks : RecipientError(msg, rks[i], several) = "none"
      /\ HeadersDisjoint(e.msg)
      /\ Encrypted(msg, plaintext, rks, n).msg = sealed
  <2> DEFINE failed == {i \in DOMAIN rks : RecipientError(msg, rks[i], several) # "none"}
             first == CHOOSE i \in failed : \A j \in failed : i <= j
  <2>1. failed # {} => RecipientError(msg, rks[first], several) # "none"
    <3>1. failed \subseteq Nat
      BY RecipientsSeq DEF IsSeq
    <3>2. failed # {} => first \in failed
      BY <3>1, LeastExists
    <3> QED
      BY <3>2
  <2>2. rks # <<>> /\ msg.prot.enc /\ msg.prot.zip = "none"
    BY DEF Encrypted
  <2> HIDE DEF e, sealed
  <2>3. failed = {}
    BY <2>1, <2>2 DEF Encrypted
  <2>4. HeadersDisjoint(e.msg)
    BY <2>2, <2>3 DEF Encrypted, e
  <2>5. Encrypted(msg, plaintext, rks, n).msg = sealed
    BY <2>2, <2>3, <2>4 DEF Encrypted, e, sealed
  <2> QED
    BY <2>2, <2>3, <2>4, <2>5
<1>2. /\ DOMAIN rks = 1..Len(rks) /\ Len(rks) \in Nat \ {0}
      /\ \A i \in DOMAIN rks : rks[i] \in RecipientKeys
  BY <1>1, RecipientsSeq DEF IsSeq
<1>3. /\ DOMAIN e.msg.recipients = DOMAIN rks
      /\ \A i \in DOMAIN rks : e.msg.recipients[i].supported
      /\ e.msg.text = NoText /\ e.msg.aad = msg.aad
      /\ e.msg.prot.enc /\ e.msg.prot.zip = "none"
      /\ IsMessage(e.msg)
  <2>1. CASE several
    <3>1. /\ DOMAIN e.msg.recipients = DOMAIN rks /\ e.msg.prot = msg.prot
          /\ e.msg.text = msg.text /\ e.msg.aad = msg.aad
          /\ \A i \in DOMAIN rks : e.msg.recipients[i].supported
      BY <2>1 DEF ForEach, IsMessage, HasFields
    <3>2. IsMessage(e.msg)
      BY <2>1, ForEachOK
    <3> HIDE DEF e
    <3> QED
      BY <1>1, <3>1, <3>2
  <2>2. CASE ~several
    <3>1. DOMAIN rks = {1}
      BY <1>2, <2>2
    <3>2. e.msg.prot = [msg.prot EXCEPT !.parameters = With(@, AlgOf(msg, rks[1]), <<n, 1>>)]
      BY <2>2 DEF ForOne, IsMessage, HasFields
    <3>3. e.msg.prot.enc = msg.prot.enc /\ e.msg.prot.zip = msg.prot.zip
      BY <3>2 DEF IsMessage, IsProtected
    <3>4. /\ DOMAIN e.msg.recipients = {1} /\ e.msg.recipients[1].supported
          /\ e.msg.text = msg.text /\ e.msg.aad = msg.aad
      <4>1. e = ForOne(msg, rks[1], n)
        BY <2>2
      <4> DEFINE o == ForOne(msg, rks[1], n).msg
      <4>2. o.recipients = <<o.recipients[1]>> /\ o.recipients[1].supported
        BY DEF ForOne, IsMessage, HasFields
      <4>3. o.text = msg.text /\ o.aad = msg.aad
        BY DEF ForOne, IsMessage, HasFields
      <4>4. DOMAIN o.recipients = {1}
        BY <4>2
      <4> HIDE DEF e, o
      <4>5. e.msg = o
        BY <4>1 DEF o
      <4> QED
        BY <4>2, <4>3, <4>4, <4>5
    <3>5. IsMessage(e.msg)
      BY <1>2, <2>2, <3>1, ForOneOK
    <3> QED
      BY <1>1, <3>1, <3>3, <3>4, <3>5
  <2> QED
    BY <2>1, <2>2
<1>4. \A i \in DOMAIN rks :
        /\ Matches(sealed, sealed.recipients[i], rks[i].key)
        /\ KeyManagement(sealed, HeaderOf(sealed, sealed.recipients[i]))
             \in Fits[rks[i].key] \ {None}
  <2>1. CASE several
    BY <1>1, <2>1, EachMatches
  <2>2. CASE ~several
    <3>1. DOMAIN rks = {1}
      BY <1>2, <2>2
    <3>2. /\ rks[1] \in RecipientKeys /\ RecipientError(msg, rks[1], FALSE) = "none"
          /\ HeadersDisjoint(ForOne(msg, rks[1], n).msg)
      <4>1. several = FALSE
        BY <2>2
      <4>2. RecipientError(msg, rks[1], several) = "none"
        BY <1>1, <3>1
      <4>3. HeadersDisjoint(ForOne(msg, rks[1], n).msg)
        BY <1>1, <2>2
      <4> HIDE DEF several
      <4> QED
        BY <1>2, <3>1, <4>1, <4>2, <4>3
    <3>3. e = ForOne(msg, rks[1], n)
      BY <2>2
    <3> HIDE DEF e
    <3> QED
      BY <3>1, <3>2, <3>3, OneMatches
  <2> QED
    BY <2>1, <2>2
<1> HIDE DEF e
<1>5. /\ sealed.prot = e.msg.prot /\ sealed.text = e.msg.prot /\ sealed.aad = msg.aad
      /\ sealed.recipients = e.msg.recipients /\ sealed.shared = e.msg.shared
      /\ sealed.heads = e.msg.heads
      /\ sealed.body = [plaintext |-> plaintext, cek |-> e.cek,
                        covers |-> Covered(e.msg.prot, msg.aad)]
  BY <1>3 DEF Sealed, Text, IsMessage, HasFields
<1> HIDE DEF sealed
<1>6. e.msg.prot # NoText
  BY <1>3 DEF IsMessage, IsProtected
<1>7. Text(sealed) = e.msg.prot /\ sealed.body.covers = Covered(Text(sealed), sealed.aad)
  BY <1>5, <1>6 DEF Text
<1>8. sealed.body # NoBody
  BY <1>5, <1>6 DEF NoBody, Covered
<1>9. HeadersDisjoint(sealed)
  BY <1>1, <1>5 DEF HeadersDisjoint, HeaderOf
<1>10. PrepareError(sealed) = "none"
  <2>1. sealed.recipients # <<>>
    BY <1>2, <1>3, <1>5
  <2> QED
    BY <1>3, <1>5, <1>9, <2>1 DEF PrepareError
<1>11. \A i \in DOMAIN rks : CanOpen(sealed, rks[i].key)
  BY <1>3, <1>4, <1>5, <1>7, <1>8, <1>10, MatchingOpens DEF CanOpen
<1> QED
  BY <1>1, <1>3, <1>5, <1>11 DEF Sound, Encryptable

\* Each document written from a message that is Sound is read as one.
LEMMA Reread ==
  ASSUME NEW msg, IsMessage(msg), NEW to, Sound(msg, to), NEW json \in BOOLEAN,
         json \/ Compactable(msg), NEW key \in to.keys
  PROVE  LET read == Loaded(Document(msg, json)) IN
         CanOpen(read, key) /\ read.body = msg.body
<1> DEFINE read == Loaded(Document(msg, json))
           r(i) == read.recipients[i]
<1>1. /\ Text(msg) = msg.prot /\ msg.prot # NoText
  BY DEF Sound, Text, IsMessage, IsProtected
<1>2. /\ read.prot = msg.prot /\ read.text = msg.prot /\ read.shared = msg.shared
      /\ read.aad = msg.aad /\ read.body = msg.body
      /\ DOMAIN read.recipients = DOMAIN msg.recipients
      /\ \A i \in DOMAIN msg.recipients :
           /\ r(i).head = None /\ r(i).box = msg.recipients[i].box /\ r(i).supported
           /\ r(i).own = IF json THEN HeaderOf(msg, msg.recipients[i]) ELSE NoHeader
  BY <1>1 DEF Loaded, Created, Document, WrittenRecipient, Sound
<1> HIDE DEF read
<1>3. \A i \in DOMAIN msg.recipients : HeaderOf(read, r(i)) = HeaderOf(msg, msg.recipients[i])
  BY <1>2 DEF HeaderOf, Compactable, Sound
<1>4. Text(read) = Text(msg)
  BY <1>1, <1>2 DEF Text
<1>5. \A i \in DOMAIN msg.recipients : Open(read, r(i), key) = Open(msg, msg.recipients[i], key)
  BY <1>2, <1>3, <1>4 DEF Open, KeyManagement, Parameters, Sound
<1>6. HeadersDisjoint(msg) => HeadersDisjoint(read)
  BY <1>2, <1>3 DEF HeadersDisjoint
<1>7. CanOpen(msg, key)
  BY DEF Sound
<1>8. read.recipients # <<>>
  BY <1>2, <1>7 DEF CanOpen
<1>9. PrepareError(read) = "none"
  BY <1>2, <1>6, <1>7, <1>8 DEF CanOpen, PrepareError
<1>10. read.prot.zip = "none"
  BY <1>2, <1>7 DEF CanOpen
<1>11. \E i \in DOMAIN read.recipients : Open(read, r(i), key).err = "none"
  BY <1>2, <1>5, <1>7 DEF CanOpen
<1>12. CanOpen(read, key) /\ read.body = msg.body
  BY <1>2, <1>9, <1>10, <1>11 DEF CanOpen
<1> QED
  BY <1>12 DEF read

\* What a failed call leaves can be encrypted.
LEMMA StaysEncryptable ==
  ASSUME NEW msg, IsMessage(msg), Encryptable(msg), msg.text = NoText,
         NEW plaintext, NEW rks \in Recipients, NEW n \in Nat \ {0},
         Encrypted(msg, plaintext, rks, n).err # "none"
  PROVE  LET after == Encrypted(msg, plaintext, rks, n).msg IN
         after.text = NoText /\ Encryptable(after)
<1> DEFINE several == Len(rks) > 1
           one == ForOne(msg, rks[1], n).msg
           each == ForEach(msg, rks, n).msg
           Apu(heads) == \A h \in Heads : heads[h]["apu"] \in {Unset, msg.prot.parameters["apu"]}
           stopped(last) == [msg EXCEPT !.heads = HeadsWritten(msg, rks, n, last)]
<1>1. \A alg, value, parameters :
        DOMAIN parameters = DOMAIN NoParameters => With(parameters, alg, value)["apu"] = parameters["apu"]
  BY DEF With, MadeBy, Agreements, NoParameters
<1>2. \A last : Apu(HeadsWritten(msg, rks, n, last))
  BY <1>1 DEF HeadsWritten, Encryptable, IsMessage, IsProtected, HasParameters
<1>3. \A last : stopped(last).text = NoText /\ Encryptable(stopped(last))
  BY <1>2 DEF IsMessage, HasFields, Encryptable
<1>4. each.text = NoText /\ Encryptable(each)
  <2>1. /\ each.text = msg.text /\ each.aad = msg.aad /\ each.shared = msg.shared
        /\ each.prot = msg.prot /\ each.heads = HeadsWritten(msg, rks, n, Len(rks))
    BY DEF ForEach, IsMessage, HasFields
  <2> HIDE DEF each
  <2> QED
    BY <1>2, <2>1 DEF Encryptable
<1>5. one.text = NoText /\ Encryptable(one)
  <2>1. /\ one.text = msg.text /\ one.aad = msg.aad /\ one.shared = msg.shared
        /\ one.heads = msg.heads
        /\ one.prot = [msg.prot EXCEPT !.parameters = With(@, AlgOf(msg, rks[1]), <<n, 1>>)]
    BY DEF ForOne, IsMessage, HasFields
  <2>2. one.prot.parameters["apu"] = msg.prot.parameters["apu"]
    BY <1>1, <2>1 DEF IsMessage, IsProtected, HasParameters
  <2> HIDE DEF one
  <2> QED
    BY <2>1, <2>2 DEF Encryptable
<1>6. \/ Encrypted(msg, plaintext, rks, n).msg \in {msg, one, each}
      \/ \E last : Encrypted(msg, plaintext, rks, n).msg = stopped(last)
  <2>1. [msg EXCEPT !.heads = msg.heads] = msg
    BY DEF IsMessage, HasFields
  <2> QED
    BY <2>1 DEF Encrypted
<1> HIDE DEF one, each, stopped
<1> QED
  BY <1>3, <1>4, <1>5, <1>6

\* Whichever header the parameters went to and whatever a call that failed left
\* behind, each key decrypts what EncryptTo made, in the message and in each
\* document written from it, for each caller that is not Careless.
THEOREM RoundTrips ==
  ASSUME Careless = {}
  PROVE  Spec => []RoundTrip
<1>1. Init => SInv
  <2> SUFFICES ASSUME Init PROVE SInv
    OBVIOUS
  <2>1. m.aad = None /\ m.shared = NoHeader /\ m.text = NoText
        /\ \A h \in Heads : m.heads[h] = NoParameters
    BY DEF Init, Created
  <2> QED
    BY <2>1, MessageAssumption DEF Init, SInv, Encryptable, NoHeader, Header, NoParameters
<1>2. IInv /\ SInv /\ [Next]_vars => SInv'
  <2> SUFFICES ASSUME IInv, SInv, [Next]_vars PROVE SInv'
    OBVIOUS
  <2>1. ASSUME NEW alg \in Algorithms \union {None}, NEW shared \in Algorithms \union {None},
               NEW aad \in Aads, NEW party, New(alg, shared, party, aad)
        PROVE  SInv'
    <3>1. party \in {"nowhere", "protected"} /\ aad # "empty"
      BY <2>1 DEF New
    <3>2. CallerParameters(FALSE) = NoParameters /\ NoParameters["apu"] = Unset
      BY DEF CallerParameters, NoParameters
    <3>3. /\ m'.text = NoText /\ m'.aad = aad
          /\ m'.shared.parameters = CallerParameters(party = "shared")
          /\ m'.heads = [h \in Heads |-> CallerParameters(party = "own")]
      BY <2>1 DEF New, Created, Header
    <3>4. m'.shared.parameters = NoParameters /\ \A h \in Heads : m'.heads[h] = NoParameters
      BY <3>1, <3>2, <3>3
    <3>5. Encryptable(m')
      BY <3>1, <3>2, <3>3, <3>4 DEF Encryptable
    <3> QED
      BY <2>1, <3>3, <3>5 DEF New, SInv, Encryptable
  <2>2. ASSUME NEW plaintext \in Plaintexts, NEW rks \in Recipients, EncryptTo(plaintext, rks)
        PROVE  SInv'
    <3> DEFINE e == Encrypted(m, plaintext, rks, count + 1)
               to == [keys |-> {rks[i].key : i \in DOMAIN rks}, plaintext |-> plaintext]
    <3>1. m.text = NoText /\ Encryptable(m) /\ count + 1 \in Nat \ {0} /\ IsMessage(m)
      BY <2>2, MessageAssumption DEF EncryptTo, SInv, IInv
    <3>2. m' = e.msg /\ written' = NoDocument
          /\ sent' = IF e.err # "none" THEN Nobody ELSE to
      BY <2>2 DEF EncryptTo
    <3>3. CASE e.err = "none"
      <4>1. Sound(e.msg, to)
        BY <3>1, <3>3, EncryptedSound
      <4>2. e.msg.text # NoText
        <5>1. IsMessage(e.msg)
          BY <3>1, EncryptedOK
        <5> QED
          BY <4>1, <5>1 DEF Sound, IsMessage, IsProtected
      <4> QED
        BY <3>2, <3>3, <4>1, <4>2 DEF SInv
    <3>4. CASE e.err # "none"
      BY <3>1, <3>2, <3>4, StaysEncryptable DEF SInv
    <3> QED
      BY <3>3, <3>4
  <2>3. ASSUME NEW json \in BOOLEAN, Marshal(json)
        PROVE  SInv'
    BY <2>3 DEF Marshal, SInv
  <2>4. ASSUME NEW d \in (Received \union {written}) \ {NoDocument}, Unmarshal(d)
        PROVE  SInv'
    <3>1. IsDocument(d)
      BY PartiesAssumption DEF IInv
    <3>2. m'.text = d.prot /\ d.prot # NoText
      BY <2>4, <3>1 DEF Unmarshal, Loaded, Created, IsDocument, IsProtected
    <3> QED
      BY <2>4, <3>2 DEF Unmarshal, SInv
  <2>5. CASE UNCHANGED vars
    BY <2>5 DEF SInv, vars, Compactable
  <2> QED
    BY <2>1, <2>2, <2>3, <2>4, <2>5 DEF Next
<1>3. IInv /\ SInv => RoundTrip
  <2> SUFFICES ASSUME IInv, SInv, sent # Nobody
               PROVE  /\ DecryptsFor(m)
                      /\ written # NoDocument => DecryptsFor(Loaded(written))
    BY DEF RoundTrip
  <2>1. Sound(m, sent) /\ IsMessage(m)
    BY DEF SInv, IInv
  <2>2. DecryptsFor(m)
    BY <2>1, OpenedGives DEF DecryptsFor, Sound, IsMessage
  <2>3. ASSUME written # NoDocument PROVE DecryptsFor(Loaded(written))
    <3>1. PICK json \in BOOLEAN : (json \/ Compactable(m)) /\ written = Document(m, json)
      BY <2>3 DEF SInv
    <3>2. IsMessage(Loaded(written))
      BY <2>3, LoadedOK DEF IInv
    <3>3. \A key \in sent.keys :
            CanOpen(Loaded(written), key) /\ Loaded(written).body = m.body
      BY <2>1, <3>1, Reread
    <3> QED
      BY <2>1, <3>2, <3>3, OpenedGives DEF DecryptsFor, Sound, IsMessage
  <2> QED
    BY <2>2, <2>3
<1> QED
  BY <1>1, <1>2, <1>3, Invariance, PTL DEF Spec
=============================================================================
