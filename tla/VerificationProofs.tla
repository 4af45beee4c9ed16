------------------------- MODULE VerificationProofs -------------------------
(***************************************************************************)
(* Proofs about Verification for any number of goroutines, any tokens, any *)
(* key sets and any configurations.                                        *)
(***************************************************************************)
EXTENDS Verification, TLAPS

\* What KeySource keeps about the callers.
SourceInv ==
  /\ pending \subseteq Verifiers
  /\ given \in [Verifiers -> 0..MaxVersion]

\* The store holds identifiers of tokens that arrived.
StoreInv == \A entry \in store : entry.jti \in Identifiers

IInv == TypeOK /\ SourceInv /\ StoreInv /\ OnlyAcceptedRecorded

LEMMA Bounds == MaxTime \in Nat /\ MaxVersion \in Nat /\ MaxVersion # 0 /\ NoCall \notin Calls
BY VerificationAssumption DEF NoCall

\* The steps of KeySource, as far as Verification reads what they change.
LEMMA SourceSteps ==
  ASSUME SourceInv
  PROVE  /\ \A v \in Verifiers :
              KS!Begin(v) => /\ pending' = pending \union {v}
                             /\ given' = [given EXCEPT ![v] = 0]
                             /\ SourceInv'
         /\ \A v \in Verifiers :
              KS!End(v) => /\ v \in pending /\ pending' = pending \ {v}
                           /\ \A w \in Verifiers \ {v} : given'[w] = given[w]
                           /\ SourceInv'
         /\ KS!Publish \/ KS!Learn => UNCHANGED <<pending, given>>
<1> USE DEF SourceInv, KS!NoSet, KS!Versions
<1>1. ASSUME NEW v \in Verifiers, KS!Begin(v)
      PROVE  /\ pending' = pending \union {v}
             /\ given' = [given EXCEPT ![v] = 0]
             /\ SourceInv'
  BY <1>1, Bounds DEF KS!Begin
<1>2. ASSUME NEW v \in Verifiers, KS!End(v)
      PROVE  /\ v \in pending /\ pending' = pending \ {v}
             /\ \A w \in Verifiers \ {v} : given'[w] = given[w]
             /\ SourceInv'
  <2>1. PICK k \in 0..MaxVersion : given' = [given EXCEPT ![v] = k]
    <3> HIDE DEF SourceInv, KS!NoSet, KS!Versions
    <3>1. PICK k \in KS!Versions \union {KS!NoSet} : given' = [given EXCEPT ![v] = k]
      BY <1>2 DEF KS!End
    <3>2. k \in 0..MaxVersion
      BY Bounds DEF KS!NoSet, KS!Versions
    <3> QED
      BY <3>1, <3>2
  <2> QED
    BY <1>2, <2>1 DEF KS!End
<1>3. KS!Publish \/ KS!Learn => UNCHANGED <<pending, given>>
  BY DEF KS!Publish, KS!Learn
<1> QED
  BY <1>1, <1>2, <1>3

\* The identifier of a token that is being verified is one that arrived.
LEMMA IdentifierArrived ==
  ASSUME TypeOK, NEW v \in Verifiers, pc[v] # "idle"
  PROVE  call[v] \in Calls /\ Carried[call[v]].jti \in Identifiers
BY DEF TypeOK, Identifiers

\* Counting an acceptance makes its count positive and no other count less.
LEMMA Counts ==
  ASSUME TypeOK, NEW v \in Verifiers, pc[v] # "idle", Accept(v)
  PROVE  /\ accepted' \in [Identifiers -> 0..2]
         /\ \A id \in Identifiers : accepted[id] > 0 => accepted'[id] > 0
         /\ accepted'[Carried[call[v]].jti] > 0
<1> DEFINE id == Carried[call[v]].jti
<1>1. id \in Identifiers
  BY IdentifierArrived
<1>2. accepted \in [Identifiers -> 0..2]
  BY DEF TypeOK
<1>3. accepted' = [accepted EXCEPT ![id] = IF accepted[id] = 2 THEN 2 ELSE accepted[id] + 1]
  BY DEF Accept
<1> HIDE DEF id
<1>4. /\ accepted' \in [Identifiers -> 0..2]
      /\ \A i \in Identifiers : accepted[i] > 0 => accepted'[i] > 0
      /\ accepted'[id] > 0
  <2>1. accepted[id] \in 0..2
    BY <1>1, <1>2
  <2> DEFINE n == IF accepted[id] = 2 THEN 2 ELSE accepted[id] + 1
  <2>2. n \in 1..2 /\ accepted' = [accepted EXCEPT ![id] = n]
    BY <1>3, <2>1
  <2> HIDE DEF n
  <2> QED
    BY <1>1, <1>2, <2>2
<1> QED
  BY <1>4 DEF id

LEMMA InitIInv == Init => IInv
<1> SUFFICES ASSUME Init PROVE IInv
  OBVIOUS
<1>1. pending = {} /\ given = [v \in Verifiers |-> 0]
  BY DEF Init, KS!Init, KS!NoSet
<1>2. TypeOK
  BY <1>1, Bounds DEF Init, TypeOK, Steps
<1>3. SourceInv
  BY <1>1, Bounds DEF SourceInv
<1>4. store = {}
  BY DEF Init
<1> QED
  BY <1>2, <1>3, <1>4 DEF IInv, StoreInv, OnlyAcceptedRecorded

\* Steps that leave the store and the counts alone.
LEMMA Kept ==
  ASSUME IInv, TypeOK', SourceInv', UNCHANGED <<store, accepted>>
  PROVE  IInv'
BY DEF IInv, StoreInv, OnlyAcceptedRecorded, Identifiers

LEMMA BeginStep ==
  ASSUME IInv, NEW v \in Verifiers, NEW c \in Calls, Begin(v, c) \/ Unsigned(v, c)
  PROVE  IInv'
<1> USE DEF IInv
<1>1. CASE Begin(v, c)
  <2>1. /\ pending' = pending \union {v}
        /\ given' = [given EXCEPT ![v] = 0]
        /\ SourceInv'
        /\ UNCHANGED <<now, store, accepted>>
    BY <1>1, SourceSteps DEF Begin
  <2>2. TypeOK'
    BY <1>1, <2>1, Bounds DEF Begin, TypeOK, Steps, Goto, SourceInv
  <2> QED
    BY <2>1, <2>2, Kept
<1>2. CASE Unsigned(v, c)
  <2>1. UNCHANGED <<pending, given, now, store, accepted>>
    BY <1>2 DEF Unsigned, ksVars
  <2>2. TypeOK' /\ SourceInv'
    BY <1>2, <2>1, Bounds DEF Unsigned, Return, TypeOK, Steps, Goto, SourceInv
  <2> QED
    BY <2>1, <2>2, Kept
<1> QED
  BY <1>1, <1>2

\* GotKeys and Refreshed: the source returned to v.
LEMMA KeysStep ==
  ASSUME IInv, NEW v \in Verifiers, GotKeys(v) \/ Refreshed(v)
  PROVE  IInv'
<1> USE DEF IInv
<1>1. /\ pc[v] \in {"get", "refresh"}
      /\ KS!End(v)
      /\ UNCHANGED <<now, store, accepted>>
      /\ \/ given'[v] = 0 /\ Goto(v, "idle") /\ call' = [call EXCEPT ![v] = NoCall]
         \/ given'[v] # 0 /\ (Goto(v, "attempt") \/ Goto(v, "retry")) /\ UNCHANGED call
  BY DEF GotKeys, Refreshed, Return, KS!NoSet
<1>2. /\ v \in pending /\ pending' = pending \ {v}
      /\ \A w \in Verifiers \ {v} : given'[w] = given[w]
      /\ SourceInv'
  BY <1>1, SourceSteps
<1>3. TypeOK'
  BY <1>1, <1>2, Bounds DEF TypeOK, Steps, Goto, SourceInv
<1> QED
  BY <1>1, <1>2, <1>3, Kept

\* FirstAttempt, which may begin a refresh, and SecondAttempt.
LEMMA AttemptStep ==
  ASSUME IInv, NEW v \in Verifiers, FirstAttempt(v) \/ SecondAttempt(v)
  PROVE  IInv'
<1> USE DEF IInv
<1>1. /\ pc[v] \in {"attempt", "retry"}
      /\ UNCHANGED <<now, store, accepted>>
      /\ \/ Goto(v, "idle") /\ call' = [call EXCEPT ![v] = NoCall] /\ UNCHANGED ksVars
         \/ Goto(v, "claims") /\ UNCHANGED <<call, ksVars>>
         \/ Goto(v, "refresh") /\ UNCHANGED call /\ KS!Begin(v)
  BY DEF FirstAttempt, SecondAttempt, Passes, Fails, Return
<1>2. SourceInv'
  BY <1>1, SourceSteps DEF ksVars, SourceInv
<1>3. TypeOK'
  <2>1. CASE /\ \/ Goto(v, "idle") /\ call' = [call EXCEPT ![v] = NoCall]
                \/ Goto(v, "claims") /\ UNCHANGED call
             /\ UNCHANGED ksVars
    BY <1>1, <2>1, Bounds DEF TypeOK, Steps, Goto, ksVars
  <2>2. CASE Goto(v, "refresh") /\ UNCHANGED call /\ KS!Begin(v)
    <3>1. /\ pending' = pending \union {v}
          /\ given' = [given EXCEPT ![v] = 0]
      BY <2>2, SourceSteps
    <3> QED
      BY <1>1, <2>2, <3>1 DEF TypeOK, Steps, Goto, SourceInv
  <2> QED
    BY <1>1, <2>1, <2>2
<1> QED
  BY <1>1, <1>2, <1>3, Kept

\* CheckClaims, Record and RecordFails.
LEMMA ClaimsStep ==
  ASSUME IInv, NEW v \in Verifiers, CheckClaims(v) \/ Record(v) \/ RecordFails(v)
  PROVE  IInv'
<1> USE DEF IInv
<1> DEFINE id == Carried[call[v]].jti
<1>1. /\ pc[v] \in {"claims", "record"}
      /\ UNCHANGED <<now, ksVars>>
      /\ \/ Goto(v, "idle") /\ call' = [call EXCEPT ![v] = NoCall]
         \/ Goto(v, "record") /\ UNCHANGED call
  BY DEF CheckClaims, Record, RecordFails, Return
<1>2. /\ accepted' = accepted \/ Accept(v)
      /\ store' = store \/ (Accept(v) /\ \E exp : store' = store \union {[jti |-> id, exp |-> exp]})
  BY DEF CheckClaims, Record, RecordFails, Entry
<1>3. /\ id \in Identifiers
      /\ accepted' \in [Identifiers -> 0..2]
      /\ \A i \in Identifiers : accepted[i] > 0 => accepted'[i] > 0
      /\ Accept(v) => accepted'[id] > 0
  BY <1>1, <1>2, IdentifierArrived, Counts DEF TypeOK
<1>4. SourceInv'
  BY <1>1 DEF ksVars, SourceInv
<1>5. TypeOK'
  BY <1>1, <1>3 DEF TypeOK, Steps, Goto, ksVars
<1>6. StoreInv' /\ OnlyAcceptedRecorded'
  <2>1. Identifiers' = Identifiers
    BY DEF Identifiers
  <2> HIDE DEF id
  <2>2. \A entry \in store' : entry \in store \/ (Accept(v) /\ entry.jti = id)
    BY <1>2
  <2> QED
    BY <1>3, <2>1, <2>2 DEF StoreInv, OnlyAcceptedRecorded
<1> QED
  BY <1>4, <1>5, <1>6

\* Forget, Tick and Source: nothing of the verifications changes.
LEMMA EnvironmentStep ==
  ASSUME IInv, Tick \/ Source \/ (\E entry \in store : Forget(entry)) \/ UNCHANGED vars
  PROVE  IInv'
<1> USE DEF IInv
<1>1. UNCHANGED <<own, accepted, pending, given>> /\ store' \subseteq store /\ now' \in 0..MaxTime
  BY Bounds, SourceSteps DEF Tick, Source, Forget, vars, ksVars, TypeOK
<1>2. TypeOK' /\ SourceInv'
  BY <1>1 DEF TypeOK, SourceInv, own
<1>3. StoreInv' /\ OnlyAcceptedRecorded'
  BY <1>1 DEF StoreInv, OnlyAcceptedRecorded, Identifiers
<1> QED
  BY <1>2, <1>3

LEMMA StepIInv == IInv /\ [Next]_vars => IInv'
BY BeginStep, KeysStep, AttemptStep, ClaimsStep, EnvironmentStep DEF Next, Step

\* Every variable has its type, and a verification waits for the source exactly
\* while a call of the source is open (token.go, withKeys).
THEOREM Typed == Spec => []TypeOK
<1>1. IInv => TypeOK
  BY DEF IInv
<1> QED
  BY InitIInv, StepIInv, <1>1, PTL DEF Spec

\* Only an accepted token uses up its identifier, whatever the keys, the clock,
\* the other verifications and the store do meanwhile (token.go, checkReplay).
THEOREM Recorded == Spec => []OnlyAcceptedRecorded
<1>1. IInv => OnlyAcceptedRecorded
  BY DEF IInv
<1> QED
  BY InitIInv, StepIInv, <1>1, PTL DEF Spec

(* One time for each identifier *)

\* An identifier that the store never forgot was accepted at most one time, and
\* then the store has it.
KeptInv ==
  \A id \in Identifiers : id \notin forgotten =>
    \/ accepted[id] = 0
    \/ accepted[id] = 1 /\ \E entry \in store : entry.jti = id

OnceInv == IInv /\ KeptInv

LEMMA StepOnce ==
  ASSUME OnceInv, [Next]_vars
  PROVE  OnceInv'
<1> USE DEF OnceInv
<1>1. IInv' /\ Identifiers' = Identifiers
  BY StepIInv DEF Identifiers
<1>2. CASE UNCHANGED <<store, accepted, forgotten>>
  BY <1>1, <1>2 DEF KeptInv
<1>3. ASSUME NEW entry \in store, Forget(entry) PROVE KeptInv'
  <2>1. /\ store' = store \ {entry}
        /\ forgotten' = forgotten \union {entry.jti}
        /\ accepted' = accepted
    BY <1>3 DEF Forget
  <2> QED
    BY <1>1, <2>1 DEF KeptInv
<1>4. ASSUME NEW v \in Verifiers, Record(v), ~UNCHANGED <<store, accepted, forgotten>>
      PROVE  KeptInv'
  <2> DEFINE id == Entry(v).jti
  <2>1. /\ \A e \in store : e.jti # id
        /\ store' = store \union {Entry(v)} /\ forgotten' = forgotten
        /\ Accept(v) /\ pc[v] = "record"
    BY <1>4 DEF Record
  <2>2. id = Carried[call[v]].jti /\ id \in Identifiers
    BY <2>1, IdentifierArrived DEF Entry, IInv
  <2>3. accepted' = [accepted EXCEPT ![id] = IF accepted[id] = 2 THEN 2 ELSE accepted[id] + 1]
    BY <2>1, <2>2 DEF Accept
  <2>4. accepted \in [Identifiers -> 0..2]
    BY DEF IInv, TypeOK
  <2>5. Entry(v) \in store'
    BY <2>1
  <2> HIDE DEF id
  <2>6. id \notin forgotten => accepted[id] = 0
    BY <2>1, <2>2 DEF KeptInv
  <2>7. id \notin forgotten => accepted'[id] = 1
    BY <2>2, <2>3, <2>4, <2>6
  <2>8. \A i \in Identifiers : i # id => accepted'[i] = accepted[i]
    BY <2>3, <2>4
  <2>9. Entry(v).jti = id
    BY DEF id
  <2> QED
    BY <1>1, <2>1, <2>5, <2>7, <2>8, <2>9 DEF KeptInv
<1>5. \/ UNCHANGED <<store, accepted, forgotten>>
      \/ \E entry \in store : Forget(entry)
      \/ \E v \in Verifiers : Record(v)
  BY DEF Next, vars, Tick, Source, Step, Begin, Unsigned, GotKeys, FirstAttempt, Refreshed,
         SecondAttempt, CheckClaims, RecordFails
<1> QED
  BY <1>1, <1>2, <1>3, <1>4, <1>5

\* While the store holds its identifier, one token is accepted one time, by any
\* number of goroutines (token.go, checkReplay).
THEOREM Once == Spec => []OnceWhileKept
<1>1. Init => OnceInv
  BY InitIInv DEF Init, OnceInv, KeptInv
<1>2. OnceInv => OnceWhileKept
  <2> SUFFICES ASSUME OnceInv, NEW id \in Identifiers, id \notin forgotten
               PROVE  accepted[id] <= 1
    BY DEF OnceWhileKept
  <2> QED
    BY DEF OnceInv, KeptInv
<1> QED
  BY <1>1, <1>2, StepOnce, PTL DEF Spec
=============================================================================
