-------------------------- MODULE AcceptanceProofs --------------------------
(***************************************************************************)
(* Proofs about what Verification accepts and rejects: a token is accepted *)
(* on keys that the source had not replaced before the verification began, *)
(* also when it gets the keys two times and the issuer replaces them in    *)
(* between, and within its lifetime.                                       *)
(***************************************************************************)
EXTENDS VerificationProofs, WellFoundedInduction

(* What an attempt that succeeds has found *)

LEMMA LeastExists ==
  ASSUME NEW T, T \subseteq Nat, T # {}
  PROVE  \E i \in T : \A j \in T : i <= j
<1> DEFINE R == OpToRel(<, Nat)
<1>1. PICK i \in T : \A j \in T : <<j, i>> \notin R
  BY NatLessThanWellFounded, WFMin
<1>2. \A j \in T : ~(j < i)
  BY <1>1 DEF OpToRel
<1> HIDE DEF R
<1>3. i \in Nat /\ T \subseteq Nat
  OBVIOUS
<1>4. \A j \in T : i <= j
  BY <1>2, <1>3
<1> QED
  BY <1>4

LEMMA SignaturesNumbered ==
  ASSUME NEW c \in Calls
  PROVE  /\ Carried[c].sigs \in Seq(ToSet(Carried[c].sigs))
         /\ DOMAIN Carried[c].sigs = 1..Len(Carried[c].sigs)
         /\ Len(Carried[c].sigs) \in Nat
         /\ DOMAIN Carried[c].sigs \subseteq Nat \ {0}
<1>1. Carried[c].sigs \in Seq(ToSet(Carried[c].sigs))
  BY CallsAssumption
<1>2. DOMAIN Carried[c].sigs = 1..Len(Carried[c].sigs) /\ Len(Carried[c].sigs) \in Nat
  BY <1>1
<1> QED
  BY <1>1, <1>2

\* verifySignatures stops at a signature that makes it stop, or at none.
LEMMA ReachedStops ==
  ASSUME NEW c \in Calls, NEW keys
  PROVE  LET sigs == Carried[c].sigs IN
         \/ Reached(c, keys) = 0 /\ \A i \in DOMAIN sigs : ~Stops(c, sigs[i], keys)
         \/ /\ Reached(c, keys) \in DOMAIN sigs
            /\ Stops(c, sigs[Reached(c, keys)], keys)
            /\ Reached(c, keys) # 0
<1> DEFINE sigs == Carried[c].sigs
           stopping == {i \in DOMAIN sigs : Stops(c, sigs[i], keys)}
<1>1. stopping \subseteq Nat \ {0}
  BY SignaturesNumbered
<1>2. CASE stopping = {}
  BY <1>2 DEF Reached
<1>3. CASE stopping # {}
  <2>1. \E i \in stopping : \A j \in stopping : i <= j
    BY <1>1, <1>3, LeastExists
  <2>2. Reached(c, keys) \in stopping
    BY <1>3, <2>1 DEF Reached
  <2> QED
    BY <1>1, <2>2
<1> QED
  BY <1>2, <1>3

\* A signature without an error is backed by a key.
LEMMA NoErrorBacked ==
  ASSUME NEW c \in Calls, NEW sig, NEW keys, SignatureError(c, sig, keys) = {}
  PROVE  Backed(c, sig, keys)
<1>1. sig.alg \in Permitted(c) /\ sig.signer \in Material(c, sig, keys)
  BY DEF SignatureError
<1>2. CASE \E i \in SuitableIn(keys, Request(sig)) : keys[i].material = sig.signer
  BY <1>1, <1>2 DEF Backed, SuitableIn, Vouches
<1>3. CASE sig.signer \in HeaderKeys(c, sig)
  <2>1. PICK key \in Offered(c, sig) : key.trusted /\ key.material = sig.signer
    BY <1>3 DEF HeaderKeys
  <2> QED
    BY <1>1, <2>1 DEF Backed, Offered, Vouches
<1> QED
  BY <1>1, <1>2, <1>3 DEF Material

\* The signatures of the call are as the configuration asks, under these keys.
Satisfied(c, keys) ==
  Enough(c, LAMBDA sig : sig.wellFormed /\ Backed(c, sig, keys))

LEMMA AttemptSatisfied ==
  ASSUME NEW c \in Calls, NEW keys, Attempt(c, keys).err = {}
  PROVE  Satisfied(c, keys)
<1> DEFINE sigs == Carried[c].sigs
           last == Reached(c, keys)
<1>1. CASE Config[c].allSignatures
  <2>1. last = 0
    <3>1. SUFFICES ASSUME last # 0 PROVE FALSE
      OBVIOUS
    <3>2. last \in DOMAIN sigs /\ Stops(c, sigs[last], keys)
      BY <3>1, ReachedStops
    <3>3. sigs[last].wellFormed /\ SignatureError(c, sigs[last], keys) = {}
      BY <1>1, <3>1 DEF Attempt
    <3> QED
      BY <1>1, <3>2, <3>3 DEF Stops
  <2>2. \A i \in DOMAIN sigs : ~Stops(c, sigs[i], keys)
    BY <2>1, ReachedStops
  <2>3. \A i \in DOMAIN sigs : sigs[i].wellFormed /\ Backed(c, sigs[i], keys)
    BY <1>1, <2>2, NoErrorBacked DEF Stops
  <2> QED
    BY <1>1, <2>3 DEF Satisfied, Enough
<1>2. CASE ~Config[c].allSignatures
  <2>1. last # 0 /\ sigs[last].wellFormed
    BY <1>2 DEF Attempt
  <2>2. last \in DOMAIN sigs /\ Stops(c, sigs[last], keys)
    BY <2>1, ReachedStops
  <2>3. Backed(c, sigs[last], keys)
    <3>1. SignatureError(c, sigs[last], keys) = {}
      BY <1>2, <2>1, <2>2, CallsAssumption, Zenon DEF Stops
    <3> QED
      BY <3>1, NoErrorBacked
  <2> QED
    BY <1>2, <2>1, <2>2, <2>3 DEF Satisfied, Enough
<1> QED
  BY <1>1, <1>2

(* What holds while a verification is on its way *)

\* The source and the histories of the verifications.
HeldInv ==
  /\ version \in 1..MaxVersion
  /\ known \in 0..version
  /\ floor \in [Verifiers -> 0..MaxVersion]
  /\ since \in [Verifiers -> [known : Nat, now : Nat]]
  /\ DOMAIN verdict = Verifiers

\* The source keeps what it held at the start.  Before an attempt, it can give no
\* set older than that; then it gave a set that may be relied on; and after an attempt, one satisfied the call.
Way(v) ==
  /\ pc[v] # "idle" => since[v].known <= known
  /\ pc[v] \in {"get", "refresh"} => since[v].known <= floor[v]
  /\ pc[v] \in {"attempt", "retry"} => given[v] \in Current(v)
  /\ pc[v] \in {"claims", "record"} => \E w \in Current(v) : Satisfied(call[v], Published[w])

WayInv == HeldInv /\ \A v \in Verifiers : Way(v)

RInv == IInv /\ WayInv

\* What another goroutine or the issuer does, v does not see.
LEMMA WayKept ==
  ASSUME NEW v \in Verifiers, HeldInv, HeldInv', Way(v), version <= version', known <= known',
         pc'[v] = pc[v], call'[v] = call[v], since'[v] = since[v],
         floor'[v] = floor[v], given'[v] = given[v]
  PROVE  Way(v)'
<1>1. Current(v) \subseteq Current(v)'
  BY DEF Current, HeldInv
<1>2. pc'[v] # "idle" => since'[v].known <= known'
  BY DEF HeldInv, Way
<1> QED
  BY <1>1, <1>2 DEF Way

LEMMA InitRInv == Init => RInv
<1> SUFFICES ASSUME Init PROVE RInv
  OBVIOUS
<1>1. HeldInv
  <2>1. version = 1 /\ known = 0 /\ floor = [v \in Verifiers |-> 0]
    BY DEF Init, KS!Init, KS!NoSet
  <2>2. floor \in [Verifiers -> 0..MaxVersion]
    BY <2>1, Bounds
  <2>3. since \in [Verifiers -> [known : Nat, now : Nat]] /\ DOMAIN verdict = Verifiers
    BY DEF Init
  <2>4. version \in 1..MaxVersion /\ known \in 0..version
    BY <2>1, Bounds
  <2> QED
    BY <2>2, <2>3, <2>4 DEF HeldInv
<1>2. \A v \in Verifiers : Way(v)
  BY DEF Init, Way
<1> QED
  BY <1>1, <1>2, InitIInv DEF RInv, WayInv

\* A call of the source begins: it can only give what the source holds, or newer.
LEMMA CallBegins ==
  ASSUME HeldInv, NEW v \in Verifiers, KS!Begin(v)
  PROVE  /\ UNCHANGED <<version, known>>
         /\ floor' = [floor EXCEPT ![v] = known]
         /\ floor' \in [Verifiers -> 0..MaxVersion]
         /\ given' = [given EXCEPT ![v] = 0]
BY Bounds DEF HeldInv, KS!Begin, KS!NoSet

LEMMA CallEnds ==
  ASSUME HeldInv, NEW v \in Verifiers, KS!End(v)
  PROVE  /\ UNCHANGED <<version, known>>
         /\ floor' \in [Verifiers -> 0..MaxVersion]
         /\ \A u \in Verifiers \ {v} : floor'[u] = floor[u]
         /\ \E w \in 0..version : /\ given' = [given EXCEPT ![v] = w]
                                  /\ w # 0 => floor[v] <= w
<1>1. UNCHANGED <<version, known>> /\ floor' = [floor EXCEPT ![v] = 0]
  BY DEF KS!End, KS!NoSet
<1>2. PICK w \in KS!Versions \union {KS!NoSet} :
        /\ given' = [given EXCEPT ![v] = w]
        /\ w # KS!NoSet => floor[v] <= w /\ w <= known
  BY DEF KS!End
<1>3. w \in 0..version
  BY <1>2, Bounds DEF HeldInv, KS!NoSet, KS!Versions
<1>4. floor' \in [Verifiers -> 0..MaxVersion] /\ \A u \in Verifiers \ {v} : floor'[u] = floor[u]
  BY <1>1, Bounds DEF HeldInv
<1>5. w # 0 => floor[v] <= w
  BY <1>2 DEF KS!NoSet
<1> QED
  BY <1>1, <1>2, <1>3, <1>4, <1>5

LEMMA BeginWay ==
  ASSUME RInv, NEW v \in Verifiers, NEW c \in Calls, Begin(v, c) \/ Unsigned(v, c)
  PROVE  WayInv'
<1> USE DEF RInv, WayInv
<1>1. CASE Begin(v, c)
  <2>1. /\ UNCHANGED <<version, known>>
        /\ floor' = [floor EXCEPT ![v] = known]
        /\ floor' \in [Verifiers -> 0..MaxVersion]
        /\ given' = [given EXCEPT ![v] = 0]
    BY <1>1, CallBegins DEF Begin
  <2>2. /\ pc' = [pc EXCEPT ![v] = "get"]
        /\ call' = [call EXCEPT ![v] = c]
        /\ since' = [since EXCEPT ![v] = [known |-> known, now |-> now]]
        /\ verdict' = [verdict EXCEPT ![v] = {}]
    BY <1>1 DEF Begin, Goto
  <2>3. known \in Nat /\ now \in Nat
    BY Bounds DEF HeldInv, IInv, TypeOK
  <2>4. HeldInv'
    BY <2>1, <2>2, <2>3 DEF HeldInv
  <2>5. Way(v)'
    BY <2>1, <2>2, <2>3 DEF Way, HeldInv, IInv, TypeOK
  <2>6. ASSUME NEW u \in Verifiers, u # v PROVE Way(u)'
    BY <2>1, <2>2, <2>4, <2>6, WayKept DEF HeldInv, IInv, TypeOK, SourceInv
  <2> QED
    BY <2>4, <2>5, <2>6
<1>2. CASE Unsigned(v, c)
  <2>1. /\ UNCHANGED ksVars
        /\ pc' = [pc EXCEPT ![v] = "idle"]
        /\ call' = [call EXCEPT ![v] = NoCall]
        /\ since' = [since EXCEPT ![v] = [known |-> 0, now |-> 0]]
        /\ DOMAIN verdict' = DOMAIN verdict
    BY <1>2 DEF Unsigned, Return, Goto
  <2>2. HeldInv'
    BY <2>1 DEF HeldInv, ksVars
  <2>3. Way(v)'
    BY <2>1 DEF Way, IInv, TypeOK
  <2>4. ASSUME NEW u \in Verifiers, u # v PROVE Way(u)'
    BY <2>1, <2>2, <2>4, WayKept DEF HeldInv, IInv, TypeOK, ksVars
  <2> QED
    BY <2>2, <2>3, <2>4
<1> QED
  BY <1>1, <1>2

\* Verify returns.
LEMMA ReturnWay ==
  ASSUME RInv, NEW v \in Verifiers, NEW e, Return(v, e),
         UNCHANGED <<version, known>>, floor' \in [Verifiers -> 0..MaxVersion],
         \A u \in Verifiers \ {v} : floor'[u] = floor[u] /\ given'[u] = given[u]
  PROVE  WayInv'
<1> USE DEF RInv, WayInv
<1>1. /\ pc' = [pc EXCEPT ![v] = "idle"]
      /\ call' = [call EXCEPT ![v] = NoCall]
      /\ since' = [since EXCEPT ![v] = [known |-> 0, now |-> 0]]
      /\ DOMAIN verdict' = DOMAIN verdict
  BY DEF Return, Goto
<1>2. HeldInv'
  BY <1>1 DEF HeldInv
<1>3. Way(v)'
  BY <1>1 DEF Way, IInv, TypeOK
<1>4. ASSUME NEW u \in Verifiers, u # v PROVE Way(u)'
  BY <1>1, <1>2, <1>4, WayKept DEF HeldInv, IInv, TypeOK
<1> QED
  BY <1>2, <1>3, <1>4

\* GotKeys and Refreshed give a set that may be relied on.
LEMMA KeysWay ==
  ASSUME RInv, NEW v \in Verifiers, GotKeys(v) \/ Refreshed(v)
  PROVE  WayInv'
<1> USE DEF RInv, WayInv
<1>1. /\ pc[v] \in {"get", "refresh"}
      /\ KS!End(v)
      /\ \/ \E e : Return(v, e)
         \/ /\ given'[v] # 0
            /\ pc' = [pc EXCEPT ![v] = "attempt"] \/ pc' = [pc EXCEPT ![v] = "retry"]
            /\ UNCHANGED <<call, verdict, since>>
  BY DEF GotKeys, Refreshed, Goto, KS!NoSet
<1>2. /\ UNCHANGED <<version, known>>
      /\ floor' \in [Verifiers -> 0..MaxVersion]
      /\ \A u \in Verifiers \ {v} : floor'[u] = floor[u]
      /\ \E w \in 0..version : /\ given' = [given EXCEPT ![v] = w]
                               /\ w # 0 => floor[v] <= w
  BY <1>1, CallEnds
<1>3. \A u \in Verifiers \ {v} : given'[u] = given[u]
  BY <1>2
<1>4. CASE \E e : Return(v, e)
  BY <1>2, <1>3, <1>4, ReturnWay
<1>5. CASE /\ given'[v] # 0
           /\ pc' = [pc EXCEPT ![v] = "attempt"] \/ pc' = [pc EXCEPT ![v] = "retry"]
           /\ UNCHANGED <<call, verdict, since>>
  <2>1. HeldInv'
    BY <1>2, <1>5 DEF HeldInv
  <2>2. PICK w \in 0..version : /\ given' = [given EXCEPT ![v] = w]
                                /\ w # 0 => floor[v] <= w
    BY <1>2
  <2>3. given'[v] = w /\ w # 0
    BY <1>5, <2>2 DEF IInv, SourceInv
  <2>4. since[v].known <= floor[v] /\ floor[v] \in 0..MaxVersion /\ since[v].known \in Nat
    BY <1>1 DEF Way, HeldInv
  <2>5. given'[v] \in Current(v)'
    BY <1>2, <1>5, <2>2, <2>3, <2>4, Bounds DEF Current, HeldInv
  <2>6. Way(v)'
    BY <1>1, <1>2, <1>5, <2>5 DEF Way, IInv, TypeOK
  <2>7. ASSUME NEW u \in Verifiers, u # v PROVE Way(u)'
    BY <1>2, <1>3, <1>5, <2>1, <2>7, WayKept DEF HeldInv, IInv, TypeOK
  <2> QED
    BY <2>1, <2>6, <2>7
<1> QED
  BY <1>1, <1>4, <1>5

\* An attempt with a set that may be relied on satisfies the call or fails.
LEMMA PassesSatisfied ==
  ASSUME RInv, NEW v \in Verifiers, pc[v] \in {"attempt", "retry"}, Passes(v, Tried(v))
  PROVE  given[v] \in Current(v) /\ Satisfied(call[v], Published[given[v]])
<1>1. given[v] \in Current(v) /\ given[v] \in 1..MaxVersion /\ call[v] \in Calls
  BY DEF RInv, WayInv, Way, IInv, TypeOK
<1>2. Attempt(call[v], Published[given[v]]).err = {}
  <2>1. Attempts[call[v]][given[v]] = Attempt(call[v], Published[given[v]])
    BY <1>1 DEF Attempts
  <2> QED
    BY <2>1 DEF Passes, Tried
<1> QED
  BY <1>1, <1>2, AttemptSatisfied

LEMMA AttemptWay ==
  ASSUME RInv, NEW v \in Verifiers, FirstAttempt(v) \/ SecondAttempt(v)
  PROVE  WayInv'
<1> USE DEF RInv, WayInv
<1>1. /\ pc[v] \in {"attempt", "retry"}
      /\ \/ Passes(v, Tried(v))
         \/ (\E e : Return(v, e)) /\ UNCHANGED ksVars
         \/ /\ pc' = [pc EXCEPT ![v] = "refresh"]
            /\ KS!Begin(v)
            /\ UNCHANGED <<call, verdict, since>>
  BY DEF FirstAttempt, SecondAttempt, Fails, Goto
<1>2. CASE Passes(v, Tried(v))
  <2>1. /\ pc' = [pc EXCEPT ![v] = "claims"]
        /\ UNCHANGED <<ksVars, call, verdict, since>>
    BY <1>2 DEF Passes, Goto
  <2>2. HeldInv'
    BY <2>1 DEF HeldInv, ksVars
  <2>3. given[v] \in Current(v)' /\ Satisfied(call[v]', Published[given[v]])
    BY <1>1, <1>2, <2>1, PassesSatisfied DEF Current, ksVars
  <2>4. Way(v)'
    BY <1>1, <2>1, <2>3 DEF Way, IInv, TypeOK, ksVars
  <2>5. ASSUME NEW u \in Verifiers, u # v PROVE Way(u)'
    BY <2>1, <2>2, <2>5, WayKept DEF HeldInv, IInv, TypeOK, ksVars
  <2> QED
    BY <2>2, <2>4, <2>5
<1>3. CASE (\E e : Return(v, e)) /\ UNCHANGED ksVars
  BY <1>3, ReturnWay DEF ksVars, HeldInv
<1>4. CASE /\ pc' = [pc EXCEPT ![v] = "refresh"]
           /\ KS!Begin(v)
           /\ UNCHANGED <<call, verdict, since>>
  <2>1. /\ UNCHANGED <<version, known>>
        /\ floor' = [floor EXCEPT ![v] = known]
        /\ floor' \in [Verifiers -> 0..MaxVersion]
        /\ given' = [given EXCEPT ![v] = 0]
    BY <1>4, CallBegins
  <2>2. HeldInv'
    BY <1>4, <2>1 DEF HeldInv
  <2>3. Way(v)'
    BY <1>1, <1>4, <2>1 DEF Way, HeldInv, IInv, TypeOK
  <2>4. ASSUME NEW u \in Verifiers, u # v PROVE Way(u)'
    BY <1>4, <2>1, <2>2, <2>4, WayKept DEF HeldInv, IInv, TypeOK, SourceInv
  <2> QED
    BY <2>2, <2>3, <2>4
<1> QED
  BY <1>1, <1>2, <1>3, <1>4

\* CheckClaims, Record and RecordFails.
LEMMA ClaimsWay ==
  ASSUME RInv, NEW v \in Verifiers, CheckClaims(v) \/ Record(v) \/ RecordFails(v)
  PROVE  WayInv'
<1> USE DEF RInv, WayInv
<1>1. /\ UNCHANGED ksVars
      /\ \/ \E e : Return(v, e)
         \/ /\ pc[v] = "claims"
            /\ pc' = [pc EXCEPT ![v] = "record"]
            /\ UNCHANGED <<call, verdict, since>>
  BY DEF CheckClaims, Record, RecordFails, Goto
<1>2. CASE \E e : Return(v, e)
  BY <1>1, <1>2, ReturnWay DEF ksVars, HeldInv
<1>3. CASE /\ pc[v] = "claims"
           /\ pc' = [pc EXCEPT ![v] = "record"]
           /\ UNCHANGED <<call, verdict, since>>
  <2>1. HeldInv'
    BY <1>1, <1>3 DEF HeldInv, ksVars
  <2>2. Way(v)'
    BY <1>1, <1>3 DEF Way, Current, IInv, TypeOK, ksVars
  <2>3. ASSUME NEW u \in Verifiers, u # v PROVE Way(u)'
    BY <1>1, <1>3, <2>1, <2>3, WayKept DEF HeldInv, IInv, TypeOK, ksVars
  <2> QED
    BY <2>1, <2>2, <2>3
<1> QED
  BY <1>1, <1>2, <1>3

\* The issuer publishes, the source learns, time passes, the store forgets.
LEMMA EnvironmentWay ==
  ASSUME RInv, Tick \/ Source \/ (\E entry \in store : Forget(entry)) \/ UNCHANGED vars
  PROVE  WayInv'
<1> USE DEF RInv, WayInv
<1>1. UNCHANGED <<own, floor, given>>
  BY DEF Tick, Source, Forget, vars, ksVars, KS!Publish, KS!Learn
<1>2. /\ version' \in 1..MaxVersion /\ version <= version'
      /\ known' \in 0..version' /\ known <= known'
  <2>1. CASE KS!Publish
    BY <2>1, Bounds DEF KS!Publish, HeldInv
  <2>2. CASE KS!Learn
    BY <2>2, Bounds DEF KS!Learn, KS!Versions, HeldInv
  <2>3. CASE UNCHANGED ksVars
    BY <2>3, Bounds DEF ksVars, HeldInv
  <2> QED
    BY <2>1, <2>2, <2>3 DEF Tick, Source, Forget, vars
<1>3. HeldInv'
  BY <1>1, <1>2 DEF HeldInv, own
<1>4. ASSUME NEW v \in Verifiers PROVE Way(v)'
  BY <1>1, <1>2, <1>3, WayKept DEF own
<1> QED
  BY <1>3, <1>4

LEMMA StepRInv == RInv /\ [Next]_vars => RInv'
<1>1. RInv /\ [Next]_vars => WayInv'
  BY BeginWay, KeysWay, AttemptWay, ClaimsWay, EnvironmentWay DEF Next, Step
<1> QED
  BY <1>1, StepIInv DEF RInv

\* Only CheckClaims and Record give nil.
LEMMA AcceptsLate ==
  ASSUME RInv, [Next]_vars, NEW v \in Verifiers, Accepts(v)
  PROVE  CheckClaims(v) \/ Record(v)
<1> USE DEF RInv, WayInv
<1>1. pc[v] # "idle" /\ pc'[v] = "idle" /\ verdict'[v] = {}
  BY DEF Accepts, Ends
<1>2. \E u \in Verifiers : (\E c \in Calls : Begin(u, c) \/ Unsigned(u, c)) \/ Step(u)
  BY <1>1 DEF Next, Tick, Source, Forget, vars, own
<1>3. PICK u \in Verifiers : (\E c \in Calls : Begin(u, c) \/ Unsigned(u, c)) \/ Step(u)
  BY <1>2
<1>4. \E step : pc' = [pc EXCEPT ![u] = step]
  BY <1>3 DEF Begin, Unsigned, Step, GotKeys, FirstAttempt, Refreshed, SecondAttempt,
              CheckClaims, Record, RecordFails, Passes, Fails, Return, Goto
<1>5. u = v
  BY <1>1, <1>4 DEF IInv, TypeOK
<1>6. \A e : Return(v, e) => verdict'[v] = e
  BY DEF Return, HeldInv
<1>7. ~GotKeys(v) /\ ~Refreshed(v)
  BY <1>1, <1>6 DEF GotKeys, Refreshed, Goto, IInv, TypeOK
<1>8. ~FirstAttempt(v) /\ ~SecondAttempt(v)
  BY <1>1, <1>6 DEF FirstAttempt, SecondAttempt, Passes, Fails, Goto, IInv, TypeOK
<1>9. ~RecordFails(v)
  BY <1>1, <1>6 DEF RecordFails
<1> QED
  BY <1>1, <1>3, <1>5, <1>7, <1>8, <1>9 DEF Begin, Unsigned, Step

LEMMA AcceptsSatisfied ==
  ASSUME RInv, [Next]_vars, NEW v \in Verifiers, Accepts(v)
  PROVE  \E w \in Current(v) : Satisfied(call[v], Published[w])
BY AcceptsLate DEF RInv, WayInv, Way, CheckClaims, Record

\* A token is accepted only when signatures of it, as many as the configuration
\* asks for, verify with one key set that the source had not replaced when Verify
\* began (token.go, withKeys and verifySignatures).
THEOREM Revocation == Spec => RevocationHolds
<1>1. RInv /\ [Next]_vars =>
        \A v \in Verifiers : Accepts(v) =>
          \E w \in Current(v) :
            Enough(call[v], LAMBDA sig : sig.wellFormed /\ Backed(call[v], sig, Published[w]))
  BY AcceptsSatisfied DEF Satisfied
<1> QED
  BY InitRInv, StepRInv, <1>1, PTL DEF Spec, RevocationHolds

(* Lifetimes *)

\* The times of a token and a configuration, as the checks read them.
LEMMA Times ==
  ASSUME NEW c \in Calls
  PROVE  /\ Config[c].leeway \in Nat /\ Config[c].maxAge \in Int
         /\ Carried[c].exp \in Nat \union {-1}
         /\ Carried[c].nbf \in Nat \union {-1}
         /\ Carried[c].iat \in Nat \union {-1}
BY CallsAssumption DEF NoTime

\* Claims without an error are within their limits.
LEMMA NoErrorWithinLimits ==
  ASSUME NEW c \in Calls, NEW ts, NEW at \in Nat, ClaimsError(c, ts, at) = {}
  PROVE  WithinLimits(c, at)
<1>1. ~Expired(c, at) /\ ~NotYetValid(c, at) /\ AgeError(c, at) = {}
  BY DEF ClaimsError
<1>2. Carried[c].exp # NoTime => at <= Carried[c].exp + Config[c].leeway
  BY <1>1, Times DEF Expired, NoTime
<1>3. Carried[c].nbf # NoTime => at >= Carried[c].nbf - Config[c].leeway
  BY <1>1, Times DEF NotYetValid, NoTime
<1>4. Config[c].maxAge > 0 =>
        /\ Carried[c].iat # NoTime
        /\ at >= Carried[c].iat - Config[c].leeway
        /\ at <= Carried[c].iat + Config[c].maxAge + Config[c].leeway
  <2> DEFINE iat == Carried[c].iat
             maxAge == Config[c].maxAge
             leeway == Config[c].leeway
  <2>1. /\ iat \in Nat \union {-1} /\ maxAge \in Int /\ leeway \in Nat
        /\ AgeError(c, at) = IF maxAge <= 0 THEN {}
                             ELSE IF iat = -1 THEN {"MissingClaim"}
                             ELSE IF iat > at + leeway THEN {"IssuedInFuture"}
                             ELSE IF at > iat + maxAge + leeway THEN {"TooOld"}
                             ELSE {}
    BY Times DEF AgeError, NoTime
  <2> HIDE DEF iat, maxAge, leeway
  <2>2. maxAge > 0 => iat # -1 /\ ~(iat > at + leeway) /\ ~(at > iat + maxAge + leeway)
    BY <1>1, <2>1
  <2>3. maxAge > 0 => iat # -1 /\ at >= iat - leeway /\ at <= iat + maxAge + leeway
    BY <2>1, <2>2
  <2> QED
    BY <2>3 DEF iat, maxAge, leeway, NoTime
<1> QED
  BY <1>2, <1>3, <1>4 DEF WithinLimits

\* The instant that the claims were read with is one of the verification.
Timely(v) ==
  /\ pc[v] # "idle" => since[v].now <= now
  /\ pc[v] = "record" => \E at \in since[v].now .. now : WithinLimits(call[v], at)

TimelyInv == RInv /\ \A v \in Verifiers : Timely(v)

\* Time passes, or another goroutine runs.
LEMMA TimelyKept ==
  ASSUME NEW v \in Verifiers, HeldInv, now \in Nat, now' \in Nat, now <= now', Timely(v),
         pc'[v] = pc[v], call'[v] = call[v], since'[v] = since[v]
  PROVE  Timely(v)'
<1>1. since[v].now \in Nat
  BY DEF HeldInv
<1>2. since[v].now .. now \subseteq since[v].now .. now'
  BY <1>1
<1>3. pc[v] # "idle" => since[v].now <= now'
  BY <1>1 DEF Timely
<1>4. pc[v] = "record" => \E at \in since[v].now .. now' : WithinLimits(call[v], at)
  BY <1>2 DEF Timely
<1> QED
  BY <1>3, <1>4 DEF Timely, WithinLimits

\* CheckClaims reads the claims with the clock as it is.
LEMMA CheckTimely ==
  ASSUME TimelyInv, NEW v \in Verifiers, CheckClaims(v),
         ClaimsError(call[v], types[v], now) = {}
  PROVE  \E at \in since[v].now .. now : WithinLimits(call[v], at)
<1>1. call[v] \in Calls /\ now \in Nat /\ since[v].now \in Nat /\ since[v].now <= now
  BY Bounds DEF CheckClaims, TimelyInv, Timely, RInv, WayInv, IInv, TypeOK, HeldInv
<1>2. WithinLimits(call[v], now)
  BY <1>1, NoErrorWithinLimits
<1> QED
  BY <1>1, <1>2

\* A step that ends, or leaves alone, each of the other verifications.
LEMMA StepTimely ==
  ASSUME TimelyInv, [Next]_vars
  PROVE  TimelyInv'
<1> USE DEF TimelyInv
<1>1. RInv'
  BY StepRInv
<1>2. now \in Nat /\ now' \in Nat /\ HeldInv
  BY <1>1, Bounds DEF RInv, WayInv, IInv, TypeOK
<1>3. CASE UNCHANGED own /\ (UNCHANGED now \/ Tick)
  <2>1. UNCHANGED <<pc, call, since>> /\ now <= now'
    BY <1>2, <1>3 DEF own, Tick
  <2>2. ASSUME NEW v \in Verifiers PROVE Timely(v)'
    BY <1>2, <2>1, TimelyKept
  <2> QED
    BY <1>1, <2>2
<1>4. ASSUME NEW u \in Verifiers, (\E c \in Calls : Begin(u, c) \/ Unsigned(u, c)) \/ Step(u)
      PROVE  \A v \in Verifiers : Timely(v)'
  <2>1. now' = now
    BY <1>4 DEF Begin, Unsigned, Step, GotKeys, FirstAttempt, Refreshed, SecondAttempt,
                CheckClaims, Record, RecordFails
  <2>2. /\ \E step : pc' = [pc EXCEPT ![u] = step]
        /\ \/ UNCHANGED <<call, since>>
           \/ \E c, s : call' = [call EXCEPT ![u] = c] /\ since' = [since EXCEPT ![u] = s]
    BY <1>4 DEF Begin, Unsigned, Step, GotKeys, FirstAttempt, Refreshed, SecondAttempt,
                CheckClaims, Record, RecordFails, Passes, Fails, Return, Goto
  <2>3. ASSUME NEW v \in Verifiers, v # u PROVE Timely(v)'
    <3>1. pc'[v] = pc[v] /\ call'[v] = call[v] /\ since'[v] = since[v]
      BY <2>2, <2>3 DEF RInv, WayInv, HeldInv, IInv, TypeOK
    <3> QED
      BY <1>2, <2>1, <3>1, TimelyKept
  <2>4. Timely(u)'
    <3>1. CASE pc'[u] = "idle"
      BY <3>1 DEF Timely
    <3>2. CASE \E c \in Calls : Begin(u, c)
      <4>1. /\ pc' = [pc EXCEPT ![u] = "get"]
            /\ since' = [since EXCEPT ![u] = [known |-> known, now |-> now]]
        BY <3>2 DEF Begin, Goto
      <4> QED
        BY <1>2, <2>1, <4>1 DEF Timely, HeldInv, RInv, WayInv, IInv, TypeOK
    <3>3. CASE Step(u) /\ ~CheckClaims(u) /\ pc'[u] # "idle"
      <4>1. UNCHANGED <<call, since>> /\ pc[u] # "idle" /\ pc'[u] # "record"
        BY <3>3 DEF Step, GotKeys, FirstAttempt, Refreshed, SecondAttempt, Record, RecordFails,
                    Passes, Fails, Return, Goto, RInv, IInv, TypeOK
      <4> QED
        BY <2>1, <4>1 DEF Timely
    <3>4. CASE CheckClaims(u) /\ pc'[u] # "idle"
      <4>1. /\ UNCHANGED <<call, since>> /\ pc[u] = "claims"
            /\ ClaimsError(call[u], types[u], now) = {}
        BY <3>4 DEF CheckClaims, Return, Goto, RInv, IInv, TypeOK
      <4>2. \E at \in since[u].now .. now : WithinLimits(call[u], at)
        BY <3>4, <4>1, CheckTimely
      <4> QED
        BY <2>1, <4>1, <4>2 DEF Timely, WithinLimits
    <3>5. ASSUME NEW c \in Calls, Unsigned(u, c) PROVE pc'[u] = "idle"
      BY <3>5 DEF Unsigned, Return, Goto, RInv, IInv, TypeOK
    <3> QED
      BY <1>4, <3>1, <3>2, <3>3, <3>4, <3>5
  <2> QED
    BY <2>3, <2>4
<1>5. CASE \E u \in Verifiers : (\E c \in Calls : Begin(u, c) \/ Unsigned(u, c)) \/ Step(u)
  BY <1>1, <1>4, <1>5
<1> QED
  BY <1>1, <1>3, <1>5 DEF Next, Source, Forget, vars, Tick

\* An accepted token was within all its limits at one instant of the verification
\* (token.go, checkClaims and checkAge).
THEOREM Lifetime == Spec => InLifetime
<1>1. Init => TimelyInv
  BY InitRInv DEF Init, TimelyInv, Timely
<1>2. TimelyInv /\ [Next]_vars =>
        \A v \in Verifiers : Accepts(v) =>
          \E at \in since[v].now .. now : WithinLimits(call[v], at)
  <2> SUFFICES ASSUME TimelyInv, [Next]_vars, NEW v \in Verifiers, Accepts(v)
               PROVE  \E at \in since[v].now .. now : WithinLimits(call[v], at)
    OBVIOUS
  <2>1. CheckClaims(v) \/ Record(v)
    BY AcceptsLate DEF TimelyInv
  <2>2. CASE Record(v)
    BY <2>2 DEF Record, TimelyInv, Timely
  <2>3. CASE CheckClaims(v)
    <3>1. verdict'[v] = {} /\ pc'[v] = "idle"
      BY DEF Accepts, Ends
    <3>2. \A e : Return(v, e) => verdict'[v] = e
      BY DEF Return, TimelyInv, RInv, WayInv, HeldInv
    <3>3. ClaimsError(call[v], types[v], now) = {}
      BY <2>3, <3>1, <3>2 DEF CheckClaims, Goto, TimelyInv, RInv, IInv, TypeOK
    <3> QED
      BY <2>3, <3>3, CheckTimely
  <2> QED
    BY <2>1, <2>2, <2>3
<1> QED
  BY <1>1, <1>2, StepTimely, PTL DEF Spec, InLifetime

(* The types that were checked, and the keys that did not suffice *)

\* The "typ" of a signature of a token that arrives.
Types == UNION {{Carried[c].sigs[i].typ : i \in DOMAIN Carried[c].sigs} : c \in Calls}

\* An attempt gives types of the signatures of the call; one that succeeds gives
\* those of as many backed signatures as the configuration asks for.
Authenticated(c, ts, keys) ==
  Enough(c, LAMBDA sig : Backed(c, sig, keys) /\ \E i \in DOMAIN ts : ts[i] = sig.typ)

LEMMA TypesOfSigs ==
  ASSUME NEW c \in Calls, NEW n \in Nat, n <= Len(Carried[c].sigs)
  PROVE  LET ts == TypesOf(SubSeq(Carried[c].sigs, 1, n))
         IN ts \in Seq(Types) /\ DOMAIN ts = 1..n /\ \A i \in 1..n : ts[i] = Carried[c].sigs[i].typ
<1> DEFINE sigs == Carried[c].sigs
           some == SubSeq(sigs, 1, n)
<1>1. /\ sigs \in Seq(ToSet(sigs)) /\ Len(sigs) \in Nat /\ DOMAIN sigs = 1..Len(sigs)
      /\ \A i \in DOMAIN sigs : sigs[i].typ \in Types
  BY SignaturesNumbered DEF Types
<1> HIDE DEF sigs
<1>2. Len(some) = n /\ DOMAIN some = 1..n /\ \A i \in 1..n : some[i] = sigs[i]
  BY <1>1 DEF sigs
<1> HIDE DEF some
<1>3. TypesOf(some) = [i \in 1..n |-> some[i].typ]
  BY <1>2 DEF TypesOf
<1>4. \A i \in 1..n : some[i].typ = sigs[i].typ /\ sigs[i].typ \in Types
  BY <1>1, <1>2 DEF sigs
<1>5. TypesOf(some) \in Seq(Types)
  BY <1>3, <1>4
<1> QED
  BY <1>3, <1>4, <1>5 DEF some, sigs

LEMMA AttemptTypes ==
  ASSUME NEW c \in Calls, NEW keys
  PROVE  /\ Attempt(c, keys).types \in Seq(Types)
         /\ Attempt(c, keys).err = {} => Authenticated(c, Attempt(c, keys).types, keys)
<1> DEFINE sigs == Carried[c].sigs
           last == Reached(c, keys)
           ts == Attempt(c, keys).types
<1>1. /\ DOMAIN sigs = 1..Len(sigs) /\ Len(sigs) \in Nat
      /\ \A i \in DOMAIN sigs : sigs[i].typ \in Types
  BY SignaturesNumbered DEF Types
<1>2. last = 0 \/ last \in DOMAIN sigs
  BY ReachedStops
<1>3. CASE Config[c].allSignatures
  <2>1. TypesOf(sigs) \in Seq(Types) /\ DOMAIN TypesOf(sigs) = DOMAIN sigs
    BY <1>1 DEF TypesOf
  <2>2. last # 0 => TypesOf(SubSeq(sigs, 1, last - 1)) \in Seq(Types)
    <3>1. last # 0 => last - 1 \in Nat /\ last - 1 <= Len(sigs)
      BY <1>1, <1>2
    <3> QED
      BY <3>1, TypesOfSigs
  <2>3. ts \in Seq(Types)
    BY <1>3, <2>1, <2>2 DEF Attempt
  <2>4. ASSUME Attempt(c, keys).err = {} PROVE Authenticated(c, ts, keys)
    <3>1. \A i \in DOMAIN sigs : Backed(c, sigs[i], keys)
      BY <1>3, <2>4, AttemptSatisfied DEF Satisfied, Enough
    <3>2. last = 0
      BY <1>3, <2>4, ReachedStops, Zenon DEF Attempt, Stops
    <3>3. ts = TypesOf(sigs)
      BY <1>3, <3>2 DEF Attempt
    <3>4. \A i \in DOMAIN sigs : TypesOf(sigs)[i] = sigs[i].typ
      BY DEF TypesOf
    <3> QED
      BY <1>3, <2>1, <3>1, <3>3, <3>4 DEF Authenticated, Enough
  <2> QED
    BY <2>3, <2>4
<1>4. CASE ~Config[c].allSignatures
  <2>1. CASE last = 0
    BY <1>4, <2>1 DEF Attempt
  <2>2. CASE last # 0 /\ ~sigs[last].wellFormed
    BY <1>4, <2>2 DEF Attempt
  <2>3. CASE last # 0 /\ sigs[last].wellFormed
    <3>1. ts = <<sigs[last].typ>> /\ last \in DOMAIN sigs
      BY <1>2, <1>4, <2>3 DEF Attempt
    <3>2. Backed(c, sigs[last], keys)
      <4>1. Stops(c, sigs[last], keys)
        BY <2>3, ReachedStops
      <4>2. SignatureError(c, sigs[last], keys) = {}
        BY <1>4, <2>3, <4>1, CallsAssumption, <3>1, Zenon DEF Stops
      <4> QED
        BY <4>2, NoErrorBacked
    <3>3. 1 \in DOMAIN ts /\ ts[1] = sigs[last].typ /\ ts \in Seq(Types)
      BY <1>1, <3>1
    <3> QED
      BY <1>4, <3>1, <3>2, <3>3 DEF Authenticated, Enough
  <2> QED
    BY <2>1, <2>2, <2>3
<1> QED
  BY <1>3, <1>4

\* An attempt that fails had keys that do not authenticate the token.
LEMMA AttemptRejects ==
  ASSUME NEW c \in Calls, NEW keys, OfPublished(c, keys)
  PROVE  Attempt(c, keys).err = {}
<1> DEFINE sigs == Carried[c].sigs
           last == Reached(c, keys)
           Good(sig) == /\ sig.alg \in Permitted(c) /\ ~HeaderError(c, sig)
                        /\ \E k \in DOMAIN keys : Vouches(keys[k], sig)
<1>1. \A i \in DOMAIN sigs : sigs[i].wellFormed
  BY DEF OfPublished
<1>2. ASSUME NEW sig, Good(sig) PROVE SignatureError(c, sig, keys) = {}
  <2>1. sig.signer \in Material(c, sig, keys)
    BY <1>2 DEF Vouches, Material, SuitableIn
  <2> QED
    BY <1>2, <2>1 DEF SignatureError
<1>3. IF Config[c].allSignatures THEN \A i \in DOMAIN sigs : Good(sigs[i])
      ELSE \E i \in DOMAIN sigs : Good(sigs[i])
  BY DEF OfPublished, Enough
<1> HIDE DEF Good
<1>4. CASE Config[c].allSignatures
  <2>1. \A i \in DOMAIN sigs : ~Stops(c, sigs[i], keys)
    BY <1>1, <1>2, <1>3, <1>4 DEF Stops
  <2>2. last = 0
    BY <2>1, ReachedStops
  <2> QED
    BY <1>4, <2>2 DEF Attempt
<1>5. CASE ~Config[c].allSignatures
  <2>1. PICK i \in DOMAIN sigs : SignatureError(c, sigs[i], keys) = {}
    BY <1>2, <1>3, <1>5
  <2>2. Stops(c, sigs[i], keys)
    BY <1>5, <2>1, CallsAssumption, Zenon DEF Stops
  <2>3. last # 0 /\ last \in DOMAIN sigs
    BY <2>2, ReachedStops
  <2> QED
    BY <1>1, <1>5, <2>3 DEF Attempt
<1> QED
  BY <1>4, <1>5

\* As many backed signatures as the configuration asks for have types it permits.
AcceptedTypes(c, keys) ==
  Enough(c, LAMBDA sig : TypeAccepted(c, sig.typ) /\ Backed(c, sig, keys))

\* After an attempt that failed, a set that may be relied on does not authenticate
\* the token; after one that succeeded, the types are of signatures that such a
\* set backs; and after the claims, they are accepted.
Found(v) ==
  /\ pc[v] = "refresh" => \E w \in Current(v) : ~OfPublished(call[v], Published[w])
  /\ pc[v] = "claims" => \E w \in Current(v) : Authenticated(call[v], types[v], Published[w])
  /\ pc[v] = "record" => \E w \in Current(v) : AcceptedTypes(call[v], Published[w])

FoundInv ==
  /\ RInv
  /\ types \in [Verifiers -> Seq(Types)]
  /\ \A v \in Verifiers : Found(v)

\* No step withdraws a publication.
LEMMA VersionGrows ==
  ASSUME RInv, [Next]_vars
  PROVE  version <= version' /\ version \in Nat /\ version' \in Nat
<1>1. version \in Nat
  BY Bounds DEF RInv, WayInv, HeldInv
<1>2. version' = version \/ version' = version + 1
  BY DEF Next, vars, ksVars, Tick, Source, Forget, Step, Begin, Unsigned, GotKeys, FirstAttempt,
         Refreshed, SecondAttempt, CheckClaims, Record, RecordFails, Passes, Fails,
         KS!Begin, KS!End, KS!Publish, KS!Learn
<1> QED
  BY <1>1, <1>2

LEMMA CurrentGrows ==
  ASSUME RInv, [Next]_vars, NEW v \in Verifiers, since'[v] = since[v]
  PROVE  Current(v) \subseteq Current(v)'
BY VersionGrows DEF Current

LEMMA FoundKept ==
  ASSUME RInv, [Next]_vars, NEW v \in Verifiers, Found(v),
         pc'[v] = pc[v], call'[v] = call[v], since'[v] = since[v], types'[v] = types[v]
  PROVE  Found(v)'
<1>1. Current(v) \subseteq Current(v)'
  BY CurrentGrows
<1> QED
  BY <1>1 DEF Found

\* A verification that a step of u does not end and does not start stays as it is.
LEMMA OthersKept ==
  ASSUME RInv, types \in [Verifiers -> Seq(Types)], NEW u \in Verifiers,
         (\E c \in Calls : Begin(u, c) \/ Unsigned(u, c)) \/ Step(u),
         NEW v \in Verifiers, v # u
  PROVE  /\ pc'[v] = pc[v] /\ call'[v] = call[v] /\ since'[v] = since[v]
         /\ types'[v] = types[v]
<1>1. /\ \E step : pc' = [pc EXCEPT ![u] = step]
      /\ \/ UNCHANGED <<call, since>>
         \/ \E c, s : call' = [call EXCEPT ![u] = c] /\ since' = [since EXCEPT ![u] = s]
      /\ types' = types \/ \E ts : types' = [types EXCEPT ![u] = ts]
  BY DEF Begin, Unsigned, Step, GotKeys, FirstAttempt, Refreshed, SecondAttempt,
         CheckClaims, Record, RecordFails, Passes, Fails, Return, Goto
<1> QED
  BY <1>1 DEF RInv, WayInv, HeldInv, IInv, TypeOK

\* What the two attempts find.
LEMMA TriedIs ==
  ASSUME RInv, NEW v \in Verifiers, pc[v] \in {"attempt", "retry"}
  PROVE  /\ call[v] \in Calls /\ given[v] \in Current(v)
         /\ Tried(v) = Attempt(call[v], Published[given[v]])
<1>1. given[v] \in Current(v) /\ given[v] \in 1..MaxVersion /\ call[v] \in Calls
  BY DEF RInv, WayInv, Way, IInv, TypeOK
<1>2. Attempts[call[v]][given[v]] = Attempt(call[v], Published[given[v]])
  BY <1>1 DEF Attempts
<1> QED
  BY <1>1, <1>2 DEF Tried

\* The types of an attempt join those of the one before.
LEMMA TypesJoin ==
  ASSUME NEW c \in Calls, NEW keys, NEW ts \in Seq(Types), NEW tried, tried = Attempt(c, keys)
  PROVE  /\ ts \o tried.types \in Seq(Types)
         /\ tried.err = {} => Authenticated(c, ts \o tried.types, keys)
<1> DEFINE more == tried.types
           joined == ts \o more
<1>1. more \in Seq(Types) /\ (tried.err = {} => Authenticated(c, more, keys))
  BY AttemptTypes
<1> HIDE DEF more
<1>2. joined \in Seq(Types)
  BY <1>1
<1>3. \A i \in DOMAIN more : i + Len(ts) \in DOMAIN joined /\ joined[i + Len(ts)] = more[i]
  BY <1>1
<1> HIDE DEF joined
<1>4. Authenticated(c, more, keys) => Authenticated(c, joined, keys)
  BY <1>3 DEF Authenticated, Enough
<1> QED
  BY <1>1, <1>2, <1>4 DEF more, joined

LEMMA AttemptFound ==
  ASSUME FoundInv, [Next]_vars, NEW v \in Verifiers, FirstAttempt(v) \/ SecondAttempt(v)
  PROVE  types' \in [Verifiers -> Seq(Types)] /\ Found(v)'
<1> USE DEF FoundInv
<1> DEFINE keys == Published[given[v]]
           tried == Attempt(call[v], keys)
           joined == types[v] \o tried.types
<1>1. /\ pc[v] \in {"attempt", "retry"}
      /\ \/ Passes(v, Tried(v))
         \/ (\E e : Return(v, e))
         \/ /\ pc' = [pc EXCEPT ![v] = "refresh"]
            /\ Tried(v).err # {}
            /\ types' = [types EXCEPT ![v] = types[v] \o Tried(v).types]
            /\ UNCHANGED <<call, since>>
  BY DEF FirstAttempt, SecondAttempt, CallsRefresh, Fails, Goto
<1>2. /\ call[v] \in Calls /\ given[v] \in Current(v)
      /\ Tried(v) = tried
  BY <1>1, TriedIs
<1>3. joined \in Seq(Types) /\ (tried.err = {} => Authenticated(call[v], joined, keys))
  BY <1>2, TypesJoin
<1>4. tried.err # {} => ~OfPublished(call[v], keys)
  BY <1>2, AttemptRejects
<1>5. DOMAIN pc = Verifiers /\ DOMAIN call = Verifiers /\ DOMAIN types = Verifiers
  BY DEF RInv, IInv, TypeOK
<1> HIDE DEF tried, joined, keys
<1>6. CASE Passes(v, Tried(v))
  <2>1. /\ tried.err = {} /\ types' = [types EXCEPT ![v] = joined]
        /\ pc' = [pc EXCEPT ![v] = "claims"] /\ UNCHANGED <<call, since>>
    BY <1>2, <1>6 DEF Passes, Goto, joined
  <2>2. given[v] \in Current(v)'
    BY <1>2, <2>1, CurrentGrows
  <2>3. Authenticated(call'[v], types'[v], Published[given[v]])
    BY <1>3, <1>5, <2>1 DEF keys
  <2>4. pc'[v] = "claims"
    BY <1>5, <2>1
  <2>5. Found(v)'
    BY <2>2, <2>3, <2>4 DEF Found
  <2> QED
    BY <1>3, <2>1, <2>5
<1>7. CASE \E e : Return(v, e)
  BY <1>5, <1>7 DEF Return, Goto, Found
<1>8. CASE /\ pc' = [pc EXCEPT ![v] = "refresh"]
           /\ Tried(v).err # {}
           /\ types' = [types EXCEPT ![v] = types[v] \o Tried(v).types]
           /\ UNCHANGED <<call, since>>
  <2>1. given[v] \in Current(v)'
    BY <1>2, <1>8, CurrentGrows
  <2>2. ~OfPublished(call'[v], Published[given[v]])
    BY <1>2, <1>4, <1>8 DEF keys
  <2>3. pc'[v] = "refresh"
    BY <1>5, <1>8
  <2>4. Found(v)'
    BY <2>1, <2>2, <2>3 DEF Found
  <2>5. types' = [types EXCEPT ![v] = joined]
    BY <1>2, <1>8 DEF joined
  <2> QED
    BY <1>3, <2>4, <2>5
<1> QED
  BY <1>1, <1>6, <1>7, <1>8

\* Claims without an error have accepted types.
LEMMA CheckFound ==
  ASSUME FoundInv, NEW v \in Verifiers, CheckClaims(v),
         ClaimsError(call[v], types[v], now) = {}
  PROVE  \E w \in Current(v) : AcceptedTypes(call[v], Published[w])
<1>1. \A i \in DOMAIN types[v] : TypeAccepted(call[v], types[v][i])
  BY DEF ClaimsError
<1>2. PICK w \in Current(v) : Authenticated(call[v], types[v], Published[w])
  BY DEF CheckClaims, FoundInv, Found
<1>3. AcceptedTypes(call[v], Published[w])
  BY <1>1, <1>2 DEF Authenticated, AcceptedTypes, Enough
<1> QED
  BY <1>3

LEMMA StepFound ==
  ASSUME FoundInv, [Next]_vars
  PROVE  FoundInv'
<1> USE DEF FoundInv
<1>1. RInv'
  BY StepRInv
<1>2. CASE UNCHANGED own
  <2>1. UNCHANGED <<pc, call, since, types>>
    BY <1>2 DEF own
  <2>2. ASSUME NEW v \in Verifiers PROVE Found(v)'
    BY <2>1, FoundKept
  <2> QED
    BY <1>1, <2>1, <2>2
<1>3. ASSUME NEW u \in Verifiers, (\E c \in Calls : Begin(u, c) \/ Unsigned(u, c)) \/ Step(u)
      PROVE  types' \in [Verifiers -> Seq(Types)] /\ \A v \in Verifiers : Found(v)'
  <2>1. ASSUME NEW v \in Verifiers, v # u PROVE Found(v)'
    <3>1. pc'[v] = pc[v] /\ call'[v] = call[v] /\ since'[v] = since[v] /\ types'[v] = types[v]
      BY <1>3, <2>1, OthersKept
    <3> QED
      BY <3>1, FoundKept
  <2>2. types' \in [Verifiers -> Seq(Types)] /\ Found(u)'
    <3>1. CASE FirstAttempt(u) \/ SecondAttempt(u)
      BY <3>1, AttemptFound
    <3>2. CASE ~(FirstAttempt(u) \/ SecondAttempt(u))
      <4>1. types' = types \/ types' = [types EXCEPT ![u] = <<>>]
        BY <1>3, <3>2 DEF Begin, Unsigned, Step, GotKeys, Refreshed, CheckClaims, Record,
                          RecordFails, Return
      <4>2. types' \in [Verifiers -> Seq(Types)]
        <5>1. <<>> \in Seq(Types)
          OBVIOUS
        <5> QED
          BY <4>1, <5>1
      <4>3. CASE pc'[u] \notin {"refresh", "claims", "record"}
        BY <4>2, <4>3 DEF Found
      <4>4. CASE pc'[u] \in {"refresh", "claims", "record"}
        <5>1. /\ CheckClaims(u) /\ UNCHANGED <<call, since>> /\ pc'[u] = "record"
              /\ ClaimsError(call[u], types[u], now) = {}
          BY <1>3, <3>2, <4>4 DEF Begin, Unsigned, Step, GotKeys, Refreshed, CheckClaims, Record,
                                  RecordFails, Return, Goto, RInv, IInv, TypeOK
        <5>2. Current(u) \subseteq Current(u)'
          BY <5>1, CurrentGrows
        <5> QED
          BY <4>2, <5>1, <5>2, CheckFound DEF Found
      <4> QED
        BY <4>3, <4>4
    <3> QED
      BY <3>1, <3>2
  <2> QED
    BY <2>1, <2>2
<1>4. UNCHANGED own \/ \E u \in Verifiers : (\E c \in Calls : Begin(u, c) \/ Unsigned(u, c)) \/ Step(u)
  BY DEF Next, Source, Forget, Tick, vars
<1> QED
  BY <1>1, <1>2, <1>3, <1>4

LEMMA InitFound == Init => FoundInv
<1>1. Init => types \in [Verifiers -> Seq(Types)]
  BY DEF Init
<1> QED
  BY <1>1, InitRInv DEF Init, FoundInv, Found

\* The "typ" of an accepted token is one that the configuration permits and that
\* an accepted signature covers (token.go, checkType and verifySignatures).
THEOREM SignedType == Spec => TypeIsSigned
<1>1. FoundInv /\ [Next]_vars =>
        \A v \in Verifiers : Accepts(v) =>
          \E w \in Current(v) :
            Enough(call[v], LAMBDA sig : /\ TypeAccepted(call[v], sig.typ)
                                         /\ Backed(call[v], sig, Published[w]))
  <2> SUFFICES ASSUME FoundInv, [Next]_vars, NEW v \in Verifiers, Accepts(v)
               PROVE  \E w \in Current(v) : AcceptedTypes(call[v], Published[w])
    BY DEF AcceptedTypes
  <2>1. CheckClaims(v) \/ Record(v)
    BY AcceptsLate DEF FoundInv
  <2>2. CASE Record(v)
    BY <2>2 DEF Record, FoundInv, Found
  <2>3. CASE CheckClaims(v)
    <3>1. verdict'[v] = {} /\ pc'[v] = "idle"
      BY DEF Accepts, Ends
    <3>2. \A e : Return(v, e) => verdict'[v] = e
      BY DEF Return, FoundInv, RInv, WayInv, HeldInv
    <3>3. ClaimsError(call[v], types[v], now) = {}
      BY <2>3, <3>1, <3>2 DEF CheckClaims, Goto, FoundInv, RInv, IInv, TypeOK
    <3> QED
      BY <2>3, <3>3, CheckFound
  <2> QED
    BY <2>1, <2>2, <2>3
<1> QED
  BY InitFound, StepFound, <1>1, PTL DEF Spec, TypeIsSigned

\* A token that each key set published meanwhile authenticates is not rejected for
\* its signatures, whichever of the sets the source gives and when (token.go,
\* withKeys and verifySignatures).
THEOREM PublishedSuffices == Spec => PublishedKeySuffices
<1>1. FoundInv /\ [Next]_vars =>
        \A v \in Verifiers :
          Ends(v) /\ verdict'[v] \intersect OfSignatures # {}
            => \E w \in Current(v) : ~OfPublished(call[v], Published[w])
  <2> SUFFICES ASSUME FoundInv, [Next]_vars, NEW v \in Verifiers,
                      Ends(v), verdict'[v] \intersect OfSignatures # {}
               PROVE  \E w \in Current(v) : ~OfPublished(call[v], Published[w])
    OBVIOUS
  <2>1. pc[v] # "idle" /\ pc'[v] = "idle"
    BY DEF Ends
  <2>2. \A e : Return(v, e) => verdict'[v] = e
    BY DEF Return, FoundInv, RInv, WayInv, HeldInv
  <2>3. PICK u \in Verifiers : (\E c \in Calls : Begin(u, c) \/ Unsigned(u, c)) \/ Step(u)
    BY <2>1 DEF Next, Tick, Source, Forget, vars, own
  <2>4. u = v
    BY <2>1, <2>3, OthersKept DEF FoundInv
  <2>5. Step(v)
    BY <2>1, <2>3, <2>4 DEF Begin, Unsigned
  <2>6. CASE Refreshed(v)
    BY <2>6 DEF Refreshed, FoundInv, Found
  <2>7. CASE FirstAttempt(v) \/ SecondAttempt(v)
    <3>1. pc[v] \in {"attempt", "retry"} /\ Tried(v).err # {}
      BY <2>1, <2>7 DEF FirstAttempt, SecondAttempt, Passes, Fails, CallsRefresh, Goto,
                        FoundInv, RInv, IInv, TypeOK
    <3> QED
      BY <3>1, TriedIs, AttemptRejects DEF FoundInv
  <2>8. ~GotKeys(v)
    BY <2>1, <2>2 DEF GotKeys, OfSignatures, Goto, FoundInv, RInv, IInv, TypeOK
  <2>9. ~CheckClaims(v)
    <3>1. ClaimsError(call[v], types[v], now) \intersect OfSignatures = {}
      BY DEF ClaimsError, AgeError, OfSignatures
    <3> QED
      BY <2>1, <2>2, <3>1 DEF CheckClaims, OfSignatures, Goto, FoundInv, RInv, IInv, TypeOK
  <2>10. ~Record(v) /\ ~RecordFails(v)
    BY <2>2 DEF Record, RecordFails, OfSignatures
  <2> QED
    BY <2>5, <2>6, <2>7, <2>8, <2>9, <2>10 DEF Step
<1> QED
  BY InitFound, StepFound, <1>1, PTL DEF Spec, PublishedKeySuffices
=============================================================================
