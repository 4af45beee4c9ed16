------------------------- MODULE RemoteSourceProofs -------------------------
(***************************************************************************)
(* Proofs about RemoteSource for any number of callers, any intervals and  *)
(* any number of publications.                                             *)
(***************************************************************************)
EXTENDS RemoteSource, TLAPS

\* A fetch that is over, and the answer of a host, is a set or an error; the
\* throttle is never part of it.
Decided(r) ==
  /\ (r.set = NoSet) # (r.err = NoError)
  /\ "TooSoon" \notin r.err

\* What the source holds: nothing before the first request ended, then keys
\* or the reason why there are none.
HoldsInv ==
  /\ cached <= version
  /\ "TooSoon" \notin failure
  /\ age = Never <=> cached = NoSet /\ failure = NoError

\* Between requests, at least the age of the keys has passed since one began.
ThrottleInv ==
  inflight = None => IF age = Never THEN sinceStart = Horizon ELSE age <= sinceStart

\* What each call has in hand, and how it compares with the keys held.
CallInv(c) ==
  /\ floor[c] <= cached
  /\ pc[c] \in {"get", "load"} => result[c] = NoResult
  /\ pc[c] = "requesting" =>
       /\ result[c] # NoResult => Decided(result[c])
       /\ result[c].set # NoSet => cached <= result[c].set /\ result[c].set <= version
  /\ pc[c] \in {"closing", "woken"} =>
       /\ Decided(result[c])
       /\ result[c].set # NoSet => floor[c] <= result[c].set /\ result[c].set <= cached

\* A waiter whose fetch is over but not closed is owed keys it can accept.
WaitInv ==
  \A c, d \in Callers :
    (pc[c] = "waiting" /\ current[c] = d /\ pc[d] = "closing" /\ result[d].set # NoSet)
      => floor[c] <= result[d].set

IInv ==
  /\ Typed
  /\ SingleFlight
  /\ HoldsInv
  /\ ThrottleInv
  /\ \A c \in Callers : CallInv(c)
  /\ WaitInv

USE IntervalsAssumption, ConstantsAssumption, FailuresAssumption

\* What calls and hosts give is a result.
LEMMA ResultTypes ==
  /\ \A v \in Sets : Gives(v) \in Results
  /\ \A e \in Errors : Fails(e) \in Results
  /\ NoResult \in Results
BY DEF Gives, Fails, NoResult, Results, Sets, Errors, NoError, NoSet

\* Every step keeps every variable in its type.
LEMMA TypedStep == Typed /\ [Next]_vars => Typed'
<1> SUFFICES ASSUME Typed, [Next]_vars PROVE Typed'
  OBVIOUS
<1> USE DEF Typed, Sets, Versions, Errors, Results, Steps, NoSet, NoError, Never, NoResult
<1>1. ASSUME NEW c \in Callers, NEW refresh \in BOOLEAN, Call(c, refresh)
      PROVE  Typed'
  BY <1>1 DEF Call, source
<1>2. ASSUME NEW c \in Callers, NEW r \in Answers, Answer(c, r)
      PROVE  Typed'
  BY <1>2 DEF Answer, Answers, Gives, Fails, source
<1>3. ASSUME NEW c \in Callers, GetCached(c) \/ LoadCached(c) PROVE Typed'
  <2> Gives(cached) \in Results
    BY ResultTypes
  <2>1. Return(c, Gives(cached)) /\ UNCHANGED <<source, version, sinceStart>>
    BY <1>3 DEF GetCached, LoadCached
  <2> HIDE DEF Results
  <2> QED
    BY <2>1 DEF Return, Forget, source
<1>4. ASSUME NEW c \in Callers, GetLoad(c) PROVE Typed'
  BY <1>4 DEF GetLoad, source
<1>5. ASSUME NEW c \in Callers, LoadThrottled(c) PROVE Typed'
  BY <1>5 DEF LoadThrottled, Return, Forget, Gives, Fails, source
<1>6. ASSUME NEW c \in Callers, LoadJoin(c) PROVE Typed'
  BY <1>6 DEF LoadJoin, source
<1>7. ASSUME NEW c \in Callers, LoadStart(c) PROVE Typed'
  BY <1>7 DEF LoadStart
<1>8. ASSUME NEW c \in Callers, NEW r \in Results, Finish(c, r) PROVE Typed'
  BY <1>8 DEF Finish, Settle
<1>9. ASSUME NEW c \in Callers, FinishAnswered(c) \/ FinishCanceled(c) \/ FinishDeadline(c)
      PROVE  \E r \in Results : Finish(c, r)
  BY <1>9 DEF FinishAnswered, FinishCanceled, FinishDeadline, Fails
<1>10. ASSUME NEW c \in Callers, Close(c) PROVE Typed'
  <2> HIDE DEF Results
  <2>1. pc' \in [Callers -> Steps]
    BY <1>10 DEF Close
  <2>2. result' \in [Callers -> Results]
    BY <1>10 DEF Close
  <2> QED
    BY <1>10, <2>1, <2>2 DEF Close, Forget, source
<1>11. ASSUME NEW c \in Callers, AwaitDone(c) \/ AwaitCanceled(c) PROVE Typed'
  <2>1. \E r \in Results : Return(c, r)
    BY <1>11, ResultTypes DEF AwaitDone, AwaitCanceled
  <2>2. UNCHANGED <<source, version, sinceStart>>
    BY <1>11 DEF AwaitDone, AwaitCanceled
  <2> HIDE DEF Results
  <2> QED
    BY <2>1, <2>2 DEF Return, Forget, source
<1>12. ASSUME NEW c \in Callers, Cancel(c) PROVE Typed'
  BY <1>12 DEF Cancel, source
<1>13. ASSUME Tick PROVE Typed'
  BY <1>13 DEF Tick, Older
<1>14. ASSUME Rotate PROVE Typed'
  BY <1>14 DEF Rotate, source
<1>15. ASSUME UNCHANGED vars PROVE Typed'
  BY <1>15 DEF vars, source
<1> QED
  BY <1>1, <1>2, <1>3, <1>4, <1>5, <1>6, <1>7, <1>8, <1>9, <1>10, <1>11, <1>12, <1>13, <1>14, <1>15
  DEF Next, Step

\* IInv is inductive: one step of the proof for each action.
LEMMA InvStep == IInv /\ [Next]_vars => IInv'
<1> SUFFICES ASSUME IInv, [Next]_vars PROVE IInv'
  OBVIOUS
<1>0. Typed'
  BY TypedStep DEF IInv
<1> USE DEF IInv, Typed, Sets, Versions, Steps, NoSet, Never, NoResult, NoError, source,
            SingleFlight, HoldsInv, ThrottleInv, CallInv, WaitInv, Decided
<1> DEFINE Parts == SingleFlight /\ HoldsInv /\ ThrottleInv /\ (\A c \in Callers : CallInv(c)) /\ WaitInv
<1>1. ASSUME NEW c \in Callers, NEW refresh \in BOOLEAN, Call(c, refresh) PROVE Parts'
  BY <1>1, <1>0 DEF Call
<1>2. ASSUME NEW c \in Callers, NEW r \in Answers, Answer(c, r) PROVE Parts'
  <2>1. Decided(r) /\ (r.set # NoSet => r.set = version)
    BY FailuresAssumption DEF Answers, Gives, Fails
  <2>2. \A d \in Callers : CallInv(d)'
    <3> HIDE DEF NoResult, NoError, Decided, SingleFlight, ThrottleInv, WaitInv
    <3> QED
      BY <1>2, <1>0, <2>1 DEF Answer
  <2> QED
    BY <1>2, <1>0, <2>2 DEF Answer
<1>3. ASSUME NEW c \in Callers, GetCached(c) PROVE Parts'
  BY <1>3, <1>0 DEF GetCached, Return, Forget, Fresh
<1>4. ASSUME NEW c \in Callers, GetLoad(c) PROVE Parts'
  BY <1>4, <1>0 DEF GetLoad
<1>5. ASSUME NEW c \in Callers, LoadCached(c) PROVE Parts'
  BY <1>5, <1>0 DEF LoadCached, Return, Forget, Fresh
<1>6. ASSUME NEW c \in Callers, LoadThrottled(c) PROVE Parts'
  BY <1>6, <1>0 DEF LoadThrottled, Return, Forget
<1>7. ASSUME NEW c \in Callers, LoadJoin(c) PROVE Parts'
  BY <1>7, <1>0 DEF LoadJoin
<1>8. ASSUME NEW c \in Callers, LoadStart(c) PROVE Parts'
  BY <1>8, <1>0 DEF LoadStart, Fresh, Throttled
<1>9. ASSUME NEW c \in Callers, FinishAnswered(c) PROVE Parts'
  <2>1. Decided(result[c]) /\ result[c] \in Results /\ cached <= cached' /\ cached' <= version
    BY <1>9 DEF FinishAnswered, Finish, Settle, Results
  <2>2. \A d \in Callers : CallInv(d)'
    <3> HIDE DEF NoResult, NoError, HoldsInv, ThrottleInv, WaitInv
    <3> QED
      BY <1>9, <1>0, <2>1 DEF FinishAnswered, Finish, Settle, Results
  <2> QED
    BY <1>9, <1>0, <2>1, <2>2 DEF FinishAnswered, Finish, Settle
<1>10. ASSUME NEW c \in Callers, FinishCanceled(c) PROVE Parts'
  BY <1>10, <1>0 DEF FinishCanceled, Finish, Settle, Fails
<1>11. ASSUME NEW c \in Callers, FinishDeadline(c) PROVE Parts'
  BY <1>11, <1>0 DEF FinishDeadline, Finish, Settle, Fails
<1>12. ASSUME NEW c \in Callers, Close(c) PROVE Parts'
  <2>1. ASSUME NEW d \in Callers PROVE CallInv(d)'
    <3>1. CASE d \in Waiters(c)
      BY <1>12, <3>1, <1>0 DEF Close, Forget, Waiters
    <3>2. CASE d \notin Waiters(c)
      BY <1>12, <3>2, <1>0 DEF Close, Forget
    <3> QED
      BY <3>1, <3>2
  <2> QED
    BY <1>12, <1>0, <2>1 DEF Close, Forget, Waiters
<1>13. ASSUME NEW c \in Callers, AwaitDone(c) PROVE Parts'
  BY <1>13, <1>0 DEF AwaitDone, Return, Forget
<1>14. ASSUME NEW c \in Callers, AwaitCanceled(c) PROVE Parts'
  BY <1>14, <1>0 DEF AwaitCanceled, Return, Forget
<1>15. ASSUME NEW c \in Callers, Cancel(c) PROVE Parts'
  BY <1>15, <1>0 DEF Cancel
<1>16. ASSUME Tick PROVE Parts'
  BY <1>16, <1>0 DEF Tick, Older
<1>17. ASSUME Rotate PROVE Parts'
  <2>1. \A d \in Callers : CallInv(d)'
    BY <1>17, <1>0 DEF Rotate, Results
  <2> QED
    BY <1>17, <1>0, <2>1 DEF Rotate
<1>18. ASSUME UNCHANGED vars PROVE Parts'
  BY <1>18, <1>0 DEF vars
<1>19. Parts'
  <2> HIDE DEF Parts, IInv
  <2> QED
    BY <1>1, <1>2, <1>3, <1>4, <1>5, <1>6, <1>7, <1>8, <1>9, <1>10, <1>11, <1>12,
       <1>13, <1>14, <1>15, <1>16, <1>17, <1>18
    DEF Next, Step
<1> QED
  BY <1>0, <1>19

\* The inductive invariant holds for ever.
THEOREM Invariance == Spec => []IInv
<1>1. Init => IInv
  <2> SUFFICES ASSUME Init PROVE IInv
    OBVIOUS
  <2>1. Typed
    BY DEF Init, Typed, Sets, Versions, Errors, Results, Steps, NoSet, NoError, Never, NoResult
  <2> QED
    BY <2>1 DEF Init, IInv, SingleFlight, HoldsInv, ThrottleInv, CallInv, WaitInv,
                NoSet, NoError, Never, NoResult
<1>2. QED
  BY <1>1, InvStep, PTL DEF Spec

\* Every variable has its type, and a source with a time of its last request
\* has keys or the failure of that request.
THEOREM TypeCorrect == Spec => []TypeOK
<1>1. IInv => TypeOK
  BY DEF IInv, HoldsInv, TypeOK
<1>2. QED
  BY <1>1, Invariance, PTL

\* One request at a time, for any number of goroutines (Source.load).
THEOREM OneRequest == Spec => []SingleFlight
BY Invariance, PTL DEF IInv

\* Only LoadStart begins a request, so RequestsSpaced is about its guard and
\* what ThrottleInv says of the time before it.
THEOREM Spacing == Spec => RequestsSpaced
<1>1. ASSUME IInv, [Next]_vars PROVE StartIsSpaced
  <2> SUFFICES ASSUME NEW c \in Callers, pc[c] # "requesting", pc'[c] = "requesting"
               PROVE  sinceStart >= Minimum
    BY DEF StartIsSpaced
  <2>1. LoadStart(c)
    BY <1>1 DEF IInv, Typed, Next, Step, vars, Call, Answer, GetCached, GetLoad, LoadCached,
       LoadThrottled, LoadJoin, LoadStart, FinishAnswered, FinishCanceled, FinishDeadline, Finish, Settle,
       Close, Waiters, AwaitDone, AwaitCanceled, Cancel, Tick, Rotate, Return
  <2> QED
    BY <1>1, <2>1 DEF LoadStart, Throttled, IInv, ThrottleInv, Typed, Never
<1>2. IInv /\ [Next]_vars => [StartIsSpaced]_vars
  BY <1>1
<1>3. QED
  BY <1>2, Invariance, PTL DEF Spec, RequestsSpaced

\* The six steps that end a call.
Ends(c) ==
  \/ GetCached(c) \/ LoadCached(c) \/ LoadThrottled(c)
  \/ Close(c) \/ AwaitDone(c) \/ AwaitCanceled(c)

\* A call ends by one of those steps, and by a step of its own goroutine.
LEMMA ReturnsByEnds ==
  ASSUME Typed, [Next]_vars, NEW c \in Callers, Returns(c)
  PROVE  Ends(c)
<1> USE DEF Typed, Returns
<1>1. ~(Tick \/ Rotate \/ UNCHANGED vars)
  BY DEF Tick, Rotate, vars
<1>2. PICK d \in Callers : \/ \E refresh \in BOOLEAN : Call(d, refresh)
                           \/ \E r \in Answers : Answer(d, r)
                           \/ Step(d) \/ Cancel(d)
  BY <1>1 DEF Next
<1>3. Step(d)
  BY <1>2 DEF Call, Answer, Cancel
<1>4. ~(GetLoad(d) \/ LoadJoin(d) \/ LoadStart(d))
  BY DEF GetLoad, LoadJoin, LoadStart
<1>5. ~(FinishAnswered(d) \/ FinishCanceled(d) \/ FinishDeadline(d))
  BY DEF FinishAnswered, FinishCanceled, FinishDeadline, Finish, Settle
<1>6. Ends(d)
  BY <1>3, <1>4, <1>5 DEF Step, Ends
<1>7. d = c
  BY <1>6 DEF Ends, GetCached, LoadCached, LoadThrottled, Close, AwaitDone, AwaitCanceled, Return
<1> QED
  BY <1>6, <1>7

\* What a call gives when it ends: keys no older than its floor and no newer
\* than the source holds, or an error that explains itself.
LEMMA WhatCallsGive ==
  ASSUME IInv, [Next]_vars, NEW c \in Callers, Returns(c)
  PROVE  /\ GivesNoOlder(c)
         /\ GivesOrExplains(c)
         /\ result'[c].set <= cached
         /\ UNCHANGED <<cached, version>>
<1>1. Typed'
  BY TypedStep DEF IInv
<1> USE DEF IInv, Typed, Returns, CallInv, Sets, Versions, NoSet, NoError, source,
            GivesNoOlder, GivesOrExplains, HoldsInv, Results
<1>2. CASE GetCached(c) \/ LoadCached(c)
  BY <1>2 DEF GetCached, LoadCached, Fresh, Return, Gives
<1>3. CASE LoadThrottled(c)
  BY <1>3 DEF LoadThrottled, Throttled, Return, Gives, Fails, Never
<1>4. CASE Close(c)
  BY <1>4 DEF Close, Waiters, Decided
<1>5. CASE AwaitDone(c)
  BY <1>5 DEF AwaitDone, Return, Decided
<1>6. CASE AwaitCanceled(c)
  <2>1. result'[c] = Fails({"Canceled"}) /\ UNCHANGED <<cached, version>>
    BY <1>6 DEF AwaitCanceled, Return
  <2>2. {"Canceled"} # {} /\ {"Canceled"} # {"TooSoon"}
    OBVIOUS
  <2>3. result'[c].set = NoSet /\ result'[c].err = {"Canceled"}
    BY <2>1 DEF Fails
  <2>4. GivesOrExplains(c)
    BY <2>2, <2>3
  <2>5. NoSet <= cached
    OBVIOUS
  <2> QED
    BY <2>1, <2>3, <2>4, <2>5
<1> QED
  BY <1>2, <1>3, <1>4, <1>5, <1>6, ReturnsByEnds DEF Ends

\* No call gives keys older than the source held when the call began.
THEOREM Monotone == Spec => NeverOlder
<1>1. IInv /\ [Next]_vars => [\A c \in Callers : Returns(c) => GivesNoOlder(c)]_vars
  BY WhatCallsGive
<1>2. QED
  BY <1>1, Invariance, PTL DEF Spec, NeverOlder

\* Every call gives keys or the reason; never the throttle alone with no keys.
THEOREM Explained == Spec => ErrorsExplain
<1>1. IInv /\ [Next]_vars => [\A c \in Callers : Returns(c) => GivesOrExplains(c)]_vars
  BY WhatCallsGive
<1>2. QED
  BY <1>1, Invariance, PTL DEF Spec, ErrorsExplain

\* What the source holds changes only when a request ends well, to a set that
\* is no older and has been published.
LEMMA HeldStep ==
  ASSUME IInv, [Next]_vars
  PROVE  \/ cached' = cached
         \/ /\ cached <= cached' /\ cached' <= version /\ cached' # NoSet
            /\ UNCHANGED <<version, floor>>
            /\ \E c \in Callers : Finish(c, result[c])
<1> USE DEF IInv, Typed, Sets, Versions, NoSet
<1> SUFFICES ASSUME cached' # cached
             PROVE  /\ cached <= cached' /\ cached' <= version /\ cached' # NoSet
                    /\ UNCHANGED <<version, floor>>
                    /\ \E c \in Callers : Finish(c, result[c])
  OBVIOUS
<1>1. PICK c \in Callers : FinishAnswered(c) \/ FinishCanceled(c) \/ FinishDeadline(c)
  BY DEF Next, Step, vars, source, Call, Answer, GetCached, GetLoad, LoadCached, LoadThrottled,
     LoadJoin, LoadStart, Close, AwaitDone, AwaitCanceled, Cancel, Tick, Rotate
<1>2. ~FinishCanceled(c) /\ ~FinishDeadline(c)
  BY DEF FinishCanceled, FinishDeadline, Finish, Settle, Fails, NoError
<1> QED
  BY <1>1, <1>2 DEF FinishAnswered, Finish, Settle, CallInv, Decided, Results

\* No failure of the host takes away or sets back the keys held.
THEOREM Survival == Spec => KeysSurviveFailure
<1>1. IInv /\ [Next]_vars => [cached <= cached']_vars
  BY HeldStep DEF IInv, Typed, Sets, Versions, NoSet
<1>2. QED
  BY <1>1, Invariance, PTL DEF Spec, KeysSurviveFailure

-----------------------------------------------------------------------------
(* RemoteSource implements KeySource (its safety part). *)

\* Every step of the source is a step of the contract or leaves it unchanged.
LEMMA StutterOrStep ==
  ASSUME IInv, [Next]_vars
  PROVE  [KS!Next]_(KS!vars)
<1> DEFINE Pending == {c \in Callers : pc[c] # "idle"}
           Given   == [c \in Callers |-> IF pc[c] = "idle" THEN result[c].set ELSE NoSet]
<1>0. Typed'
  BY TypedStep DEF IInv
<1> USE DEF IInv, Typed
<1>1. ASSUME NEW c \in Callers, Returns(c) PROVE KS!End(c)
  <2>1. Ends(c)
    BY <1>1, ReturnsByEnds
  <2>2. pc' = [pc EXCEPT ![c] = "idle"] \/ Close(c)
    BY <2>1 DEF Ends, GetCached, LoadCached, LoadThrottled, AwaitDone, AwaitCanceled, Return
  <2>3. Pending' = Pending \ {c} /\ c \in Pending
    BY <1>1, <2>2 DEF Returns, Close, Waiters
  <2>4. floor' = [floor EXCEPT ![c] = NoSet]
    BY <2>1 DEF Ends, GetCached, LoadCached, LoadThrottled, Close, AwaitDone, AwaitCanceled, Return, Forget
  <2>5. \A d \in Callers \ {c} : pc[d] = "idle" => result'[d] = result[d]
    BY <2>1 DEF Ends, GetCached, LoadCached, LoadThrottled, Close, Waiters, AwaitDone, AwaitCanceled, Return
  <2>6. Given' = [Given EXCEPT ![c] = result'[c].set]
    BY <1>1, <2>2, <2>3, <2>5 DEF Returns
  <2>7. result'[c].set \in KS!Versions \union {KS!NoSet}
    BY <1>0 DEF Results, Sets, Versions, KS!Versions, NoSet, KS!NoSet
  <2> QED
    BY <1>1, <2>3, <2>4, <2>6, <2>7, WhatCallsGive DEF KS!End, KS!NoSet, NoSet, GivesNoOlder
<1>2. ASSUME cached' # cached PROVE KS!Learn
  <2>1. PICK c \in Callers : Finish(c, result[c])
    BY <1>2, HeldStep
  <2>2. Pending' = Pending /\ Given' = Given
    BY <2>1 DEF Finish, Settle
  <2> QED
    BY <1>0, <1>2, <2>2, HeldStep DEF KS!Learn, KS!Versions, Sets, Versions, NoSet
<1>3. ASSUME NEW c \in Callers, NEW refresh \in BOOLEAN, Call(c, refresh) PROVE KS!Begin(c)
  <2>1. Pending' = Pending \union {c} /\ c \notin Pending
    BY <1>3 DEF Call
  <2>2. Given' = [Given EXCEPT ![c] = NoSet]
    BY <1>3 DEF Call
  <2> QED
    BY <1>3, <2>1, <2>2 DEF Call, source, KS!Begin, KS!NoSet, NoSet
<1>4. ASSUME Rotate PROVE KS!Publish
  BY <1>4 DEF Rotate, source, KS!Publish
<1>5. ASSUME ~Rotate, cached' = cached, \A c \in Callers : ~Returns(c),
             \A c \in Callers, refresh \in BOOLEAN : ~Call(c, refresh)
      PROVE  UNCHANGED KS!vars
  <2>1. UNCHANGED <<version, cached, floor>>
    BY <1>5 DEF Next, Step, vars, source, Answer, GetCached, GetLoad, LoadCached, LoadThrottled,
       LoadJoin, LoadStart, FinishAnswered, FinishCanceled, FinishDeadline, Finish, Settle, Close,
       AwaitDone, AwaitCanceled, Cancel, Tick, Return, Returns
  <2>2. \A c \in Callers : pc[c] = "idle" => pc'[c] = "idle" /\ result'[c] = result[c]
    BY <1>5 DEF Next, Step, vars, source, Answer, GetCached, GetLoad, LoadCached, LoadThrottled,
       LoadJoin, LoadStart, FinishAnswered, FinishCanceled, FinishDeadline, Finish, Settle, Close, Waiters,
       AwaitDone, AwaitCanceled, Cancel, Tick, Return, Returns
  <2>3. Pending' = Pending /\ Given' = Given
    BY <1>5, <2>2 DEF Returns
  <2> QED
    BY <2>1, <2>3 DEF KS!vars
<1> QED
  BY <1>1, <1>2, <1>3, <1>4, <1>5 DEF KS!Next

\* remote.Source keeps the safety part of the contract of jwk.Source.
THEOREM Implements == Spec => KS!Spec
<1>1. Init => KS!Init
  BY DEF Init, KS!Init, NoSet, KS!NoSet, NoResult
<1>2. IInv /\ [Next]_vars => [KS!Next]_(KS!vars)
  BY StutterOrStep
<1>3. QED
  BY <1>1, <1>2, Invariance, PTL DEF Spec, KS!Spec
=============================================================================
