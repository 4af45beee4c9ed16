---------------------------- MODULE RemoteSource ----------------------------
(***************************************************************************)
(* remote.Source (jwk/remote/remote.go): a JWK Set got over HTTPS, kept,   *)
(* and shared by the goroutines that verify tokens.  Each section of       *)
(* Get and load that runs under source.mutex is one action; the request    *)
(* runs outside the mutex, so other callers' steps, the passing of time,   *)
(* new publications and cancellations come between its steps.              *)
(*                                                                         *)
(* A key set is named by the number of its publication.  source.fetched is *)
(* held as the age that every guard computes from it, now.Sub(fetched),    *)
(* which stops counting at Horizon where no guard can tell it apart.  A    *)
(* fetch object is named by the caller that made it: that caller makes no  *)
(* other one before it has closed the done channel of the first, and what  *)
(* a waiter reads through its pointer no longer changes after that.        *)
(***************************************************************************)
EXTENDS Integers

CONSTANTS
  Callers,      (* the goroutines that share the source                    *)
  None,         (* no caller: a nil *fetch                                 *)
  Failures,     (* what a host can do to a request: no answer, a status    *)
                (* other than 200, too many octets, not a JWK Set          *)
  Interval,     (* source.interval, in ticks                               *)
  Minimum,      (* source.minimum, in ticks                                *)
  HasTimeout,   (* source.timeout > 0                                      *)
  Horizon,      (* bound: the age after which ages are no longer counted   *)
  MaxVersion    (* bound: how many key sets the issuer ever publishes      *)

ASSUME IntervalsAssumption ==
  /\ Interval \in Nat /\ Minimum \in Nat /\ Horizon \in Nat
  /\ Interval <= Horizon /\ Minimum <= Horizon
ASSUME ConstantsAssumption ==
  /\ HasTimeout \in BOOLEAN
  /\ MaxVersion \in Nat \ {0}
  /\ None \notin Callers
ASSUME FailuresAssumption ==
  {"TooSoon", "Canceled", "Deadline"} \intersect Failures = {}

NoSet   == 0                                    \* a nil *jwk.KeySet
NoError == {}                                   \* a nil error
Never   == -1                                   \* fetched.IsZero()

Versions == 1..MaxVersion
Sets     == Versions \union {NoSet}
\* An error is the set of the errors that errors.Is finds in it.
Errors   == SUBSET (Failures \union {"TooSoon", "Canceled", "Deadline"})
Results  == [set : Sets, err : Errors]
NoResult == [set |-> NoSet, err |-> NoError]

Gives(set) == [set |-> set, err |-> NoError]
Fails(err) == [set |-> NoSet, err |-> err]

VARIABLES
  cached,       (* source.cached                                           *)
  age,          (* source.now().Sub(source.fetched), or Never              *)
  failure,      (* source.failure                                          *)
  inflight,     (* source.inflight: the caller whose fetch it is           *)
  pc,           (* where the call of each caller is                        *)
  forced,       (* the parameter of load: the call is a Refresh            *)
  current,      (* the local of load: whose fetch the call waits for       *)
  canceled,     (* the context of the call is done                         *)
  result,       (* what the host answered, then the set and err of the     *)
                (* fetch, then what the call returned                      *)
  version       (* the issuer: the key set published now                   *)

source == <<cached, age, failure, inflight>>

VARIABLES       \* history, read by properties only
  floor,        (* source.cached when the call began                       *)
  sinceStart    (* ticks since a request last started                      *)

vars == <<source, pc, forced, current, canceled, result, version,
          floor, sinceStart>>

-----------------------------------------------------------------------------

Steps == {"idle", "get", "load", "waiting", "woken", "requesting", "closing"}

Init ==
  /\ cached = NoSet /\ age = Never /\ failure = NoError /\ inflight = None
  /\ pc = [c \in Callers |-> "idle"]
  /\ forced = [c \in Callers |-> FALSE]
  /\ current = [c \in Callers |-> None]
  /\ canceled = [c \in Callers |-> FALSE]
  /\ result = [c \in Callers |-> NoResult]
  /\ version = 1
  /\ floor = [c \in Callers |-> NoSet]
  /\ sinceStart = Horizon

Fresh_Forever == cached # NoSet
Fresh     == cached # NoSet /\ age < Interval
Throttled == age # Never /\ age < Minimum

\* The call of c ends: its locals go, its result stays.
Forget(c) ==
  /\ forced' = [forced EXCEPT ![c] = FALSE]
  /\ current' = [current EXCEPT ![c] = None]
  /\ canceled' = [canceled EXCEPT ![c] = FALSE]
  /\ floor' = [floor EXCEPT ![c] = NoSet]

Return(c, r) ==
  /\ pc' = [pc EXCEPT ![c] = "idle"]
  /\ result' = [result EXCEPT ![c] = r]
  /\ Forget(c)

\* A caller calls Get or Refresh; Refresh is load with forced.
Call(c, refresh) ==
  /\ pc[c] = "idle"
  /\ pc' = [pc EXCEPT ![c] = IF refresh THEN "load" ELSE "get"]
  /\ forced' = [forced EXCEPT ![c] = refresh]
  /\ result' = [result EXCEPT ![c] = NoResult]
  /\ floor' = [floor EXCEPT ![c] = cached]
  /\ UNCHANGED <<source, current, canceled, version, sinceStart>>

\* The section of Get under the mutex: a fresh set, or load.
GetCached(c) ==
  /\ pc[c] = "get"
  /\ Fresh
  /\ Return(c, Gives(cached))
  /\ UNCHANGED <<source, version, sinceStart>>

GetLoad(c) ==
  /\ pc[c] = "get"
  /\ ~Fresh
  /\ pc' = [pc EXCEPT ![c] = "load"]
  /\ UNCHANGED <<source, forced, current, canceled, result, version, floor, sinceStart>>

\* The first section of load under the mutex has four ways out.
LoadCached(c) ==
  /\ pc[c] = "load"
  /\ ~forced[c] /\ Fresh
  /\ Return(c, Gives(cached))
  /\ UNCHANGED <<source, version, sinceStart>>

LoadThrottled_Bare(c) ==
  /\ pc[c] = "load"
  /\ forced[c] \/ ~Fresh
  /\ Throttled
  /\ Return(c, IF ~forced[c] /\ cached # NoSet THEN Gives(cached) ELSE Fails({"TooSoon"}))
  /\ UNCHANGED <<source, version, sinceStart>>

LoadThrottled(c) ==
  /\ pc[c] = "load"
  /\ forced[c] \/ ~Fresh
  /\ Throttled
  /\ Return(c, IF ~forced[c] /\ cached # NoSet THEN Gives(cached)
               ELSE IF cached # NoSet THEN Fails({"TooSoon"})
               ELSE Fails({"TooSoon"} \union failure))
  /\ UNCHANGED <<source, version, sinceStart>>

LoadJoin(c) ==
  /\ pc[c] = "load"
  /\ forced[c] \/ ~Fresh
  /\ ~Throttled
  /\ inflight # None
  /\ current' = [current EXCEPT ![c] = inflight]
  /\ pc' = [pc EXCEPT ![c] = "waiting"]
  /\ UNCHANGED <<source, forced, canceled, result, version, floor, sinceStart>>

LoadStart_Alone(c) ==
  /\ pc[c] = "load"
  /\ forced[c] \/ ~Fresh
  /\ ~Throttled
  /\ inflight' = c
  /\ pc' = [pc EXCEPT ![c] = "requesting"]
  /\ sinceStart' = 0
  /\ UNCHANGED <<cached, age, failure, forced, current, canceled, result, version, floor>>

LoadStart(c) ==
  /\ pc[c] = "load"
  /\ forced[c] \/ ~Fresh
  /\ ~Throttled
  /\ inflight = None
  /\ inflight' = c
  /\ pc' = [pc EXCEPT ![c] = "requesting"]
  /\ sinceStart' = 0
  /\ UNCHANGED <<cached, age, failure, forced, current, canceled, result, version, floor>>

\* The host answers the request of c with what is published at that moment,
\* or in one of the ways that request turns into an error.
Answer(c, r) ==
  /\ pc[c] = "requesting"
  /\ result[c] = NoResult
  /\ result' = [result EXCEPT ![c] = r]
  /\ UNCHANGED <<source, pc, forced, current, canceled, version, floor, sinceStart>>

Answers == {Gives(version)} \union {Fails({e}) : e \in Failures}

Settle_FailureForgotten(c, r, keys, sinceFetch) ==
  /\ pc[c] = "requesting"
  /\ result' = [result EXCEPT ![c] = r]
  /\ age' = sinceFetch
  /\ cached' = keys
  /\ inflight' = None
  /\ pc' = [pc EXCEPT ![c] = "closing"]
  /\ UNCHANGED <<failure, forced, current, canceled, version, floor, sinceStart>>

\* The second section of load under the mutex.
Settle(c, r, keys, sinceFetch) ==
  /\ pc[c] = "requesting"
  /\ result' = [result EXCEPT ![c] = r]
  /\ age' = sinceFetch
  /\ failure' = r.err
  /\ cached' = keys
  /\ inflight' = None
  /\ pc' = [pc EXCEPT ![c] = "closing"]
  /\ UNCHANGED <<forced, current, canceled, version, floor, sinceStart>>

Finish_DropsKeys(c, r) == Settle(c, r, r.set, 0)

Finish_FailureUncounted(c, r) ==
  LET failed == r.err # NoError
  IN Settle(c, r, IF failed THEN cached ELSE r.set, IF failed THEN age ELSE 0)

\* request returns r: keys replace the keys, an error leaves them.
Finish(c, r) == Settle(c, r, IF r.err = NoError THEN r.set ELSE cached, 0)

\* How request can return: with the host's answer, or because the context of
\* the caller that started it, or the timeout of the source, ended it.
FinishAnswered(c) == result[c] # NoResult /\ Finish(c, result[c])
FinishCanceled(c) == canceled[c] /\ Finish(c, Fails({"Canceled"}))
FinishDeadline(c) == HasTimeout /\ Finish(c, Fails({"Deadline"}))

\* close(current.done), outside the mutex, and the return of load.  From here
\* on a waiter reads the set and err of this fetch.
Waiters(c) == {d \in Callers : pc[d] = "waiting" /\ current[d] = c}

Close_Silent(c) ==
  /\ pc[c] = "closing"
  /\ Return(c, result[c])
  /\ UNCHANGED <<source, version, sinceStart>>

Close(c) ==
  /\ pc[c] = "closing"
  /\ pc' = [d \in Callers |-> IF d = c THEN "idle"
                              ELSE IF d \in Waiters(c) THEN "woken" ELSE pc[d]]
  /\ result' = [d \in Callers |-> IF d \in Waiters(c) THEN result[c] ELSE result[d]]
  /\ Forget(c)
  /\ UNCHANGED <<source, version, sinceStart>>

\* The select on current.done and ctx.Done(); Go takes either when both are
\* ready.
AwaitDone(c) ==
  /\ pc[c] = "woken"
  /\ Return(c, result[c])
  /\ UNCHANGED <<source, version, sinceStart>>

AwaitCanceled(c) ==
  /\ pc[c] \in {"waiting", "woken"}
  /\ canceled[c]
  /\ Return(c, Fails({"Canceled"}))
  /\ UNCHANGED <<source, version, sinceStart>>

\* The environment: contexts end, time passes, the issuer changes its keys.
Cancel(c) ==
  /\ pc[c] # "idle"
  /\ ~canceled[c]
  /\ canceled' = [canceled EXCEPT ![c] = TRUE]
  /\ UNCHANGED <<source, pc, forced, current, result, version, floor, sinceStart>>

Older(a) == IF a = Never \/ a = Horizon THEN a ELSE a + 1

Tick ==
  /\ age' = Older(age)
  /\ sinceStart' = Older(sinceStart)
  /\ UNCHANGED <<cached, failure, inflight, pc, forced, current, canceled,
                 result, version, floor>>

Rotate ==
  /\ version < MaxVersion
  /\ version' = version + 1
  /\ UNCHANGED <<source, pc, forced, current, canceled, result, floor, sinceStart>>

\* The steps that the goroutine of c takes of its own.
Step(c) ==
  \/ GetCached(c) \/ GetLoad(c)
  \/ LoadCached(c) \/ LoadThrottled(c) \/ LoadJoin(c) \/ LoadStart(c)
  \/ FinishAnswered(c) \/ FinishCanceled(c) \/ FinishDeadline(c) \/ Close(c)
  \/ AwaitDone(c) \/ AwaitCanceled(c)

Next ==
  \/ \E c \in Callers : \/ \E refresh \in BOOLEAN : Call(c, refresh)
                        \/ \E r \in Answers : Answer(c, r)
                        \/ Step(c)
                        \/ Cancel(c)
  \/ Tick
  \/ Rotate

Spec == Init /\ [][Next]_vars

\* The Go scheduler runs every goroutine that can run, and the timer of
\* context.WithTimeout fires; no fairness is asked of the host, of the callers
\* or of the issuer.
FairSpec == Spec /\ \A c \in Callers : WF_vars(Step(c))

-----------------------------------------------------------------------------
(* Properties *)

\* Every variable has its type.
Typed ==
  /\ cached \in Sets
  /\ age \in 0..Horizon \union {Never}
  /\ failure \in Errors
  /\ inflight \in Callers \union {None}
  /\ pc \in [Callers -> Steps]
  /\ forced \in [Callers -> BOOLEAN]
  /\ current \in [Callers -> Callers \union {None}]
  /\ canceled \in [Callers -> BOOLEAN]
  /\ result \in [Callers -> Results]
  /\ version \in Versions
  /\ floor \in [Callers -> Sets]
  /\ sinceStart \in 0..Horizon

\* Every variable has its type, and source.fetched is set exactly when there
\* are keys or the reason why there are none: the throttle, which reads fetched
\* alone, never turns a caller away with neither (remote.go, load).
TypeOK ==
  /\ Typed
  /\ age = Never <=> cached = NoSet /\ failure = NoError

\* However many callers find the keys old at once, one request is under way
\* at most, it is the one that source.inflight names, and every waiter waits
\* for a fetch whose maker is still there to close it (remote.go, load).
SingleFlight ==
  \A c \in Callers :
    /\ pc[c] = "requesting" <=> inflight = c
    /\ pc[c] = "waiting" => \E d \in Callers :
                              d = current[c] /\ pc[d] \in {"requesting", "closing"}

Returns(c) == pc[c] # "idle" /\ pc'[c] = "idle"

\* No two requests start within the minimum interval of each other, whatever
\* the requests led to and whoever asked (the package comment of remote.go:
\* "A refresh has a minimum interval").
StartIsSpaced ==
  (\E c \in Callers : pc[c] # "requesting" /\ pc'[c] = "requesting")
    => sinceStart >= Minimum

RequestsSpaced == [][StartIsSpaced]_vars

\* Keys never go back: a call gives no set older than the one the source
\* held when the call began, even when it waited for a request that another
\* caller started, and gives no set that was not published.
GivesNoOlder(c) ==
  result'[c].set # NoSet => floor[c] <= result'[c].set /\ result'[c].set <= version

NeverOlder == [][\A c \in Callers : Returns(c) => GivesNoOlder(c)]_vars

\* A failing host takes no keys away: once the source holds a set it holds
\* that set or a newer one for ever, however requests fail.
KeysSurviveFailure == [][cached <= cached']_vars

\* A call gives a set or says why not; and when the source holds no keys, the
\* error is never the throttle alone but also what the host answered (the
\* comment of Source.Refresh).  The default branch of load is thus dead code.
GivesOrExplains(c) ==
  /\ (result'[c].set = NoSet) # (result'[c].err = NoError)
  /\ result'[c].err = {"TooSoon"} => cached # NoSet

ErrorsExplain == [][\A c \in Callers : Returns(c) => GivesOrExplains(c)]_vars

\* Every call ends although the host may never answer: the timeout of the
\* source ends the request, and the end of the request ends every wait.
EveryCallEnds == \A c \in Callers : pc[c] # "idle" ~> pc[c] = "idle"

\* When the issuer has made its last change, the source comes to hold that
\* set and keeps it, provided that callers keep calling Get, that time passes,
\* and that of the requests made again and again some succeed.
HostSucceeds == \E c \in Callers : FinishAnswered(c) /\ failure' = NoError

CatchesUp ==
  /\ WF_vars(Tick)
  /\ \A c \in Callers : WF_vars(Call(c, FALSE))
  /\ []<>(\E c \in Callers : pc[c] = "requesting") => []<><<HostSucceeds>>_vars
  => <>[](cached = version)

\* The source implements the contract of KeySource: it holds what it cached.
KS == INSTANCE KeySource WITH
        known   <- cached,
        pending <- {c \in Callers : pc[c] # "idle"},
        given   <- [c \in Callers |-> IF pc[c] = "idle" THEN result[c].set ELSE NoSet]

Contract == KS!FairSpec

=============================================================================
