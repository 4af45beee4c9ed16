----------------------------- MODULE KeySource -----------------------------
(***************************************************************************)
(* What a source of keys promises its callers, whatever it keeps and       *)
(* however it gets the keys: the contract of jwk.Source and jwk.Refresher  *)
(* as the callers of this library see it.  The party that publishes the    *)
(* keys replaces them from time to time, so a key set is named by the      *)
(* number of its publication.  A call that begins after the source came to *)
(* hold publication v never gives a publication older than v, never gives  *)
(* one that was not published, and always ends.                            *)
(***************************************************************************)
EXTENDS Integers

CONSTANTS
  Callers,      (* the goroutines that share the source                    *)
  MaxVersion    (* bound: how many key sets the publisher ever publishes   *)

NoSet == 0                  \* the nil key set
Versions == 1..MaxVersion

VARIABLES
  version,      (* the key set that is published now                       *)
  known,        (* the newest key set that the source holds, or NoSet      *)
  pending,      (* the callers inside a call                               *)
  floor,        (* what the source held when the call of each caller began *)
  given         (* what the last call of each caller gave; NoSet: an error *)

vars == <<version, known, pending, floor, given>>

Init ==
  /\ version = 1
  /\ known = NoSet
  /\ pending = {}
  /\ floor = [c \in Callers |-> NoSet]
  /\ given = [c \in Callers |-> NoSet]

Publish ==
  /\ version < MaxVersion
  /\ version' = version + 1
  /\ UNCHANGED <<known, pending, floor, given>>

Begin(c) ==
  /\ c \notin pending
  /\ pending' = pending \union {c}
  /\ floor' = [floor EXCEPT ![c] = known]
  /\ given' = [given EXCEPT ![c] = NoSet]
  /\ UNCHANGED <<version, known>>

\* The source learns the keys that are, or were a moment ago, published.
Learn ==
  /\ \E v \in Versions :
       /\ known <= v
       /\ v <= version
       /\ known' = v
  /\ UNCHANGED <<version, pending, floor, given>>

\* A call ends with an error, or with a set the caller could not have
\* outrun: no older than floor and no newer than what the source holds.
End(c) ==
  /\ c \in pending
  /\ pending' = pending \ {c}
  /\ floor' = [floor EXCEPT ![c] = NoSet]
  /\ \E v \in Versions \union {NoSet} :
       /\ v # NoSet => floor[c] <= v /\ v <= known
       /\ given' = [given EXCEPT ![c] = v]
  /\ UNCHANGED <<version, known>>

Next == Publish \/ Learn \/ \E c \in Callers : Begin(c) \/ End(c)

Spec == Init /\ [][Next]_vars

FairSpec == Spec /\ \A c \in Callers : WF_vars(End(c))
=============================================================================
