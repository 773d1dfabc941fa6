---------------------------- MODULE SagaContract ----------------------------
(***************************************************************************)
(* What a caller of Saga.Execute is promised, with no mention of how.  A   *)
(* call that has the saga for itself is committed, with every step in      *)
(* force, or aborted after some number k of steps, with nothing in force   *)
(* but those of the k steps that have no compensation and those whose      *)
(* compensation is reported to have failed.  Calls that overlap are not    *)
(* isolated: of what can be compensated, an aborted one may keep more or   *)
(* less, and a committed one less, even after it has returned.             *)
(***************************************************************************)
EXTENDS Integers

CONSTANTS Calls, NumSteps, Compensable

VARIABLES
  outcome,     \* [Calls -> "ready", "running", "committed" or "aborted"]
  overlapped,  \* the calls beside which another one ran
  failed,      \* [Calls -> the steps whose compensation failed]
  kept         \* [Calls -> the steps in force once the call has returned]

vars == <<outcome, overlapped, failed, kept>>

Running(c) == outcome[c] = "running"
Returns(c, o) == Running(c) /\ outcome' = [outcome EXCEPT ![c] = o] /\ UNCHANGED overlapped

Init ==
  /\ outcome = [c \in Calls |-> "ready"]
  /\ overlapped = {}
  /\ failed = [c \in Calls |-> {}]
  /\ kept = [c \in Calls |-> {}]

Begin(c) ==
  /\ outcome[c] = "ready"
  /\ outcome' = [outcome EXCEPT ![c] = "running"]
  /\ LET others == {d \in Calls : Running(d)}
     IN  overlapped' = overlapped \cup (IF others = {} THEN {} ELSE others \cup {c})
  /\ UNCHANGED <<failed, kept>>

Commit(c) ==
  /\ Returns(c, "committed")
  /\ \E taken \in SUBSET Compensable :
       /\ c \notin overlapped => taken = {}
       /\ kept' = [kept EXCEPT ![c] = (1..NumSteps) \ taken]
  /\ UNCHANGED failed

Abort(c) ==
  /\ Returns(c, "aborted")
  /\ \E k \in 0..NumSteps : \E F, left \in SUBSET ((1..k) \cap Compensable) :
       /\ c \notin overlapped => left = F
       /\ failed' = [failed EXCEPT ![c] = F]
       /\ kept' = [kept EXCEPT ![c] = ((1..k) \ Compensable) \cup left]

\* A compensation of d takes back what c did.
Interfere(c, d) ==
  /\ {c, d} \subseteq overlapped /\ ~Running(c) /\ Running(d)
  /\ \E i \in Compensable : kept' = [kept EXCEPT ![c] = @ \ {i}]
  /\ UNCHANGED <<outcome, overlapped, failed>>

Next ==
  \/ \E c \in Calls : Begin(c) \/ Commit(c) \/ Abort(c)
  \/ \E c, d \in Calls : Interfere(c, d)

Spec == Init /\ [][Next]_vars
=============================================================================
