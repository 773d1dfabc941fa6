-------------------------------- MODULE Saga --------------------------------
(***************************************************************************)
(* The saga of internal/platform/saga/saga.go: a list of steps, each with  *)
(* an optional compensation, run in order by Saga.Execute; when a step     *)
(* fails, or the context is found cancelled before a step, the steps       *)
(* completed so far are compensated in reverse order.                      *)
(*                                                                         *)
(* The Saga object holds no "already executed" flag: Execute may be called *)
(* again on a saga that has ended, and several goroutines may call it at   *)
(* the same time (Orchestrator.Execute does not look at the map before it  *)
(* overwrites the entry).  Every call is an element of Calls; calls come   *)
(* one after the other or overlap.  status, stepStatus, sagaError and      *)
(* result are the shared fields; what is indexed by a call is local to it. *)
(*                                                                         *)
(* step.Result is one field for all calls: a call that completes a step    *)
(* overwrites it, and a compensation is handed what the field holds then,  *)
(* which may be the Result of another call.  A Result is represented by    *)
(* the call that produced it, and to compensate with it takes back what    *)
(* that call did in the step.  The read at line 174 holds no lock; it      *)
(* yields one of the values written.                                       *)
(***************************************************************************)
EXTENDS Integers, FiniteSets

CONSTANTS
  Calls,        \* calls of Execute on this saga
  NumSteps,     \* len(s.Steps)
  Compensable,  \* the steps whose Compensate function is not nil
  NoCall        \* no call: the Result of a step nobody completed

ASSUME NumStepsAssumption == NumSteps \in Nat
ASSUME CompensableAssumption == Compensable \subseteq 1..NumSteps
ASSUME NoCallAssumption == NoCall \notin Calls

VARIABLES
  status,       \* s.Status
  stepStatus,   \* step.Status of each step
  sagaError,    \* s.Error: "none", "step" or "compensation"
  result,       \* step.Result of each step: the call that wrote it
  ctxDone,      \* [Calls -> BOOLEAN]: the call's context is cancelled
  pc,           \* [Calls -> control point inside Execute / compensate]
  idx,          \* [Calls -> loop index i + 1 of Execute or compensate]
  last,         \* [Calls -> lastCompletedStep + 1]
  handed,       \* [Calls -> the Result given to the Compensate under way]
  compFailed,   \* compensationErrors: the steps whose compensation failed
  done,         \* history: steps the call completed and has not compensated
  effects,      \* history: the calls whose execution of a step is in force
  overlapped    \* history: the calls beside which another one ran

sharedVars == <<status, stepStatus, sagaError, result, effects>>
localVars  == <<ctxDone, pc, idx, last, handed, compFailed, done, overlapped>>
vars       == <<sharedVars, localVars>>

Steps == 1..NumSteps

StepStatus == {"pending", "running", "completed", "failed", "compensated"}
SagaStatus == {"pending", "running", "completed", "compensating", "compensated"}
Points     == {"ready", "loop", "exec", "abort", "undo", "compensate", "ok", "error"}
Inside(c)  == pc[c] \notin {"ready", "ok", "error"}

\* What a call that begins makes overlap: those inside and, with them, itself.
Beside(c) == LET others == {d \in Calls : Inside(d)}
             IN  IF others = {} THEN {} ELSE others \cup {c}

TypeOK ==
  /\ status \in SagaStatus
  /\ stepStatus \in [Steps -> StepStatus]
  /\ sagaError \in {"none", "step", "compensation"}
  /\ result \in [Steps -> Calls \cup {NoCall}]
  /\ effects \in [Steps -> SUBSET Calls]
  /\ ctxDone \in [Calls -> BOOLEAN]
  /\ pc \in [Calls -> Points]
  /\ idx \in [Calls -> 0..(NumSteps + 1)]
  /\ last \in [Calls -> 0..NumSteps]
  /\ handed \in [Calls -> Calls \cup {NoCall}]
  /\ compFailed \in [Calls -> SUBSET Steps]
  /\ done \in [Calls -> SUBSET Steps]
  /\ overlapped \subseteq Calls

\* Builder.AddStep and Build: every step pending, the saga pending.
Init ==
  /\ status = "pending"
  /\ stepStatus = [i \in Steps |-> "pending"]
  /\ sagaError = "none"
  /\ result = [i \in Steps |-> NoCall]
  /\ effects = [i \in Steps |-> {}]
  /\ ctxDone = [c \in Calls |-> FALSE]
  /\ pc = [c \in Calls |-> "ready"]
  /\ idx = [c \in Calls |-> 0]
  /\ last = [c \in Calls |-> 0]
  /\ handed = [c \in Calls |-> NoCall]
  /\ compFailed = [c \in Calls |-> {}]
  /\ done = [c \in Calls |-> {}]
  /\ overlapped = {}

----------------------------------------------------------------------------
(* Loop control.  Definitions whose name carries a suffix are the faulty   *)
(* variants that the properties are tested against.                        *)

HasNextStep_StopsEarly(c) == idx[c] < NumSteps

\* for i, step := range s.Steps
HasNextStep(c) == idx[c] <= NumSteps

CompensateFrom_SkipsLast(c) == IF last[c] = 0 THEN 0 ELSE last[c] - 1
CompensateFrom_FailedStep(c) == idx[c]

\* The argument of s.compensate(ctx, lastCompletedStep)
CompensateFrom(c) == last[c]

\* i-- of the compensation loop
PreviousStep(c) == idx[c] - 1

AfterFailure_Stops(c) == 0

\* `continue' after a failed compensation
AfterFailure(c) == idx[c] - 1

----------------------------------------------------------------------------
(* Saga.Execute *)

\* The first locked section of Execute.  Neither the step statuses and
\* Results nor s.Error of an earlier call are cleared.
Execute(c) ==
  /\ pc[c] = "ready"
  /\ status' = "running"
  /\ pc' = [pc EXCEPT ![c] = "loop"]
  /\ idx' = [idx EXCEPT ![c] = 1]
  /\ overlapped' = overlapped \cup Beside(c)
  /\ UNCHANGED <<stepStatus, sagaError, result, effects, ctxDone, last, handed,
                 compFailed, done>>

\* The head of the loop with a step left and the context alive: the step is
\* marked running and its Execute function is called.
BeginStep(c) ==
  /\ pc[c] = "loop"
  /\ HasNextStep(c)
  /\ ~ctxDone[c]
  /\ stepStatus' = [stepStatus EXCEPT ![idx[c]] = "running"]
  /\ pc' = [pc EXCEPT ![c] = "exec"]
  /\ UNCHANGED <<status, sagaError, result, effects, ctxDone, idx, last, handed,
                 compFailed, done, overlapped>>

\* The head of the loop with ctx.Done() ready: straight to compensate.
SeeCancelled(c) ==
  /\ pc[c] = "loop"
  /\ HasNextStep(c)
  /\ ctxDone[c]
  /\ pc' = [pc EXCEPT ![c] = "abort"]
  /\ UNCHANGED <<sharedVars, ctxDone, idx, last, handed, compFailed, done, overlapped>>

\* step.Execute returns a result, which replaces the step's.
StepSucceeds(c) ==
  /\ pc[c] = "exec"
  /\ stepStatus' = [stepStatus EXCEPT ![idx[c]] = "completed"]
  /\ result' = [result EXCEPT ![idx[c]] = c]
  /\ effects' = [effects EXCEPT ![idx[c]] = @ \cup {c}]
  /\ done' = [done EXCEPT ![c] = @ \cup {idx[c]}]
  /\ last' = [last EXCEPT ![c] = idx[c]]
  /\ idx' = [idx EXCEPT ![c] = @ + 1]
  /\ pc' = [pc EXCEPT ![c] = "loop"]
  /\ UNCHANGED <<status, sagaError, ctxDone, handed, compFailed, overlapped>>

\* step.Execute returns an error.
StepFails(c) ==
  /\ pc[c] = "exec"
  /\ stepStatus' = [stepStatus EXCEPT ![idx[c]] = "failed"]
  /\ sagaError' = "step"
  /\ pc' = [pc EXCEPT ![c] = "abort"]
  /\ UNCHANGED <<status, result, effects, ctxDone, idx, last, handed, compFailed,
                 done, overlapped>>

\* The loop is over: Execute returns nil.
Finish(c) ==
  /\ pc[c] = "loop"
  /\ ~HasNextStep(c)
  /\ status' = "completed"
  /\ pc' = [pc EXCEPT ![c] = "ok"]
  /\ UNCHANGED <<stepStatus, sagaError, result, effects, ctxDone, idx, last, handed,
                 compFailed, done, overlapped>>

----------------------------------------------------------------------------
(* Saga.compensate *)

BeginCompensate(c) ==
  /\ pc[c] = "abort"
  /\ status' = "compensating"
  /\ idx' = [idx EXCEPT ![c] = CompensateFrom(c)]
  /\ pc' = [pc EXCEPT ![c] = "undo"]
  /\ UNCHANGED <<stepStatus, sagaError, result, effects, ctxDone, last, handed,
                 compFailed, done, overlapped>>

\* A step with no Compensate function is passed over.
SkipStep(c) ==
  /\ pc[c] = "undo"
  /\ idx[c] >= 1
  /\ idx[c] \notin Compensable
  /\ idx' = [idx EXCEPT ![c] = PreviousStep(c)]
  /\ UNCHANGED <<sharedVars, ctxDone, pc, last, handed, compFailed, done, overlapped>>

\* step.Compensate(ctx, step.Result) is called with what Result holds now.
CallCompensate(c) ==
  /\ pc[c] = "undo"
  /\ idx[c] >= 1
  /\ idx[c] \in Compensable
  /\ handed' = [handed EXCEPT ![c] = result[idx[c]]]
  /\ pc' = [pc EXCEPT ![c] = "compensate"]
  /\ UNCHANGED <<sharedVars, ctxDone, idx, last, compFailed, done, overlapped>>

\* It succeeds: what the call named by that Result did is taken back.
CompensateStep(c) ==
  /\ pc[c] = "compensate"
  /\ stepStatus' = [stepStatus EXCEPT ![idx[c]] = "compensated"]
  /\ effects' = [effects EXCEPT ![idx[c]] = @ \ {handed[c]}]
  /\ done' = [done EXCEPT ![c] = @ \ {idx[c]}]
  /\ idx' = [idx EXCEPT ![c] = PreviousStep(c)]
  /\ pc' = [pc EXCEPT ![c] = "undo"]
  /\ UNCHANGED <<status, sagaError, result, ctxDone, last, handed, compFailed, overlapped>>

\* It returns an error, which is kept, and the loop goes on.
CompensationFails(c) ==
  /\ pc[c] = "compensate"
  /\ compFailed' = [compFailed EXCEPT ![c] = @ \cup {idx[c]}]
  /\ idx' = [idx EXCEPT ![c] = AfterFailure(c)]
  /\ pc' = [pc EXCEPT ![c] = "undo"]
  /\ UNCHANGED <<sharedVars, ctxDone, last, handed, done, overlapped>>

\* The last locked section of compensate, and the return of Execute.  The
\* status is "compensated" whether or not a compensation failed.
EndCompensate(c) ==
  /\ pc[c] = "undo"
  /\ idx[c] = 0
  /\ sagaError' = IF compFailed[c] # {} THEN "compensation" ELSE sagaError
  /\ status' = "compensated"
  /\ pc' = [pc EXCEPT ![c] = "error"]
  /\ UNCHANGED <<stepStatus, result, effects, ctxDone, idx, last, handed, compFailed,
                 done, overlapped>>

\* Environment: the call's context is cancelled or times out.
Cancel(c) ==
  /\ Inside(c)
  /\ ~ctxDone[c]
  /\ ctxDone' = [ctxDone EXCEPT ![c] = TRUE]
  /\ UNCHANGED <<sharedVars, pc, idx, last, handed, compFailed, done, overlapped>>

----------------------------------------------------------------------------

RunStep(c) ==
  \/ BeginStep(c) \/ SeeCancelled(c) \/ StepSucceeds(c) \/ StepFails(c)
  \/ Finish(c) \/ BeginCompensate(c) \/ SkipStep(c) \/ CallCompensate(c)
  \/ CompensateStep(c) \/ CompensationFails(c) \/ EndCompensate(c)

Next == \E c \in Calls : Execute(c) \/ RunStep(c) \/ Cancel(c)

Spec == Init /\ [][Next]_vars

----------------------------------------------------------------------------
(* Properties *)

\* What a call has in force, and what an abort may leave of it.
InForce(c) == {i \in Steps : c \in effects[i]}
Residue(c) == (Steps \ Compensable) \cup compFailed[c]

\* A call beside which no other ran is all or nothing: nil means the effect
\* of every step, an error means that only steps with no Compensate, or whose
\* Compensate failed, have kept theirs; and so it stays, whatever later calls
\* do with the steps.  Where calls overlapped, an aborted one keeps more only
\* of steps whose Result another call has overwritten (Execute, compensate).
AllOrNothing ==
  \A c \in Calls :
    /\ pc[c] = "ok" /\ c \notin overlapped => InForce(c) = Steps
    /\ pc[c] = "error" /\ c \notin overlapped => InForce(c) = (1..last[c]) \cap Residue(c)
    /\ pc[c] = "error" =>
         \A i \in InForce(c) : i <= last[c] /\ (i \in Residue(c) \/ result[i] # c)

\* compensate works from the last completed step backwards: while a step is
\* still to be compensated, no earlier step has been, unless the later one is
\* not compensable or its compensation failed; beside no other call the same
\* holds of the effects.
UndoneInReverse ==
  \A c \in Calls : \A i, j \in 1..last[c] : i < j =>
    /\ i \notin done[c] /\ j \in done[c] => j \in Residue(c)
    /\ c \notin overlapped /\ i \notin InForce(c) /\ j \in InForce(c) => j \in Residue(c)

\* compensate calls the Compensate function only of a step whose Execute
\* completed in the same call and that the call has not compensated already.
UndoesOnlyWhatWasDone ==
  [][\A c \in Calls : CallCompensate(c) => idx[c] \in done[c] \ compFailed[c]]_vars

\* How a call of Execute looks from outside: its outcome and, once it has
\* returned, the failed compensations and the steps in force.
Outcome == [c \in Calls |-> CASE pc[c] = "ready" -> "ready"
                              [] pc[c] = "ok"    -> "committed"
                              [] pc[c] = "error" -> "aborted"
                              [] OTHER           -> "running"]
Failed == [c \in Calls |-> IF Inside(c) THEN {} ELSE compFailed[c]]
Kept   == [c \in Calls |-> IF Inside(c) THEN {} ELSE InForce(c)]

Contract == INSTANCE SagaContract
  WITH outcome <- Outcome, failed <- Failed, kept <- Kept

\* Saga.Execute implements the contract: a call that has the saga for itself
\* is an atomic transaction that keeps all steps or only the residue of a
\* prefix of them; calls that overlap are not isolated from each other, but
\* only a running call takes compensable steps from others it overlapped.
ImplementsContract == Contract!Spec
=============================================================================
