--------------------------- MODULE CircuitBreaker ---------------------------
(***************************************************************************)
(* internal/platform/resilience/circuit_breaker.go: one CircuitBreaker     *)
(* shared by goroutines that call RetryWithCircuitBreaker (Execute is the  *)
(* case MaxRetries = 0) or ExecuteWithFallback.  canExecute, recordResult, *)
(* State and Reset are critical sections of cb.mu; the protected function  *)
(* runs between them, so a result may be recorded long after the state it  *)
(* was admitted in.                                                        *)
(*                                                                         *)
(* Time is one bit: `elapsed' says that more than cb.timeout has passed    *)
(* since lastFailureTime.                                                  *)
(***************************************************************************)
EXTENDS Integers, TLAPS

CONSTANTS
  Callers,
  MaxFailures,      \* cb.maxFailures
  HalfOpenSuccess,  \* cb.halfOpenSuccess
  MaxRetries,       \* maxRetries of RetryWithCircuitBreaker
  FailureCap        \* bound on cb.failures, which the code never caps

ASSUME ThresholdAssumption == MaxFailures \in Nat \ {0} /\ HalfOpenSuccess \in Nat \ {0}
ASSUME RetriesAssumption == MaxRetries \in Nat
ASSUME FailureCapAssumption == FailureCap \in Nat /\ FailureCap >= MaxFailures

VARIABLES
  state,      \* cb.state
  failures,   \* cb.failures
  successes,  \* cb.successes
  elapsed,    \* time.Since(cb.lastFailureTime) > cb.timeout
  healthy,    \* environment: the protected function does not fail
  pc,         \* [Callers -> control point]
  mode,       \* [Callers -> which entry point the caller is in]
  attempt     \* [Callers -> i of the retry loop]

breaker == <<state, failures, successes, elapsed>>
vars == <<breaker, healthy, pc, mode, attempt>>

Modes  == {"retry", "fallback"}
Points == {"idle", "try", "fn", "failed", "backoff"}

TypeOK ==
  /\ state \in {"closed", "open", "half-open"}
  /\ failures \in 0..FailureCap
  /\ successes \in 0..HalfOpenSuccess
  /\ elapsed \in BOOLEAN /\ healthy \in BOOLEAN
  /\ pc \in [Callers -> Points]
  /\ mode \in [Callers -> Modes]
  /\ attempt \in [Callers -> 0..MaxRetries]

Init ==
  /\ state = "closed" /\ failures = 0 /\ successes = 0
  /\ elapsed = TRUE
  /\ healthy \in BOOLEAN
  /\ pc = [c \in Callers |-> "idle"]
  /\ mode = [c \in Callers |-> "retry"]
  /\ attempt = [c \in Callers |-> 0]

----------------------------------------------------------------------------
(* The critical sections.  A suffixed name is a faulty variant.            *)

CanExecute_NeverProbes == state # "open"
CanExecute_NoTimer == TRUE

\* canExecute returns true; an open breaker past its timeout does too.
CanExecute == state # "open" \/ elapsed

\* transitionTo(StateHalfOpen) on the way in
Admit ==
  /\ CanExecute
  /\ IF state = "open"
       THEN state' = "half-open" /\ successes' = 0
       ELSE UNCHANGED <<state, successes>>
  /\ UNCHANGED <<failures, elapsed>>

\* onFailure: does this failure open the breaker?
Trips == state = "half-open" \/ (state = "closed" /\ failures + 1 >= MaxFailures)

\* onFailure.  In the open state a late failure is counted too and restarts
\* the timeout.
OnFailure ==
  /\ failures < FailureCap
  /\ failures' = failures + 1
  /\ elapsed' = FALSE
  /\ successes' = 0
  /\ state' = IF Trips THEN "open" ELSE state

Closes_OneTooMany == successes + 1 > HalfOpenSuccess

\* onSuccess in the half-open state: is this the last success needed?
Closes == successes + 1 >= HalfOpenSuccess

\* onSuccess.  In the open state a late success is ignored.
OnSuccess ==
  /\ CASE state = "closed" ->
            failures' = 0 /\ UNCHANGED <<state, successes>>
       [] state = "half-open" /\ Closes ->
            state' = "closed" /\ failures' = 0 /\ successes' = 0
       [] state = "half-open" /\ ~Closes ->
            successes' = successes + 1 /\ UNCHANGED <<state, failures>>
       [] OTHER -> UNCHANGED <<state, failures, successes>>
  /\ UNCHANGED elapsed

\* Reset: transitionTo(StateClosed), which does nothing in the closed state,
\* so that the failures counted so far stay.
Reset ==
  /\ state # "closed"
  /\ state' = "closed" /\ failures' = 0 /\ successes' = 0
  /\ UNCHANGED <<elapsed, healthy, pc, mode, attempt>>

----------------------------------------------------------------------------
(* Execute, ExecuteWithFallback, RetryWithCircuitBreaker *)

Goto(c, p) == pc' = [pc EXCEPT ![c] = p]

Call(c, m) ==
  /\ pc[c] = "idle"
  /\ Goto(c, "try")
  /\ mode' = [mode EXCEPT ![c] = m]
  /\ attempt' = [attempt EXCEPT ![c] = 0]
  /\ UNCHANGED <<breaker, healthy>>

Enter(c) ==
  /\ pc[c] = "try"
  /\ Admit
  /\ Goto(c, "fn")
  /\ UNCHANGED <<healthy, mode, attempt>>

\* ErrCircuitOpen is returned (never retried), or the fallback is run.
Rejected(c) ==
  /\ pc[c] = "try"
  /\ ~CanExecute
  /\ Goto(c, "idle")
  /\ UNCHANGED <<breaker, healthy, mode, attempt>>

FnSucceeds(c) ==
  /\ pc[c] = "fn"
  /\ OnSuccess
  /\ Goto(c, "idle")
  /\ UNCHANGED <<healthy, mode, attempt>>

FnFails(c) ==
  /\ pc[c] = "fn"
  /\ ~healthy
  /\ OnFailure
  /\ Goto(c, "failed")
  /\ UNCHANGED <<healthy, mode, attempt>>

\* if i < maxRetries
MoreAttempts(c) == attempt[c] < MaxRetries

\* ExecuteWithFallback returns the error or the fallback's result, depending
\* on a fresh read of the state; the retry loop ends or waits.
AfterFailure(c) ==
  /\ pc[c] = "failed"
  /\ Goto(c, IF mode[c] = "retry" /\ MoreAttempts(c) THEN "backoff" ELSE "idle")
  /\ UNCHANGED <<breaker, healthy, mode, attempt>>

\* i++
NextAttempt(c) == attempt[c] + 1

BackoffOver(c) ==
  /\ pc[c] = "backoff"
  /\ attempt' = [attempt EXCEPT ![c] = NextAttempt(c)]
  /\ Goto(c, "try")
  /\ UNCHANGED <<breaker, healthy, mode>>

\* ctx.Done() at the head of the loop or during the wait.
Cancelled(c) ==
  /\ mode[c] = "retry"
  /\ pc[c] \in {"try", "backoff"}
  /\ Goto(c, "idle")
  /\ UNCHANGED <<breaker, healthy, mode, attempt>>

\* Environment: time passes; the protected service breaks or heals.
Elapse ==
  /\ ~elapsed
  /\ elapsed' = TRUE
  /\ UNCHANGED <<state, failures, successes, healthy, pc, mode, attempt>>

Breaks ==
  /\ healthy' = ~healthy
  /\ UNCHANGED <<breaker, pc, mode, attempt>>

CallerStep(c) ==
  \/ Enter(c) \/ Rejected(c) \/ FnSucceeds(c) \/ FnFails(c)
  \/ AfterFailure(c) \/ BackoffOver(c)

Next ==
  \/ \E c \in Callers : \/ \E m \in Modes : Call(c, m)
                        \/ CallerStep(c)
                        \/ Cancelled(c)
  \/ Reset \/ Elapse \/ Breaks

Spec == Init /\ [][Next]_vars

\* Goroutines run, the protected function returns, the clock advances,
\* callers keep coming and are not all cancelled before they are admitted.
FairSpec ==
  /\ Spec
  /\ WF_vars(Elapse)
  /\ \A c \in Callers : /\ WF_vars(\E m \in Modes : Call(c, m))
                        /\ WF_vars(CallerStep(c))
                        /\ SF_vars(Enter(c))

----------------------------------------------------------------------------
(* Properties *)

\* The counters agree with the state whatever late results were recorded:
\* a closed breaker is below its failure threshold, a half-open one below its
\* success threshold, and an open one has seen a failure; successes are
\* counted in the half-open state only (onFailure, onSuccess, transitionTo).
CountersMatchState ==
  /\ state = "closed" => failures < MaxFailures /\ successes = 0
  /\ state = "half-open" => successes < HalfOpenSuccess
  /\ state = "open" => failures >= 1 /\ successes = 0

\* An open breaker is left only through Reset, or for half-open once the
\* timeout since the LAST failure has passed, late failures included; a
\* closed one opens only on the failure that reaches the threshold.
LegalTransitions ==
  [][/\ state = "open" /\ state' # "open" =>
          (state' = "half-open" /\ elapsed) \/ Reset
     /\ state = "closed" /\ state' # "closed" =>
          state' = "open" /\ failures' = MaxFailures /\ ~elapsed']_vars

\* Once the protected service stays healthy and callers keep calling, the
\* breaker closes for good (canExecute, onSuccess).
Recovers == <>[]healthy => <>[](state = "closed")

----------------------------------------------------------------------------
(* Proofs, for any number of callers and any thresholds *)

\* The inductive invariant: a caller that waits to retry has a retry left.
RetryLeft == \A c \in Callers : pc[c] = "backoff" => attempt[c] < MaxRetries
IInv == TypeOK /\ CountersMatchState /\ RetryLeft

\* A new breaker satisfies the invariant.
LEMMA InitEstablishes == Init => IInv
  BY ThresholdAssumption, RetriesAssumption, FailureCapAssumption
  DEF Init, IInv, TypeOK, CountersMatchState, RetryLeft, Points, Modes

\* What each critical section of cb.mu does to the fields of the breaker.
BreakerOK ==
  /\ state \in {"closed", "open", "half-open"}
  /\ failures \in 0..FailureCap
  /\ successes \in 0..HalfOpenSuccess
  /\ elapsed \in BOOLEAN
  /\ CountersMatchState

\* Each critical section keeps the counters in agreement with the state.
LEMMA SectionsPreserve ==
  ASSUME BreakerOK, Admit \/ OnFailure \/ OnSuccess \/ UNCHANGED breaker
  PROVE  BreakerOK'
<1> USE ThresholdAssumption, FailureCapAssumption DEF BreakerOK, CountersMatchState
<1>1. CASE Admit
  BY <1>1 DEF Admit, CanExecute
<1>2. CASE OnFailure
  <2>1. elapsed' \in BOOLEAN
    BY <1>2 DEF OnFailure
  <2>2. failures' \in 0..FailureCap /\ failures' >= 1 /\ successes' = 0
    BY <1>2 DEF OnFailure
  <2>3. CASE Trips
    <3>1. state' = "open"
      BY <1>2, <2>3 DEF OnFailure
    <3> QED
      BY <2>1, <2>2, <3>1
  <2>4. CASE ~Trips
    <3>1. state' = state /\ failures' = failures + 1
      BY <1>2, <2>4 DEF OnFailure
    <3>2. state # "half-open" /\ (state = "closed" => failures + 1 < MaxFailures)
      BY <2>4 DEF Trips
    <3> QED
      BY <2>1, <2>2, <3>1, <3>2
  <2> QED
    BY <2>3, <2>4
<1>3. CASE OnSuccess
  BY <1>3 DEF OnSuccess, Closes
<1>4. CASE UNCHANGED breaker
  BY <1>4 DEF breaker
<1> QED
  BY <1>1, <1>2, <1>3, <1>4

\* Every step of a caller keeps the invariant.
LEMMA StepPreserves == IInv /\ [Next]_vars => IInv'
<1> USE RetriesAssumption
<1> SUFFICES ASSUME IInv, [Next]_vars PROVE IInv'
  OBVIOUS
<1> USE DEF Goto, Points, Modes, RetryLeft, TypeOK
<1>0. TypeOK /\ BreakerOK /\ RetryLeft
  BY DEF IInv, BreakerOK
<1>1. ASSUME NEW c \in Callers, NEW m \in Modes, Call(c, m) PROVE IInv'
  BY <1>0, <1>1, SectionsPreserve DEF Call, IInv, BreakerOK
<1>2. ASSUME NEW c \in Callers, Enter(c) PROVE IInv'
  <2>1. BreakerOK'
    BY <1>0, <1>2, SectionsPreserve DEF Enter
  <2>2. RetryLeft' /\ healthy' \in BOOLEAN
        /\ pc' \in [Callers -> Points] /\ mode' \in [Callers -> Modes]
        /\ attempt' \in [Callers -> 0..MaxRetries]
    BY <1>0, <1>2 DEF Enter
  <2> QED
    BY <2>1, <2>2 DEF IInv, BreakerOK
<1>3. ASSUME NEW c \in Callers, Rejected(c) PROVE IInv'
  <2>1. BreakerOK'
    BY <1>0, <1>3, SectionsPreserve DEF Rejected
  <2>2. RetryLeft' /\ healthy' \in BOOLEAN
        /\ pc' \in [Callers -> Points] /\ mode' \in [Callers -> Modes]
        /\ attempt' \in [Callers -> 0..MaxRetries]
    BY <1>0, <1>3 DEF Rejected
  <2> QED
    BY <2>1, <2>2 DEF IInv, BreakerOK
<1>4. ASSUME NEW c \in Callers, FnSucceeds(c) PROVE IInv'
  <2>1. BreakerOK'
    BY <1>0, <1>4, SectionsPreserve DEF FnSucceeds
  <2>2. RetryLeft' /\ healthy' \in BOOLEAN
        /\ pc' \in [Callers -> Points] /\ mode' \in [Callers -> Modes]
        /\ attempt' \in [Callers -> 0..MaxRetries]
    BY <1>0, <1>4 DEF FnSucceeds
  <2> QED
    BY <2>1, <2>2 DEF IInv, BreakerOK
<1>5. ASSUME NEW c \in Callers, FnFails(c) PROVE IInv'
  <2>1. BreakerOK'
    BY <1>0, <1>5, SectionsPreserve DEF FnFails
  <2>2. RetryLeft' /\ healthy' \in BOOLEAN
        /\ pc' \in [Callers -> Points] /\ mode' \in [Callers -> Modes]
        /\ attempt' \in [Callers -> 0..MaxRetries]
    BY <1>0, <1>5 DEF FnFails
  <2> QED
    BY <2>1, <2>2 DEF IInv, BreakerOK
<1>6. ASSUME NEW c \in Callers, AfterFailure(c) PROVE IInv'
  <2>1. BreakerOK'
    BY <1>0, <1>6, SectionsPreserve DEF AfterFailure
  <2>2. RetryLeft' /\ healthy' \in BOOLEAN
        /\ pc' \in [Callers -> Points] /\ mode' \in [Callers -> Modes]
        /\ attempt' \in [Callers -> 0..MaxRetries]
    BY <1>0, <1>6 DEF AfterFailure, MoreAttempts
  <2> QED
    BY <2>1, <2>2 DEF IInv, BreakerOK
<1>7. ASSUME NEW c \in Callers, BackoffOver(c) PROVE IInv'
  <2>1. BreakerOK'
    BY <1>0, <1>7, SectionsPreserve DEF BackoffOver
  <2>2. RetryLeft' /\ healthy' \in BOOLEAN
        /\ pc' \in [Callers -> Points] /\ mode' \in [Callers -> Modes]
        /\ attempt' \in [Callers -> 0..MaxRetries]
    BY <1>0, <1>7 DEF BackoffOver, NextAttempt
  <2> QED
    BY <2>1, <2>2 DEF IInv, BreakerOK
<1>8. ASSUME NEW c \in Callers, Cancelled(c) PROVE IInv'
  <2>1. BreakerOK'
    BY <1>0, <1>8, SectionsPreserve DEF Cancelled
  <2>2. RetryLeft' /\ healthy' \in BOOLEAN
        /\ pc' \in [Callers -> Points] /\ mode' \in [Callers -> Modes]
        /\ attempt' \in [Callers -> 0..MaxRetries]
    BY <1>0, <1>8 DEF Cancelled
  <2> QED
    BY <2>1, <2>2 DEF IInv, BreakerOK
<1>9. CASE Reset
  BY <1>0, <1>9, ThresholdAssumption, FailureCapAssumption
  DEF Reset, IInv, BreakerOK, CountersMatchState
<1>10. CASE Elapse \/ Breaks
  BY <1>0, <1>10 DEF Elapse, Breaks, breaker, IInv, BreakerOK, CountersMatchState
<1>11. CASE UNCHANGED vars
  BY <1>0, <1>11 DEF vars, breaker, IInv, BreakerOK, CountersMatchState
<1> QED
  BY <1>1, <1>2, <1>3, <1>4, <1>5, <1>6, <1>7, <1>8, <1>9, <1>10, <1>11
  DEF Next, CallerStep

\* The invariant holds in every reachable state.
THEOREM Inductive == Spec => []IInv
  BY InitEstablishes, StepPreserves, PTL DEF Spec

\* The fields of the breaker and the locals of its callers keep their types;
\* in particular a retry loop makes at most MaxRetries + 1 attempts.
THEOREM TypeCorrect == Spec => []TypeOK
  BY Inductive, PTL DEF IInv

\* onFailure, onSuccess and transitionTo keep the counters in step with the
\* state, however late a result is recorded.
THEOREM CountersAgree == Spec => []CountersMatchState
  BY Inductive, PTL DEF IInv

\* The breaker changes state only the way canExecute, recordResult and Reset
\* say, for every interleaving of the callers.
THEOREM TransitionsLegal == Spec => LegalTransitions
<1> USE ThresholdAssumption
<1>1. IInv /\ [Next]_vars =>
        [/\ state = "open" /\ state' # "open" =>
              (state' = "half-open" /\ elapsed) \/ Reset
         /\ state = "closed" /\ state' # "closed" =>
              state' = "open" /\ failures' = MaxFailures /\ ~elapsed']_vars
  <2> SUFFICES ASSUME IInv, Next, state' # state
               PROVE  /\ state = "open" => (state' = "half-open" /\ elapsed) \/ Reset
                      /\ state = "closed" =>
                           state' = "open" /\ failures' = MaxFailures /\ ~elapsed'
    OBVIOUS
  <2>0. /\ state \in {"closed", "open", "half-open"} /\ failures \in Nat
        /\ state = "closed" => failures < MaxFailures
    BY FailureCapAssumption DEF IInv, TypeOK, CountersMatchState
  <2>1. Admit \/ OnFailure \/ OnSuccess \/ Reset
    BY DEF Next, CallerStep, Call, Enter, Rejected, FnSucceeds, FnFails, AfterFailure,
           BackoffOver, Cancelled, Elapse, Breaks, breaker
  <2>2. CASE Admit
    BY <2>0, <2>2 DEF Admit, CanExecute
  <2>3. CASE OnFailure
    BY <2>0, <2>3 DEF OnFailure, Trips
  <2>4. CASE OnSuccess
    BY <2>0, <2>4 DEF OnSuccess, Closes
  <2>5. CASE Reset
    BY <2>0, <2>5 DEF Reset
  <2> QED
    BY <2>1, <2>2, <2>3, <2>4, <2>5
<1> QED
  BY <1>1, Inductive, PTL DEF Spec, LegalTransitions
=============================================================================
