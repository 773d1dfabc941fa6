---------------------------- MODULE EngineRetry ----------------------------
(***************************************************************************)
(* Retries, error policies and the engine's own circuit breaker            *)
(* (internal/engine/retry.go).  Callers run Retry around an operation that *)
(* goes through one shared CircuitBreaker, and hand the error they are     *)
(* left with to an ErrorHandler.                                           *)
(*                                                                         *)
(* The breaker has no lock.  Its fields are read and written in separate   *)
(* steps, so that updates of two callers are lost or overtake each other   *)
(* as they can in the program.  What a step reads early it keeps in "seen".*)
(***************************************************************************)
EXTENDS Naturals, Sequences

CONSTANTS Callers,
          Errors,        \* the errors the operation can give
          Retryable,     \* config.RetryableErrors, empty for all of them
          MaxAttempts,   \* config.MaxAttempts
          MaxFailures,   \* failures that open the breaker
          HalfOpenMax,   \* successes that close it again
          Policies,      \* the error policies in use
          MaxErrors,     \* errors in the window that open the handler
          ErrorWindow,   \* the handler's window, in ticks
          TimeBound,     \* bound: ticks
          OpenError,     \* CircuitOpenError
          None

VARIABLES state,       \* cb.state
          failCount, successCount,
          rested,      \* resetTimeout has passed since lastFailure
          resets,      \* what a Reset under way writes next, or "none"
          call,        \* each caller: place, attempt, error, what it read
          cancelled,   \* contexts that are done
          policy,      \* the handler's policy
          errors,      \* the handler's records: the tick of each error
          now

retryVars == <<state, failCount, successCount, rested, resets, call, cancelled,
               policy, errors, now>>
cbVars == <<state, failCount, successCount, rested, resets>>
handlerVars == <<policy, errors>>

Goto(c, place) == call' = [call EXCEPT ![c].pc = place]
Finish(c, err) == call' = [call EXCEPT ![c].pc = "returned", ![c].err = err]

------------------------------------------------------------------------
(* Retry *)

isRetryable(err) == Retryable = {} \/ err \in Retryable

(* The head of the loop: a context that is done ends it, and so does the   *)
(* last attempt.                                                           *)
Retry(c) ==
    /\ call[c].pc = "loop"
    /\ IF call[c].attempt > MaxAttempts THEN Finish(c, call[c].err)
       ELSE IF c \in cancelled THEN Finish(c, "cancelled")
       ELSE Goto(c, "execute")
    /\ UNCHANGED <<cbVars, cancelled, handlerVars, now>>

(* The answer of an attempt.  A nil error returns, one that is not         *)
(* retryable returns at once, the others wait, except after the last.      *)
Attempted(c) ==
    /\ call[c].pc = "answer"
    /\ IF call[c].err = None \/ ~ isRetryable(call[c].err)
       THEN Finish(c, call[c].err)
       ELSE IF call[c].attempt < MaxAttempts THEN Goto(c, "sleep")
       ELSE call' = [call EXCEPT ![c].pc = "loop", ![c].attempt = @ + 1]
    /\ UNCHANGED <<cbVars, cancelled, handlerVars, now>>

(* The select of the delay: the context or the timer, whichever is taken.  *)
Delay(c) ==
    /\ call[c].pc = "sleep"
    /\ \/ call' = [call EXCEPT ![c].pc = "loop", ![c].attempt = @ + 1]
       \/ c \in cancelled /\ Finish(c, "cancelled")
    /\ UNCHANGED <<cbVars, cancelled, handlerVars, now>>

(* Only the loop and the select look at the context: a cancel that comes   *)
(* anywhere else is as one that comes just before they do.                 *)
Cancel(c) ==
    /\ c \notin cancelled /\ call[c].pc \in {"loop", "sleep"}
    /\ cancelled' = cancelled \cup {c}
    /\ UNCHANGED <<cbVars, call, handlerVars, now>>

------------------------------------------------------------------------
(* CircuitBreaker *)

(* canExecute reads the state, and then the field that the state asks for. *)
canExecute(c) ==
    /\ call[c].pc = "execute"
    /\ Goto(c, CASE state = "closed" -> "operation"
                 [] state = "half_open" -> "count"
                 [] state = "open" -> "since")
    /\ UNCHANGED <<cbVars, cancelled, handlerVars, now>>

Refused(c) == call' = [call EXCEPT ![c].pc = "answer", ![c].err = OpenError]

CountTrials(c) ==
    /\ call[c].pc = "count"
    /\ IF successCount < HalfOpenMax THEN Goto(c, "operation") ELSE Refused(c)
    /\ UNCHANGED <<cbVars, cancelled, handlerVars, now>>

SinceFailure(c) ==
    /\ call[c].pc = "since"
    /\ IF rested THEN Goto(c, "half") ELSE Refused(c)
    /\ UNCHANGED <<cbVars, cancelled, handlerVars, now>>

(* The two writes that start a trial. *)
HalfOpen(c) ==
    /\ call[c].pc = "half"
    /\ state' = "half_open"
    /\ Goto(c, "zero")
    /\ UNCHANGED <<failCount, successCount, rested, resets, cancelled, handlerVars, now>>

ZeroSuccesses(c) ==
    /\ call[c].pc = "zero"
    /\ successCount' = 0
    /\ Goto(c, "operation")
    /\ UNCHANGED <<state, failCount, rested, resets, cancelled, handlerVars, now>>

(* fn() answers, and the caller reads the counter it is about to raise.    *)
Execute(c) ==
    /\ call[c].pc = "operation"
    /\ \/ call' = [call EXCEPT ![c].pc = "success", ![c].err = None,
                               ![c].seen = successCount]
       \/ \E e \in Errors :
            call' = [call EXCEPT ![c].pc = "failure", ![c].err = e,
                                 ![c].seen = failCount]
    /\ UNCHANGED <<cbVars, cancelled, handlerVars, now>>

recordFailure(c) ==
    /\ call[c].pc = "failure"
    /\ failCount' = call[c].seen + 1
    /\ call' = [call EXCEPT ![c].pc = "failedAt", ![c].seen = 0]
    /\ UNCHANGED <<state, successCount, rested, resets, cancelled, handlerVars, now>>

LastFailure(c) ==
    /\ call[c].pc = "failedAt"
    /\ rested' = FALSE
    /\ Goto(c, "failed")
    /\ UNCHANGED <<state, failCount, successCount, resets, cancelled, handlerVars, now>>

(* A failed trial opens the breaker, any other failure when the counter    *)
(* has reached its limit: what is read comes before what is written.       *)
FailureDecides(c) ==
    /\ call[c].pc = "failed"
    /\ Goto(c, IF state = "half_open" THEN "open" ELSE "limit")
    /\ UNCHANGED <<cbVars, cancelled, handlerVars, now>>

CountFailures(c) ==
    /\ call[c].pc = "limit"
    /\ Goto(c, IF failCount >= MaxFailures THEN "open" ELSE "answer")
    /\ UNCHANGED <<cbVars, cancelled, handlerVars, now>>

Open(c) ==
    /\ call[c].pc = "open"
    /\ state' = "open"
    /\ Goto(c, "answer")
    /\ UNCHANGED <<failCount, successCount, rested, resets, cancelled, handlerVars, now>>

recordSuccess(c) ==
    /\ call[c].pc = "success"
    /\ successCount' = call[c].seen + 1
    /\ call' = [call EXCEPT ![c].pc = "succeeded", ![c].seen = 0]
    /\ UNCHANGED <<state, failCount, rested, resets, cancelled, handlerVars, now>>

SuccessDecides(c) ==
    /\ call[c].pc = "succeeded"
    /\ Goto(c, IF state = "half_open" THEN "enough" ELSE "answer")
    /\ UNCHANGED <<cbVars, cancelled, handlerVars, now>>

(* Mutant: one success more than asked for. *)
Enough_More == successCount > HalfOpenMax

Enough == successCount >= HalfOpenMax

CountSuccesses(c) ==
    /\ call[c].pc = "enough"
    /\ Goto(c, IF Enough THEN "close" ELSE "answer")
    /\ UNCHANGED <<cbVars, cancelled, handlerVars, now>>

Close(c) ==
    /\ call[c].pc = "close"
    /\ state' = "closed"
    /\ Goto(c, "forget")
    /\ UNCHANGED <<failCount, successCount, rested, resets, cancelled, handlerVars, now>>

ForgetFailures(c) ==
    /\ call[c].pc = "forget"
    /\ failCount' = 0
    /\ Goto(c, "answer")
    /\ UNCHANGED <<state, successCount, rested, resets, cancelled, handlerVars, now>>

(* Reset of a breaker that is not closed comes from outside and writes one *)
(* field after the other.                                                  *)
Reset ==
    /\ \/ /\ resets = "none" /\ state # "closed" /\ resets' = "failures"
          /\ state' = "closed" /\ UNCHANGED <<failCount, successCount>>
       \/ /\ resets = "failures" /\ resets' = "successes"
          /\ failCount' = 0 /\ UNCHANGED <<state, successCount>>
       \/ /\ resets = "successes" /\ resets' = "none"
          /\ successCount' = 0 /\ UNCHANGED <<state, failCount>>
    /\ UNCHANGED <<rested, call, cancelled, handlerVars, now>>

(* The time to rest since the last failure is over. *)
Rest == /\ state = "open" /\ ~ rested
        /\ rested' = TRUE
        /\ UNCHANGED <<state, failCount, successCount, resets, call, cancelled,
                       handlerVars, now>>

------------------------------------------------------------------------
(* ErrorHandler *)

cleanOldErrors(es) == SelectSeq(es, LAMBDA t : t + ErrorWindow > now)

isCircuitOpen(es) == Len(cleanOldErrors(es)) >= MaxErrors

(* What the policy makes of the error: an output, the error, or the        *)
(* handler's own.                                                          *)
PolicyOutcome(err, es) ==
    CASE policy \in {"continue", "fallback"} -> None
      [] policy = "retry" -> "retryable"
      [] policy = "circuit_breaker" ->
           (IF isCircuitOpen(es) THEN OpenError ELSE err)
      [] OTHER -> err

Handle(c) ==
    LET es == cleanOldErrors(Append(errors, now)) IN
    /\ call[c].pc = "returned" /\ call[c].err # None
    /\ errors' = es
    /\ call' = [call EXCEPT ![c].pc = "handled",
                            ![c].err = PolicyOutcome(call[c].err, es)]
    /\ UNCHANGED <<cbVars, cancelled, policy, now>>

(* Time passes; only a handler that is about to be asked looks at it. *)
Tick == /\ now < TimeBound /\ now' = now + 1
        /\ \E c \in Callers : call[c].pc = "returned"
        /\ UNCHANGED <<cbVars, call, cancelled, handlerVars>>

------------------------------------------------------------------------
Init == /\ state = "closed" /\ failCount = 0 /\ successCount = 0
        /\ rested = FALSE /\ resets = "none"
        /\ call = [c \in Callers |-> [pc |-> "loop", attempt |-> 1,
                                      err |-> None, seen |-> 0]]
        /\ cancelled = {}
        /\ policy \in Policies
        /\ errors = << >> /\ now = 0

CallerStep(c) ==
    \/ Retry(c) \/ Attempted(c) \/ Delay(c)
    \/ canExecute(c) \/ CountTrials(c) \/ SinceFailure(c)
    \/ HalfOpen(c) \/ ZeroSuccesses(c) \/ Execute(c)
    \/ recordFailure(c) \/ LastFailure(c) \/ FailureDecides(c)
    \/ CountFailures(c) \/ Open(c)
    \/ recordSuccess(c) \/ SuccessDecides(c) \/ CountSuccesses(c)
    \/ Close(c) \/ ForgetFailures(c)
    \/ Handle(c)

Next == \/ \E c \in Callers : CallerStep(c) \/ Cancel(c)
        \/ Reset \/ Rest \/ Tick

(* A goroutine that can run does: nothing in the file waits for another.   *)
Spec == Init /\ [][Next]_retryVars
             /\ \A c \in Callers : WF_retryVars(CallerStep(c))

------------------------------------------------------------------------
(* A trial never gets stuck: a half-open breaker that would refuse every   *)
(* call has a caller that is about to reset the count it refuses for, or   *)
(* one that counted the success and is about to close it.  Nothing but a   *)
(* call leads out of half-open (retry.go:337-376), so a breaker that       *)
(* refused them all would refuse for ever.                                 *)
TrialEnds ==
    state = "half_open" /\ successCount >= HalfOpenMax
        => \E c \in Callers : call[c].pc \in {"zero", "succeeded", "enough", "close"}

(* Every Retry returns, whatever the breaker, the context and the          *)
(* operation do.                                                           *)
RetryReturns ==
    \A c \in Callers : <>(call[c].pc \in {"returned", "handled"})
=============================================================================
