----------------------------- MODULE SagaProofs -----------------------------
(***************************************************************************)
(* Proofs about Saga, for any number of calls and steps.                   *)
(***************************************************************************)
EXTENDS Saga, TLAPS

\* What holds of a call at each control point of Execute and compensate.
Progress(c) ==
  /\ compFailed[c] \subseteq Compensable
  /\ pc[c] = "ready" => done[c] = {} /\ last[c] = 0 /\ compFailed[c] = {}
  /\ pc[c] \in {"loop", "exec"} =>
       /\ idx[c] = last[c] + 1
       /\ done[c] = 1..last[c]
       /\ compFailed[c] = {}
  /\ pc[c] = "exec" => idx[c] <= NumSteps
  /\ pc[c] = "abort" => done[c] = 1..last[c] /\ compFailed[c] = {}
  /\ pc[c] \in {"undo", "compensate"} =>
       /\ idx[c] <= last[c]
       /\ compFailed[c] \subseteq (idx[c] + 1)..last[c]
       /\ done[c] = (1..idx[c]) \cup (((idx[c] + 1)..last[c]) \cap Residue(c))
  /\ pc[c] = "compensate" => idx[c] >= 1 /\ idx[c] \in Compensable
  /\ pc[c] = "ok" => last[c] = NumSteps /\ done[c] = Steps
  /\ pc[c] = "error" =>
       /\ compFailed[c] \subseteq 1..last[c]
       /\ done[c] = (1..last[c]) \cap Residue(c)

\* What the shared Result and the effects have to do with a call: a step it
\* finds overwritten was overwritten by a call it overlapped, and so was the
\* Result it hands on; what its own compensations took back stays so.
Own(c) ==
  /\ \A i \in Steps : c \in effects[i] \/ result[i] = c => i <= last[c]
  /\ \A i \in Steps : c \in effects[i] /\ result[i] = c => i \in done[c]
  /\ \A i \in Steps : i \in done[c] /\ i \notin Compensable => c \in effects[i]
  /\ c \notin overlapped => \A i \in Steps : c \in effects[i] <=> i \in done[c]
  /\ Inside(c) => \A i \in 1..last[c] :
       result[i] \in Calls /\ (result[i] # c => c \in overlapped /\ result[i] \in overlapped)
  /\ pc[c] = "compensate" =>
       /\ handed[c] \in Calls
       /\ handed[c] # c => c \in overlapped /\ handed[c] \in overlapped
       /\ result[idx[c]] = c => handed[c] = c

Overlap == \A c, d \in Calls : c # d /\ Inside(c) /\ Inside(d) => c \in overlapped

\* The inductive invariant.
IInv == TypeOK /\ (\A c \in Calls : Progress(c)) /\ (\A c \in Calls : Own(c)) /\ Overlap

\* Progress(c) depends on no variable but the call's own.
LEMMA ProgressFrame ==
  ASSUME NEW c \in Calls, Progress(c),
         UNCHANGED <<pc[c], idx[c], last[c], done[c], compFailed[c]>>
  PROVE  Progress(c)'
  BY DEF Progress, Residue

\* A new saga satisfies the invariant.
LEMMA InitEstablishes == Init => IInv
<1> SUFFICES ASSUME Init PROVE IInv
  OBVIOUS
<1> USE NumStepsAssumption, NoCallAssumption DEF Init
<1>1. TypeOK
  BY DEF TypeOK, Steps, StepStatus, SagaStatus, Points
<1>2. \A c \in Calls : Progress(c)
  BY DEF Progress, Steps
<1>3. \A c \in Calls : Own(c)
  BY DEF Own, Inside
<1>4. Overlap
  BY DEF Overlap, Inside
<1> QED
  BY <1>1, <1>2, <1>3, <1>4 DEF IInv

\* The types and the progress of every call, one step per action: the acting
\* call by its own control point, the others by ProgressFrame.
LEMMA ProgressPreserved ==
  ASSUME TypeOK, \A c \in Calls : Progress(c), [Next]_vars
  PROVE  TypeOK' /\ \A c \in Calls : Progress(c)'
<1> USE NumStepsAssumption, CompensableAssumption
<1> USE DEF HasNextStep, CompensateFrom, PreviousStep, AfterFailure
<1>1. ASSUME NEW c \in Calls, Execute(c) PROVE TypeOK' /\ \A d \in Calls : Progress(d)'
  <2>1. TypeOK'
    <3>1. Beside(c) \subseteq Calls
      BY DEF Beside
    <3> QED
      BY <1>1, <3>1 DEF Execute, TypeOK, Steps, Points, SagaStatus
  <2>2. Progress(c)'
    <3>1. last[c] = 0 /\ done[c] = {} /\ compFailed[c] = {} /\ 1..0 = {}
      BY <1>1 DEF Execute, Progress
    <3>2. pc'[c] = "loop" /\ idx'[c] = 1 /\ UNCHANGED <<last, done, compFailed>>
      BY <1>1 DEF Execute, TypeOK
    <3>3. idx'[c] = last'[c] + 1
      BY <3>1, <3>2
    <3>4. done'[c] = 1..last'[c] /\ compFailed'[c] = {}
      BY <3>1, <3>2, Zenon
    <3> QED
      BY <3>2, <3>3, <3>4 DEF Progress
  <2>3. \A d \in Calls \ {c} : Progress(d)'
    BY <1>1, ProgressFrame DEF Execute, TypeOK
  <2> QED
    BY <2>1, <2>2, <2>3
<1>2. ASSUME NEW c \in Calls, BeginStep(c) PROVE TypeOK' /\ \A d \in Calls : Progress(d)'
  <2>1. TypeOK'
    BY <1>2 DEF BeginStep, TypeOK, Progress, Steps, StepStatus, SagaStatus, Points, Inside
  <2>2. Progress(c)'
    BY <1>2 DEF BeginStep, TypeOK, Progress, Steps, Residue, Inside
  <2>3. \A d \in Calls \ {c} : Progress(d)'
    BY <1>2, ProgressFrame DEF BeginStep, TypeOK
  <2> QED
    BY <2>1, <2>2, <2>3
<1>3. ASSUME NEW c \in Calls, SeeCancelled(c) PROVE TypeOK' /\ \A d \in Calls : Progress(d)'
  <2>1. TypeOK'
    BY <1>3 DEF SeeCancelled, sharedVars, TypeOK, Progress, Steps, StepStatus, SagaStatus, Points, Inside
  <2>2. Progress(c)'
    BY <1>3 DEF SeeCancelled, TypeOK, Progress, Steps, Residue, Inside
  <2>3. \A d \in Calls \ {c} : Progress(d)'
    BY <1>3, ProgressFrame DEF SeeCancelled, TypeOK
  <2> QED
    BY <2>1, <2>2, <2>3
<1>4. ASSUME NEW c \in Calls, StepSucceeds(c) PROVE TypeOK' /\ \A d \in Calls : Progress(d)'
  <2>1. TypeOK'
    BY <1>4 DEF StepSucceeds, TypeOK, Progress, Steps, StepStatus, SagaStatus, Points, Inside
  <2>2. Progress(c)'
    BY <1>4 DEF StepSucceeds, TypeOK, Progress, Steps, Residue, Inside
  <2>3. \A d \in Calls \ {c} : Progress(d)'
    BY <1>4, ProgressFrame DEF StepSucceeds, TypeOK
  <2> QED
    BY <2>1, <2>2, <2>3
<1>5. ASSUME NEW c \in Calls, StepFails(c) PROVE TypeOK' /\ \A d \in Calls : Progress(d)'
  <2>1. TypeOK'
    BY <1>5 DEF StepFails, TypeOK, Progress, Steps, StepStatus, SagaStatus, Points, Inside
  <2>2. Progress(c)'
    BY <1>5 DEF StepFails, TypeOK, Progress, Steps, Residue, Inside
  <2>3. \A d \in Calls \ {c} : Progress(d)'
    BY <1>5, ProgressFrame DEF StepFails, TypeOK
  <2> QED
    BY <2>1, <2>2, <2>3
<1>6. ASSUME NEW c \in Calls, Finish(c) PROVE TypeOK' /\ \A d \in Calls : Progress(d)'
  <2>1. TypeOK'
    BY <1>6 DEF Finish, TypeOK, Progress, Steps, StepStatus, SagaStatus, Points, Inside
  <2>2. Progress(c)'
    BY <1>6 DEF Finish, TypeOK, Progress, Steps, Residue, Inside
  <2>3. \A d \in Calls \ {c} : Progress(d)'
    BY <1>6, ProgressFrame DEF Finish, TypeOK
  <2> QED
    BY <2>1, <2>2, <2>3
<1>7. ASSUME NEW c \in Calls, BeginCompensate(c) PROVE TypeOK' /\ \A d \in Calls : Progress(d)'
  <2>1. TypeOK'
    BY <1>7 DEF BeginCompensate, TypeOK, Progress, Steps, StepStatus, SagaStatus, Points, Inside
  <2>2. Progress(c)'
    BY <1>7 DEF BeginCompensate, TypeOK, Progress, Steps, Residue, Inside
  <2>3. \A d \in Calls \ {c} : Progress(d)'
    BY <1>7, ProgressFrame DEF BeginCompensate, TypeOK
  <2> QED
    BY <2>1, <2>2, <2>3
<1>8. ASSUME NEW c \in Calls, SkipStep(c) PROVE TypeOK' /\ \A d \in Calls : Progress(d)'
  <2>1. TypeOK'
    BY <1>8 DEF SkipStep, sharedVars, TypeOK, Progress, Steps, StepStatus, SagaStatus, Points, Inside
  <2>2. Progress(c)'
    BY <1>8 DEF SkipStep, TypeOK, Progress, Steps, Residue, Inside
  <2>3. \A d \in Calls \ {c} : Progress(d)'
    BY <1>8, ProgressFrame DEF SkipStep, TypeOK
  <2> QED
    BY <2>1, <2>2, <2>3
<1>9. ASSUME NEW c \in Calls, CallCompensate(c) PROVE TypeOK' /\ \A d \in Calls : Progress(d)'
  <2>1. TypeOK'
    BY <1>9 DEF CallCompensate, sharedVars, TypeOK, Progress, Steps, StepStatus, SagaStatus, Points, Inside
  <2>2. Progress(c)'
    BY <1>9 DEF CallCompensate, TypeOK, Progress, Steps, Residue, Inside
  <2>3. \A d \in Calls \ {c} : Progress(d)'
    BY <1>9, ProgressFrame DEF CallCompensate, TypeOK
  <2> QED
    BY <2>1, <2>2, <2>3
<1>10. ASSUME NEW c \in Calls, CompensateStep(c) PROVE TypeOK' /\ \A d \in Calls : Progress(d)'
  <2>1. TypeOK'
    BY <1>10 DEF CompensateStep, TypeOK, Progress, Steps, StepStatus, SagaStatus, Points, Inside
  <2>2. Progress(c)'
    BY <1>10 DEF CompensateStep, TypeOK, Progress, Steps, Residue, Inside
  <2>3. \A d \in Calls \ {c} : Progress(d)'
    BY <1>10, ProgressFrame DEF CompensateStep, TypeOK
  <2> QED
    BY <2>1, <2>2, <2>3
<1>11. ASSUME NEW c \in Calls, CompensationFails(c) PROVE TypeOK' /\ \A d \in Calls : Progress(d)'
  <2>1. TypeOK'
    BY <1>11 DEF CompensationFails, sharedVars, TypeOK, Progress, Steps, StepStatus, SagaStatus, Points, Inside
  <2>2. Progress(c)'
    BY <1>11 DEF CompensationFails, TypeOK, Progress, Steps, Residue, Inside
  <2>3. \A d \in Calls \ {c} : Progress(d)'
    BY <1>11, ProgressFrame DEF CompensationFails, TypeOK
  <2> QED
    BY <2>1, <2>2, <2>3
<1>12. ASSUME NEW c \in Calls, EndCompensate(c) PROVE TypeOK' /\ \A d \in Calls : Progress(d)'
  <2>1. TypeOK'
    BY <1>12 DEF EndCompensate, TypeOK, Progress, Steps, StepStatus, SagaStatus, Points, Inside
  <2>2. Progress(c)'
    BY <1>12 DEF EndCompensate, TypeOK, Progress, Steps, Residue, Inside
  <2>3. \A d \in Calls \ {c} : Progress(d)'
    BY <1>12, ProgressFrame DEF EndCompensate, TypeOK
  <2> QED
    BY <2>1, <2>2, <2>3
<1>13. ASSUME NEW c \in Calls, Cancel(c) PROVE TypeOK' /\ \A d \in Calls : Progress(d)'
  <2>1. TypeOK'
    BY <1>13 DEF Cancel, sharedVars, TypeOK, Progress, Steps, StepStatus, SagaStatus, Points, Inside
  <2>2. Progress(c)'
    BY <1>13 DEF Cancel, TypeOK, Progress, Steps, Residue, Inside
  <2>3. \A d \in Calls \ {c} : Progress(d)'
    BY <1>13, ProgressFrame DEF Cancel, TypeOK
  <2> QED
    BY <2>1, <2>2, <2>3
<1>14. CASE UNCHANGED vars
  BY <1>14, ProgressFrame DEF vars, sharedVars, localVars, TypeOK
<1> QED
  BY <1>1, <1>2, <1>3, <1>4, <1>5, <1>6, <1>7, <1>8, <1>9, <1>10, <1>11, <1>12, <1>13, <1>14 DEF Next, RunStep

\* A call that only moves on within Execute, with no change to the step
\* Results, the effects or what calls have done, keeps every call's view.
LEMMA OwnFrame ==
  ASSUME IInv, NEW c \in Calls, NEW q \in Points, pc[c] \in Points \ {"ready", "ok", "error"},
         pc' = [pc EXCEPT ![c] = q], q # "compensate",
         UNCHANGED <<result, effects, last, done, overlapped, handed>>,
         \A d \in Calls \ {c} : idx'[d] = idx[d]
  PROVE  (\A d \in Calls : Own(d)') /\ Overlap'
<1>1. pc \in [Calls -> Points] /\ (\A d \in Calls : Own(d)) /\ Overlap
  BY DEF IInv, TypeOK
<1>2. \A d \in Calls : Inside(d)' => Inside(d)
  BY <1>1 DEF Inside, Points
<1>3. \A d \in Calls : pc'[d] = "compensate" => d # c /\ pc[d] = "compensate"
  BY <1>1
<1>4. ASSUME NEW d \in Calls PROVE Own(d)'
  <2>1. Own(d)
    BY <1>1
  <2> QED
    BY <2>1, <1>2, <1>3 DEF Own
<1>5. Overlap'
  BY <1>1, <1>2 DEF Overlap
<1> QED
  BY <1>4, <1>5

\* A new call: those it finds inside have a rival now, and so has it.
LEMMA OwnExecute ==
  ASSUME IInv, NEW c \in Calls, Execute(c)
  PROVE  (\A d \in Calls : Own(d)') /\ Overlap'
<1>1. /\ pc \in [Calls -> Points] /\ idx \in [Calls -> 0..(NumSteps + 1)]
      /\ done \in [Calls -> SUBSET Steps]
      /\ (\A d \in Calls : Own(d)) /\ Overlap /\ Progress(c) /\ last[c] = 0 /\ done[c] = {}
  BY DEF IInv, TypeOK, Progress, Execute
<1>2. /\ pc[c] = "ready" /\ pc'[c] = "loop" /\ ~Inside(c)
      /\ overlapped' = overlapped \cup Beside(c)
      /\ \A d \in Calls \ {c} : /\ pc'[d] = pc[d] /\ idx'[d] = idx[d]
                               /\ (Inside(d)' <=> Inside(d))
      /\ UNCHANGED <<result, effects, last, done, handed>>
  BY <1>1 DEF Execute, Inside
<1>3. \A i \in Steps : ~(i <= 0)
  BY NumStepsAssumption DEF Steps
<1>4. \A i \in Steps : c \notin effects[i] /\ result[i] # c
  BY <1>1, <1>3 DEF Own
<1>5. Own(c)'
  BY <1>1, <1>2, <1>4 DEF Own
<1>6. ASSUME NEW d \in Calls \ {c}, Inside(d) PROVE c \in overlapped' /\ d \in overlapped'
  <2>1. d \in {e \in Calls : Inside(e)}
    BY <1>6
  <2>2. c \in Beside(c) /\ d \in Beside(c)
    BY <2>1 DEF Beside
  <2> QED
    BY <2>2, <1>2
<1>7. \A d \in Calls \ {c} : d \in overlapped => d \in overlapped'
  BY <1>2
<1>8. ASSUME NEW d \in Calls \ {c} PROVE Own(d)'
  <2>1. Own(d)
    BY <1>1
  <2>2. \A i \in 1..last[d] : result[i] # c
    <3>1. last[d] \in 0..NumSteps
      BY DEF IInv, TypeOK
    <3>2. 1..last[d] \subseteq Steps
      BY <3>1, NumStepsAssumption DEF Steps
    <3> QED
      BY <1>4, <3>2
  <2>3. \A i \in Steps : d \in effects[i] => (d \in effects[i])'
    BY <1>2
  <2> QED
    BY <2>1, <2>2, <1>2, <1>7 DEF Own
<1>9. Overlap'
  BY <1>1, <1>2, <1>6 DEF Overlap
<1> QED
  BY <1>5, <1>8, <1>9

\* A completed step: the Result it overwrites is of a call it overlaps, or of
\* one that is over.
LEMMA OwnStepSucceeds ==
  ASSUME IInv, NEW c \in Calls, StepSucceeds(c)
  PROVE  (\A d \in Calls : Own(d)') /\ Overlap'
<1> DEFINE k == idx[c]
<1>1. /\ pc \in [Calls -> Points] /\ result \in [Steps -> Calls \cup {NoCall}]
      /\ effects \in [Steps -> SUBSET Calls] /\ done \in [Calls -> SUBSET Steps]
      /\ last \in [Calls -> 0..NumSteps] /\ idx \in [Calls -> 0..(NumSteps + 1)]
      /\ (\A d \in Calls : Own(d)) /\ Overlap
      /\ k = last[c] + 1 /\ k \in Steps /\ done[c] = 1..last[c]
  BY NumStepsAssumption DEF IInv, TypeOK, Progress, StepSucceeds, Steps
<1>2. /\ Inside(c) /\ Inside(c)' /\ pc'[c] = "loop" /\ last'[c] = k /\ done'[c] = done[c] \cup {k}
      /\ result'[k] = c /\ effects'[k] = effects[k] \cup {c}
      /\ \A i \in Steps \ {k} : result'[i] = result[i] /\ effects'[i] = effects[i]
      /\ \A d \in Calls \ {c} : /\ pc'[d] = pc[d] /\ last'[d] = last[d] /\ done'[d] = done[d]
                               /\ idx'[d] = idx[d] /\ (Inside(d)' <=> Inside(d))
      /\ UNCHANGED <<overlapped, handed>>
  BY <1>1 DEF StepSucceeds, Inside
<1>3. \A d \in Calls : last[d] \in Nat /\ 1..last[d] \subseteq Steps
  BY <1>1, NumStepsAssumption DEF Steps
<1>4. Own(c)'
  <2>0. Own(c)
    BY <1>1
  <2>1. \A i \in Steps : (c \in effects[i] \/ result[i] = c => i <= last[c])'
    <3>1. \A i \in Steps \ {k} : c \in effects'[i] \/ result'[i] = c => i <= k
      BY <1>1, <1>2, <1>3, <2>0 DEF Own, Steps
    <3> QED
      BY <3>1, <1>2, <1>1, <1>3
  <2>2. \A i \in Steps : (c \in effects[i] /\ result[i] = c => i \in done[c])'
    BY <1>2, <2>0 DEF Own
  <2>3. \A i \in Steps : (i \in done[c] /\ i \notin Compensable => c \in effects[i])'
    BY <1>2, <2>0 DEF Own
  <2>4. (c \notin overlapped => \A i \in Steps : c \in effects[i] <=> i \in done[c])'
    BY <1>2, <2>0 DEF Own
  <2>5. \A i \in 1..k : (result[i] \in Calls /\ (result[i] # c => c \in overlapped /\ result[i] \in overlapped))'
    <3>1. \A i \in 1..last[c] : i \in Steps \ {k}
      BY <1>1, <1>3
    <3>2. \A i \in 1..last[c] : (result[i] \in Calls /\ (result[i] # c => c \in overlapped /\ result[i] \in overlapped))'
      BY <3>1, <1>2, <2>0 DEF Own
    <3>3. \A i \in 1..k : i = k \/ i \in 1..last[c]
      BY <1>1, <1>3
    <3> QED
      BY <3>2, <3>3, <1>2
  <2> QED
    BY <2>1, <2>2, <2>3, <2>4, <2>5, <1>2 DEF Own
<1>5. ASSUME NEW d \in Calls \ {c} PROVE Own(d)'
  <2>0. Own(d)
    BY <1>1
  <2>1. \A i \in Steps : (d \in effects'[i] <=> d \in effects[i]) /\ (result'[i] = d => result[i] = d)
    BY <1>2
  <2>2. ASSUME Inside(d), NEW i \in 1..last[d]
        PROVE  result'[i] \in Calls /\ (result'[i] # d => d \in overlapped /\ result'[i] \in overlapped)
    <3>1. c \in overlapped /\ d \in overlapped
      BY <1>1, <1>2, <2>2 DEF Overlap
    <3>2. i \in Steps /\ result[i] \in Calls /\ (result[i] # d => d \in overlapped /\ result[i] \in overlapped)
      BY <1>3, <2>0, <2>2 DEF Own
    <3> QED
      BY <3>1, <3>2, <1>2
  <2>3. ASSUME pc[d] = "compensate" PROVE result'[idx[d]] = d => result[idx[d]] = d
    <3>1. idx[d] \in Steps
      BY <2>3, <1>1, NumStepsAssumption DEF IInv, Progress, Steps
    <3> QED
      BY <3>1, <2>1
  <2> QED
    BY <2>0, <2>1, <2>2, <2>3, <1>2 DEF Own
<1>6. Overlap'
  BY <1>1, <1>2 DEF Overlap
<1> QED
  BY <1>4, <1>5, <1>6

\* A Compensate is called with its call's own Result or with one of a call
\* that was beside it.
LEMMA OwnCallCompensate ==
  ASSUME IInv, NEW c \in Calls, CallCompensate(c)
  PROVE  (\A d \in Calls : Own(d)') /\ Overlap'
<1>1. /\ pc \in [Calls -> Points] /\ handed \in [Calls -> Calls \cup {NoCall}]
      /\ (\A d \in Calls : Own(d)) /\ Overlap
      /\ idx[c] \in 1..last[c]
  BY NumStepsAssumption DEF IInv, TypeOK, Progress, CallCompensate
<1>2. /\ Inside(c) /\ Inside(c)' /\ handed'[c] = result[idx[c]]
      /\ \A d \in Calls \ {c} : handed'[d] = handed[d] /\ pc'[d] = pc[d] /\ (Inside(d)' <=> Inside(d))
      /\ UNCHANGED <<result, effects, last, done, overlapped, idx>>
  BY <1>1 DEF CallCompensate, sharedVars, Inside
<1>3. Own(c)'
  <2>0. Own(c)
    BY <1>1
  <2>1. handed'[c] \in Calls /\ (handed'[c] # c => c \in overlapped /\ handed'[c] \in overlapped)
    BY <1>1, <1>2, <2>0 DEF Own
  <2> QED
    BY <2>0, <2>1, <1>2 DEF Own
<1>4. ASSUME NEW d \in Calls \ {c} PROVE Own(d)'
  <2>0. Own(d)
    BY <1>1
  <2> QED
    BY <2>0, <1>2 DEF Own
<1>5. Overlap'
  BY <1>1, <1>2 DEF Overlap
<1> QED
  BY <1>3, <1>4, <1>5

\* A compensation takes back what the Result names.
LEMMA OwnCompensateStep ==
  ASSUME IInv, NEW c \in Calls, CompensateStep(c)
  PROVE  (\A d \in Calls : Own(d)') /\ Overlap'
<1> DEFINE k == idx[c]
<1>1. /\ pc \in [Calls -> Points] /\ effects \in [Steps -> SUBSET Calls] /\ done \in [Calls -> SUBSET Steps]
      /\ idx \in [Calls -> 0..(NumSteps + 1)]
      /\ (\A d \in Calls : Own(d)) /\ Overlap
      /\ k \in Steps /\ k \in Compensable
  BY NumStepsAssumption DEF IInv, TypeOK, Progress, CompensateStep, Steps
<1>2. /\ Inside(c) /\ Inside(c)' /\ pc[c] = "compensate" /\ pc'[c] = "undo" /\ done'[c] = done[c] \ {k}
      /\ effects'[k] = effects[k] \ {handed[c]} /\ \A i \in Steps \ {k} : effects'[i] = effects[i]
      /\ \A d \in Calls \ {c} : pc'[d] = pc[d] /\ idx'[d] = idx[d] /\ done'[d] = done[d] /\ (Inside(d)' <=> Inside(d))
      /\ UNCHANGED <<result, last, overlapped, handed>>
  BY <1>1 DEF CompensateStep, Inside
<1>3. /\ handed[c] \in Calls /\ (handed[c] # c => c \in overlapped /\ handed[c] \in overlapped)
      /\ (result[k] = c => handed[c] = c)
  BY <1>1, <1>2 DEF Own
<1>4. Own(c)'
  <2>0. Own(c)
    BY <1>1
  <2>1. \A i \in Steps : (c \in effects[i] /\ result[i] = c => i \in done[c])'
    BY <1>2, <1>3, <2>0 DEF Own
  <2>2. \A i \in Steps : (i \in done[c] /\ i \notin Compensable => c \in effects[i])'
    BY <1>1, <1>2, <2>0 DEF Own
  <2>3. (c \notin overlapped => \A i \in Steps : c \in effects[i] <=> i \in done[c])'
    BY <1>2, <1>3, <2>0 DEF Own
  <2>4. \A i \in Steps : effects'[i] \subseteq effects[i]
    BY <1>2
  <2> QED
    BY <2>0, <2>1, <2>2, <2>3, <2>4, <1>2 DEF Own
<1>5. ASSUME NEW d \in Calls \ {c} PROVE Own(d)'
  <2>0. Own(d)
    BY <1>1
  <2>1. \A i \in Steps : /\ d \in effects'[i] => d \in effects[i]
                        /\ d \in effects[i] /\ d \notin effects'[i] => d \in overlapped /\ i \in Compensable
    BY <1>1, <1>2, <1>3
  <2> QED
    BY <2>0, <2>1, <1>2 DEF Own
<1>6. Overlap'
  BY <1>1, <1>2 DEF Overlap
<1> QED
  BY <1>4, <1>5, <1>6

\* The step of the invariant: types and progress first, then what the calls
\* share.
LEMMA StepPreserves == IInv /\ [Next]_vars => IInv'
<1> SUFFICES ASSUME IInv, [Next]_vars PROVE IInv'
  OBVIOUS
<1>0. TypeOK' /\ \A c \in Calls : Progress(c)'
  BY ProgressPreserved DEF IInv
<1>1. CASE UNCHANGED vars
  <2>1. \A c \in Calls : Own(c)'
    BY <1>1 DEF IInv, vars, sharedVars, localVars, Own, Inside
  <2>2. Overlap'
    BY <1>1 DEF IInv, vars, localVars, Overlap, Inside
  <2> QED
    BY <1>0, <2>1, <2>2 DEF IInv
<1>2. ASSUME NEW c \in Calls, Execute(c) \/ StepSucceeds(c) \/ CallCompensate(c) \/ CompensateStep(c)
      PROVE  (\A d \in Calls : Own(d)') /\ Overlap'
  BY <1>2, OwnExecute, OwnStepSucceeds, OwnCallCompensate, OwnCompensateStep
<1>3. ASSUME NEW c \in Calls,
             BeginStep(c) \/ SeeCancelled(c) \/ StepFails(c) \/ Finish(c) \/ BeginCompensate(c)
             \/ SkipStep(c) \/ CompensationFails(c) \/ EndCompensate(c)
      PROVE  (\A d \in Calls : Own(d)') /\ Overlap'
  <2>1. TypeOK
    BY DEF IInv
  <2>2. /\ UNCHANGED <<result, effects, last, done, overlapped, handed>>
        /\ \A d \in Calls \ {c} : idx'[d] = idx[d]
    BY <2>1, <1>3 DEF TypeOK, BeginStep, SeeCancelled, StepFails, Finish, BeginCompensate, SkipStep,
                     CompensationFails, EndCompensate, sharedVars
  <2>3. pc[c] \in Points \ {"ready", "ok", "error"}
    BY <1>3 DEF BeginStep, SeeCancelled, StepFails, Finish, BeginCompensate, SkipStep,
               CompensationFails, EndCompensate, Points
  <2>4. \E q \in Points \ {"compensate"} : pc' = [pc EXCEPT ![c] = q]
    <3>1. CASE SkipStep(c)
      BY <2>1, <3>1 DEF TypeOK, SkipStep, Points
    <3>2. CASE ~SkipStep(c)
      BY <1>3, <3>2 DEF BeginStep, SeeCancelled, StepFails, Finish, BeginCompensate,
                       CompensationFails, EndCompensate, Points
    <3> QED
      BY <3>1, <3>2
  <2> QED
    BY <2>2, <2>3, <2>4, OwnFrame
<1>4. ASSUME NEW c \in Calls, Cancel(c) PROVE (\A d \in Calls : Own(d)') /\ Overlap'
  BY <1>4 DEF IInv, Cancel, sharedVars, Own, Overlap, Inside
<1> QED
  BY <1>0, <1>1, <1>2, <1>3, <1>4 DEF Next, RunStep, IInv

\* The invariant holds in every reachable state.
THEOREM Inductive == Spec => []IInv
  BY InitEstablishes, StepPreserves, PTL DEF Spec

\* Every field of the saga keeps its type, whoever calls Execute and when.
THEOREM TypeCorrect == Spec => []TypeOK
  BY Inductive, PTL DEF IInv

\* Saga.Execute: a call beside which no other ran has the effect of every
\* step if it returns nil, and keeps only what could not be compensated if it
\* returns an error; a call that overlapped others keeps more only where its
\* Result was overwritten.
THEOREM ExecuteAllOrNothing == Spec => []AllOrNothing
<1>1. IInv => AllOrNothing
  <2> SUFFICES ASSUME IInv, NEW c \in Calls
               PROVE  /\ pc[c] = "ok" /\ c \notin overlapped => InForce(c) = Steps
                      /\ pc[c] = "error" /\ c \notin overlapped => InForce(c) = (1..last[c]) \cap Residue(c)
                      /\ pc[c] = "error" =>
                           \A i \in InForce(c) : i <= last[c] /\ (i \in Residue(c) \/ result[i] # c)
    BY DEF AllOrNothing
  <2>1. Progress(c) /\ Own(c) /\ done[c] \subseteq Steps
    BY DEF IInv, TypeOK
  <2>2. c \notin overlapped => InForce(c) = done[c]
    BY <2>1 DEF Own, InForce
  <2>3. pc[c] = "error" => \A i \in InForce(c) : i <= last[c] /\ (i \in Residue(c) \/ result[i] # c)
    BY <2>1 DEF Own, Progress, InForce
  <2> QED
    BY <2>1, <2>2, <2>3 DEF Progress
<1> QED
  BY <1>1, Inductive, PTL

\* Saga.compensate: no step is compensated while a later one that could still
\* be is not.
THEOREM CompensationInReverse == Spec => []UndoneInReverse
<1>1. IInv => UndoneInReverse
  <2> SUFFICES ASSUME IInv, NEW c \in Calls, NEW i \in 1..last[c], NEW j \in 1..last[c], i < j
               PROVE  /\ i \notin done[c] /\ j \in done[c] => j \in Residue(c)
                      /\ c \notin overlapped /\ i \notin InForce(c) /\ j \in InForce(c) => j \in Residue(c)
    BY DEF UndoneInReverse
  <2>1. TypeOK /\ Progress(c) /\ Own(c)
    BY DEF IInv
  <2>2. /\ last[c] \in Nat /\ idx[c] \in Nat /\ pc[c] \in Points /\ NumSteps \in Nat
        /\ last[c] <= NumSteps
    BY <2>1, NumStepsAssumption DEF TypeOK
  <2>3. i \notin done[c] /\ j \in done[c] => j \in Residue(c)
    <3>1. CASE pc[c] \in {"ready", "loop", "exec", "abort"}
      BY <2>1, <2>2, <3>1 DEF Progress
    <3>2. CASE pc[c] \in {"undo", "compensate"}
      BY <2>1, <2>2, <3>2 DEF Progress
    <3>3. CASE pc[c] = "ok"
      BY <2>1, <2>2, <3>3 DEF Progress, Steps
    <3>4. CASE pc[c] = "error"
      BY <2>1, <3>4 DEF Progress
    <3> QED
      BY <2>2, <3>1, <3>2, <3>3, <3>4 DEF Points
  <2>4. i \in Steps /\ j \in Steps
    BY <2>2 DEF Steps
  <2> QED
    BY <2>1, <2>3, <2>4 DEF Own, InForce
<1> QED
  BY <1>1, Inductive, PTL

\* Saga.compensate: Compensate is called only for a step that this call of
\* Execute completed and has not compensated.
THEOREM CompensatesOnlyCompleted == Spec => UndoesOnlyWhatWasDone
<1> USE NumStepsAssumption
<1>1. IInv /\ [Next]_vars =>
        [\A c \in Calls : CallCompensate(c) => idx[c] \in done[c] \ compFailed[c]]_vars
  BY DEF IInv, TypeOK, Progress, CallCompensate
<1> QED
  BY <1>1, Inductive, PTL DEF Spec, UndoesOnlyWhatWasDone

----------------------------------------------------------------------------
(* Refinement *)

\* A step of a call inside Execute that does not return, and takes back
\* nothing of a call that has returned, is invisible.
LEMMA InnerStepStutters ==
  ASSUME IInv, NEW c \in Calls, Inside(c), Inside(c)', UNCHANGED overlapped,
         \A d \in Calls \ {c} : pc'[d] = pc[d] /\ compFailed'[d] = compFailed[d],
         \A d \in Calls \ {c} : ~Inside(d) => InForce(d)' = InForce(d)
  PROVE  UNCHANGED <<Outcome, overlapped, Failed, Kept>>
<1>1. \A d \in Calls : Outcome'[d] = Outcome[d] /\ Failed'[d] = Failed[d] /\ Kept'[d] = Kept[d]
  <2>1. ASSUME NEW d \in Calls PROVE Outcome'[d] = Outcome[d]
    <3>1. CASE d = c
      <4>1. Outcome[c] = "running" /\ Outcome'[c] = "running"
        BY DEF Outcome, Inside
      <4> QED
        BY <3>1, <4>1
    <3>2. CASE d # c
      BY <3>2 DEF Outcome
    <3> QED
      BY <3>1, <3>2
  <2>2. \A d \in Calls : Inside(d)' <=> Inside(d)
    BY DEF Inside
  <2>3. \A d \in Calls : Failed'[d] = Failed[d] /\ Kept'[d] = Kept[d]
    BY <2>2 DEF Failed, Kept
  <2> QED
    BY <2>1, <2>3
<1>2. UNCHANGED overlapped
  OBVIOUS
<1>3. Outcome' = Outcome
  BY <1>1 DEF Outcome
<1>4. Failed' = Failed /\ Kept' = Kept
  BY <1>1 DEF Failed, Kept
<1> QED
  BY <1>2, <1>3, <1>4

\* A call that returns shows its outcome, its failed compensations and the
\* steps it has in force.
LEMMA Return ==
  ASSUME IInv, NEW c \in Calls, Inside(c), NEW q \in {"ok", "error"}, pc' = [pc EXCEPT ![c] = q],
         UNCHANGED <<effects, compFailed, overlapped>>
  PROVE  /\ Outcome[c] = "running" /\ UNCHANGED overlapped
         /\ Outcome' = [Outcome EXCEPT ![c] = IF q = "ok" THEN "committed" ELSE "aborted"]
         /\ Failed' = [Failed EXCEPT ![c] = compFailed[c]]
         /\ Kept' = [Kept EXCEPT ![c] = InForce(c)]
<1>1. pc \in [Calls -> Points] /\ pc'[c] = q /\ ~Inside(c)'
  BY DEF IInv, TypeOK, Inside
<1>2. \A d \in Calls \ {c} : pc'[d] = pc[d] /\ (Inside(d)' <=> Inside(d))
  BY <1>1 DEF Inside
<1>3. \A d \in Calls : InForce(d)' = InForce(d)
  BY DEF InForce
<1>4. Outcome[c] = "running" /\ UNCHANGED overlapped
  BY DEF Outcome, Inside
<1>5. Outcome' = [Outcome EXCEPT ![c] = IF q = "ok" THEN "committed" ELSE "aborted"]
  BY <1>1, <1>2 DEF Outcome
<1>6. Failed' = [Failed EXCEPT ![c] = compFailed[c]]
  BY <1>1, <1>2 DEF Failed
<1>7. Kept' = [Kept EXCEPT ![c] = InForce(c)]
  BY <1>1, <1>2, <1>3 DEF Kept
<1> QED
  BY <1>4, <1>5, <1>6, <1>7

\* Execute begins a transaction.
LEMMA ExecuteBegins ==
  ASSUME IInv, NEW c \in Calls, Execute(c)
  PROVE  Contract!Begin(c)
<1>1. /\ pc \in [Calls -> Points] /\ Progress(c) /\ Own(c)
      /\ NumSteps \in Nat
  BY NumStepsAssumption DEF IInv, TypeOK
<1>2. /\ pc[c] = "ready" /\ pc'[c] = "loop" /\ ~Inside(c) /\ Inside(c)'
      /\ \A d \in Calls \ {c} : pc'[d] = pc[d] /\ (Inside(d)' <=> Inside(d))
      /\ UNCHANGED <<effects, compFailed>>
  BY <1>1 DEF Execute, Inside
<1>3. compFailed[c] = {} /\ InForce(c) = {}
  BY <1>1, <1>2 DEF Progress, Own, InForce, Steps
<1>4. \A d \in Calls : InForce(d)' = InForce(d)
  BY <1>2 DEF InForce
<1>5. Failed' = Failed
  BY <1>2, <1>3 DEF Failed
<1>6. Kept' = Kept
  BY <1>2, <1>3, <1>4 DEF Kept
<1>7. Outcome[c] = "ready" /\ Outcome' = [Outcome EXCEPT ![c] = "running"]
  BY <1>1, <1>2 DEF Outcome
<1>8. \A d \in Calls : Contract!Running(d) <=> Inside(d)
  BY <1>1 DEF Contract!Running, Outcome, Inside
<1>9. {d \in Calls : Contract!Running(d)} = {d \in Calls : Inside(d)}
  BY <1>8
<1>10. overlapped' = overlapped \cup Beside(c)
  BY DEF Execute
<1> QED
  BY <1>5, <1>6, <1>7, <1>9, <1>10 DEF Contract!Begin, Beside

\* The end of the loop commits it.
LEMMA FinishCommits ==
  ASSUME IInv, NEW c \in Calls, Finish(c)
  PROVE  Contract!Commit(c)
<1>1. /\ Progress(c) /\ Own(c) /\ done[c] = Steps /\ compFailed[c] = {} /\ compFailed \in [Calls -> SUBSET Steps]
      /\ InForce(c) \subseteq Steps /\ Inside(c)
  BY NumStepsAssumption DEF IInv, TypeOK, Progress, Finish, HasNextStep, InForce, Steps, Inside
<1>2. /\ Outcome[c] = "running" /\ UNCHANGED overlapped
      /\ Outcome' = [Outcome EXCEPT ![c] = "committed"]
      /\ Failed' = [Failed EXCEPT ![c] = {}] /\ Kept' = [Kept EXCEPT ![c] = InForce(c)]
  BY <1>1, Return DEF Finish
<1>3. Failed[c] = {} /\ Failed' = Failed
  BY <1>1, <1>2 DEF Failed
<1> DEFINE taken == Steps \ InForce(c)
<1>4. taken \in SUBSET Compensable /\ Steps \ taken = InForce(c)
  BY <1>1 DEF Own, InForce
<1>5. c \notin overlapped => taken = {}
  BY <1>1 DEF Own, InForce
<1> QED
  BY <1>2, <1>3, <1>4, <1>5 DEF Contract!Commit, Contract!Returns, Contract!Running, Steps

\* The end of compensate aborts it.
LEMMA EndAborts ==
  ASSUME IInv, NEW c \in Calls, EndCompensate(c)
  PROVE  Contract!Abort(c)
<1> DEFINE k == last[c]
           F == compFailed[c]
           left == InForce(c) \cap Compensable
<1>1. /\ Progress(c) /\ Own(c) /\ k \in 0..NumSteps /\ k \in Nat /\ 1..k \subseteq Steps
      /\ done[c] = (1..k) \cap Residue(c) /\ F \subseteq 1..k /\ F \subseteq Compensable
      /\ Inside(c)
  BY NumStepsAssumption DEF IInv, TypeOK, Progress, EndCompensate, Steps, Inside
<1>2. /\ Outcome[c] = "running" /\ UNCHANGED overlapped
      /\ Outcome' = [Outcome EXCEPT ![c] = "aborted"]
      /\ Failed' = [Failed EXCEPT ![c] = F] /\ Kept' = [Kept EXCEPT ![c] = InForce(c)]
  BY <1>1, Return DEF EndCompensate
<1>3. InForce(c) \subseteq 1..k
  BY <1>1 DEF Own, InForce, Steps
<1>4. (1..k) \ Compensable \subseteq InForce(c)
  BY <1>1 DEF Own, InForce, Residue
<1>5. InForce(c) = ((1..k) \ Compensable) \cup left
  BY <1>3, <1>4
<1>6. c \notin overlapped => left = F
  <2>1. c \notin overlapped => InForce(c) = done[c]
    BY <1>1, <1>3 DEF Own, InForce, Residue
  <2> QED
    BY <1>1, <2>1 DEF Residue
<1>7. F \in SUBSET ((1..k) \cap Compensable) /\ left \in SUBSET ((1..k) \cap Compensable)
  BY <1>1, <1>3
<1> QED
  BY <1>1, <1>2, <1>5, <1>6, <1>7 DEF Contract!Abort, Contract!Returns, Contract!Running

\* A compensation that was handed another call's Result interferes with it.
LEMMA CompensateInterferes ==
  ASSUME IInv, NEW c \in Calls, CompensateStep(c)
  PROVE  (\E d \in Calls : Contract!Interfere(d, c)) \/ UNCHANGED <<Outcome, overlapped, Failed, Kept>>
<1> DEFINE d == handed[c]
           k == idx[c]
<1>1. /\ pc \in [Calls -> Points] /\ effects \in [Steps -> SUBSET Calls] /\ k \in Steps /\ k \in Compensable
      /\ d \in Calls /\ (d # c => c \in overlapped /\ d \in overlapped)
  BY NumStepsAssumption DEF IInv, TypeOK, Progress, Own, CompensateStep, Steps
<1>2. /\ Inside(c) /\ Inside(c)' /\ UNCHANGED <<overlapped, compFailed, handed>>
      /\ effects'[k] = effects[k] \ {d} /\ \A i \in Steps \ {k} : effects'[i] = effects[i]
      /\ \A e \in Calls \ {c} : pc'[e] = pc[e] /\ (Inside(e)' <=> Inside(e))
  BY <1>1 DEF CompensateStep, Inside
<1>3. InForce(d)' = InForce(d) \ {k} /\ \A e \in Calls \ {d} : InForce(e)' = InForce(e)
  <2>1. \A i \in Steps : d \in effects'[i] <=> d \in effects[i] /\ i # k
    BY <1>1, <1>2
  <2>2. \A e \in Calls \ {d} : \A i \in Steps : e \in effects'[i] <=> e \in effects[i]
    BY <1>1, <1>2
  <2> QED
    BY <1>2, <2>1, <2>2 DEF InForce
<1>4. CASE d = c \/ Inside(d)
  <2>1. \A e \in Calls \ {c} : ~Inside(e) => InForce(e)' = InForce(e)
    BY <1>3, <1>4
  <2> QED
    BY <1>2, <2>1, InnerStepStutters
<1>5. CASE d # c /\ ~Inside(d)
  <2>1. Outcome' = Outcome
    BY <1>1, <1>2 DEF Outcome, Inside
  <2>2. UNCHANGED overlapped /\ Failed' = Failed
    BY <1>2 DEF Failed
  <2>3. Kept' = [Kept EXCEPT ![d] = Kept[d] \ {k}]
    BY <1>2, <1>3, <1>5 DEF Kept
  <2>4. d \in overlapped /\ c \in overlapped /\ Contract!Running(c) /\ ~Contract!Running(d)
    BY <1>1, <1>2, <1>5 DEF Contract!Running, Outcome, Inside
  <2> QED
    BY <1>1, <2>1, <2>2, <2>3, <2>4 DEF Contract!Interfere
<1> QED
  BY <1>4, <1>5

\* Saga.Execute implements SagaContract.
THEOREM SagaImplementsContract == Spec => ImplementsContract
<1>1. Init => Contract!Init
  <2> SUFFICES ASSUME Init PROVE Contract!Init
    OBVIOUS
  <2>1. Outcome = [c \in Calls |-> "ready"] /\ Failed = [c \in Calls |-> {}]
    BY DEF Init, Outcome, Failed, Inside
  <2>2. overlapped = {}
    BY DEF Init
  <2>3. Kept = [c \in Calls |-> {}]
    BY DEF Init, Kept, InForce, Inside
  <2> QED
    BY <2>1, <2>2, <2>3 DEF Contract!Init
<1>2. IInv /\ [Next]_vars => [Contract!Next]_(Contract!vars)
  <2> SUFFICES ASSUME IInv, [Next]_vars
               PROVE  Contract!Next \/ UNCHANGED <<Outcome, overlapped, Failed, Kept>>
    BY DEF Contract!vars
  <2>1. ASSUME NEW c \in Calls, Execute(c) \/ Finish(c) \/ EndCompensate(c) PROVE Contract!Next
    BY <2>1, ExecuteBegins, FinishCommits, EndAborts DEF Contract!Next
  <2>2. ASSUME NEW c \in Calls, CompensateStep(c)
        PROVE  Contract!Next \/ UNCHANGED <<Outcome, overlapped, Failed, Kept>>
    BY <2>2, CompensateInterferes DEF Contract!Next
  <2>3. ASSUME NEW c \in Calls,
               BeginStep(c) \/ SeeCancelled(c) \/ StepSucceeds(c) \/ StepFails(c)
               \/ BeginCompensate(c) \/ SkipStep(c) \/ CallCompensate(c) \/ CompensationFails(c)
        PROVE  UNCHANGED <<Outcome, overlapped, Failed, Kept>>
    <3>0. TypeOK
      BY DEF IInv
    <3>1. Inside(c) /\ Inside(c)'
      BY <3>0, <2>3 DEF TypeOK, Inside, BeginStep, SeeCancelled, StepSucceeds, StepFails, BeginCompensate,
                       SkipStep, CallCompensate, CompensationFails
    <3>2. UNCHANGED overlapped
      BY <2>3 DEF BeginStep, SeeCancelled, StepSucceeds, StepFails, BeginCompensate,
                 SkipStep, CallCompensate, CompensationFails
    <3>3. \A d \in Calls \ {c} : pc'[d] = pc[d] /\ compFailed'[d] = compFailed[d]
      BY <3>0, <2>3 DEF TypeOK, BeginStep, SeeCancelled, StepSucceeds, StepFails, BeginCompensate,
                       SkipStep, CallCompensate, CompensationFails
    <3>4. \A d \in Calls \ {c} : InForce(d)' = InForce(d)
      <4>1. CASE StepSucceeds(c)
        <5>1. \A d \in Calls \ {c} : \A i \in Steps : d \in effects'[i] <=> d \in effects[i]
          BY <3>0, <4>1 DEF StepSucceeds, TypeOK
        <5> QED
          BY <5>1 DEF InForce
      <4>2. CASE ~StepSucceeds(c)
        BY <2>3, <4>2 DEF BeginStep, SeeCancelled, StepFails, BeginCompensate, SkipStep,
                         CallCompensate, CompensationFails, sharedVars, InForce
      <4> QED
        BY <4>1, <4>2
    <3> QED
      BY <3>1, <3>2, <3>3, <3>4, InnerStepStutters
  <2>4. ASSUME NEW c \in Calls, Cancel(c) PROVE UNCHANGED <<Outcome, overlapped, Failed, Kept>>
    BY <2>4 DEF Cancel, sharedVars, Outcome, Failed, Kept, InForce, Inside
  <2>5. CASE UNCHANGED vars
    BY <2>5 DEF vars, sharedVars, localVars, Outcome, Failed, Kept, InForce, Inside
  <2> QED
    BY <2>1, <2>2, <2>3, <2>4, <2>5 DEF Next, RunStep
<1> QED
  BY <1>1, <1>2, Inductive, PTL DEF Spec, ImplementsContract, Contract!Spec
=============================================================================
