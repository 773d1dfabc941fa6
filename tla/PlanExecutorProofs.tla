-------------------------- MODULE PlanExecutorProofs --------------------------
(***************************************************************************)
(* Proofs about PlanExecutor, for any nodes and any workflow with finitely *)
(* many connections, cycles and connections to missing nodes included.     *)
(***************************************************************************)
EXTENDS PlanExecutor, FiniteSetTheorems, WellFoundedInduction, TLAPS

\* The connections into n that remaining[n] still counts.
Pending(n) == {e \in Into(n) : e.source \notin Processed}

\* remaining is exact, and a candidate has all its dependencies in a stage.
Kahn ==
  /\ \A n \in Names : remaining[n] = Cardinality(Pending(n))
  /\ pc = "plan" => Nodes # {} /\ \A n \in queue : Dependencies(n) \subseteq Processed

\* No node is in two stages, and dependencies are in earlier stages.
Layered ==
  /\ \A k, l \in 1..Len(stages) : k # l => stages[k] \cap stages[l] = {}
  /\ \A k \in 1..Len(stages) : \A n \in stages[k] : \A d \in Dependencies(n) :
       \E j \in 1..(k - 1) : d \in stages[j]

\* What a control point says of the plan and the error.
Phase ==
  /\ pc = "start" => stages = << >>
  /\ pc \in {"start", "plan"} \/ err = "plan" => current = 0 /\ \A n \in Nodes : npc[n] = "no"
  /\ pc # "done" => err = "none"
  /\ pc \in {"launch", "wait", "done"} /\ err # "plan" => Processed = Nodes /\ current >= 1
  /\ pc = "wait" \/ err = "node" => current <= Len(stages)
  /\ pc = "done" /\ err = "none" => current > Len(stages)
  /\ err = "node" => /\ workflow.stopOnError
                     /\ \E n \in Stage : npc[n] = "failed"
                     /\ \A n \in Stage : Ended(n)

\* Earlier stages have ended and are stored; only the current one runs.
Staged ==
  /\ \A k \in 1..Len(stages) : k < current => \A n \in stages[k] :
       /\ Ended(n) /\ (npc[n] = "ok" => n \in outputs)
       /\ workflow.stopOnError => npc[n] # "failed"
  /\ \A n \in Nodes : npc[n] \in {"launched", "running"} => pc = "wait" /\ n \in Stage
  /\ \A n \in Nodes : npc[n] # "no" => \E k \in 1..Len(stages) : k <= current /\ n \in stages[k]

\* The inductive invariant.
IInv == TypeOK /\ Kahn /\ Layered /\ Phase /\ Staged /\ InputsComplete

----------------------------------------------------------------------------

\* Functions from a finite set into a finite one map onto a finite set.
LEMMA FiniteInto ==
  ASSUME workflow \in Workflows, NEW n, NEW S \in SUBSET Into(n)
  PROVE  IsFiniteSet(S) /\ Cardinality(S) \in Nat /\ (Cardinality(S) = 0 <=> S = {})
<1>1. IsFiniteSet(Conns)
  BY WorkflowsAssumption DEF Conns
<1>2. S \in SUBSET Conns
  BY DEF Into
<1>3. IsFiniteSet(S)
  BY <1>1, <1>2, FS_Subset
<1> QED
  BY <1>3, FS_CardinalityType, FS_EmptySet

\* Taking a part away takes its number away.
LEMMA CardinalityOfRest ==
  ASSUME NEW S, IsFiniteSet(S), NEW T \in SUBSET S
  PROVE  Cardinality(S \ T) = Cardinality(S) - Cardinality(T)
<1>1. S \cap T = T
  OBVIOUS
<1> QED
  BY <1>1, FS_Difference

\* What NewPlanExecutor builds satisfies the invariant.
LEMMA InitEstablishes == Init => IInv
<1> SUFFICES ASSUME Init PROVE IInv
  OBVIOUS
<1>0. workflow \in Workflows /\ stages = << >> /\ Processed = {}
  BY DEF Init, Processed, ToSet
<1>1. \A n \in Names : Pending(n) = Into(n)
  BY <1>0 DEF Pending
<1>2. \A n \in Names : remaining[n] = Cardinality(Into(n)) /\ remaining[n] \in Nat
  BY <1>0, FiniteInto DEF Init, InDegree
<1>3. TypeOK
  BY <1>0, <1>2 DEF Init, TypeOK, InDegree
<1>4. Kahn
  BY <1>1, <1>2 DEF Kahn, Init
<1>5. Layered
  BY <1>0 DEF Layered
<1>6. Phase
  BY DEF Init, Phase
<1>7. Staged /\ InputsComplete
  BY DEF Init, Staged, InputsComplete, Ended
<1> QED
  BY <1>3, <1>4, <1>5, <1>6, <1>7 DEF IInv

----------------------------------------------------------------------------
(* The plan *)

\* A step that leaves the graph keeps what is known of it.
LEMMA GraphFrame ==
  ASSUME UNCHANGED workflow
  PROVE  /\ Names' = Names
         /\ \A n : Into(n)' = Into(n) /\ Dependencies(n)' = Dependencies(n)
  BY DEF Names, Conns, Into, Dependencies

\* A step that leaves the plan keeps what is known of it.
LEMMA PlanFrame ==
  ASSUME UNCHANGED <<workflow, remaining, stages>>
  PROVE  /\ Processed' = Processed
         /\ Layered => Layered'
         /\ (Kahn /\ pc' # "plan") => Kahn'
<1>1. Processed' = Processed
  BY DEF Processed, ToSet
<1>2. \A n : Pending(n)' = Pending(n)
  BY <1>1, GraphFrame DEF Pending
<1>3. Layered => Layered'
  BY GraphFrame DEF Layered
<1>4. (Kahn /\ pc' # "plan") => Kahn'
  BY <1>1, <1>2, GraphFrame DEF Kahn
<1> QED
  BY <1>1, <1>3, <1>4

\* A node is processed when it is in one of the stages.
LEMMA ProcessedInStage ==
  ASSUME stages \in Seq(SUBSET Nodes), NEW n
  PROVE  n \in Processed <=> \E k \in 1..Len(stages) : n \in stages[k]
  BY DEF Processed, ToSet

\* One round of the planning loop.
LEMMA PlanStagePreserves ==
  ASSUME IInv, PlanStage, UNCHANGED workflow
  PROVE  IInv'
<1> DEFINE stage == (queue \cap Nodes) \ Processed
<1>0. TypeOK /\ Kahn /\ Layered /\ Phase /\ Staged /\ InputsComplete
  BY DEF IInv
<1>1. /\ pc = "plan" /\ pc' = "plan" /\ err = "none" /\ err' = "none"
      /\ stages' = IF stage = {} THEN stages ELSE Append(stages, stage)
      /\ remaining' = Decreased(stage) /\ queue' = Ready(stage)
      /\ UNCHANGED <<current, npc, input, outputs>>
  BY <1>0 DEF PlanStage, run, Phase
<1>2. stage \subseteq Nodes /\ stage \cap Processed = {} /\ stages \in Seq(SUBSET Nodes)
  BY <1>0 DEF TypeOK
<1> HIDE DEF stage
<1>3. Processed' = Processed \cup stage
  <2>1. CASE stage = {}
    BY <1>1, <2>1 DEF Processed, ToSet
  <2>2. CASE stage # {}
    <3>1. /\ stages' \in Seq(SUBSET Nodes) /\ Len(stages') = Len(stages) + 1
          /\ stages'[Len(stages) + 1] = stage
          /\ \A k \in 1..Len(stages) : stages'[k] = stages[k]
      BY <1>1, <1>2, <2>2
    <3>2. \A n : n \in Processed' <=> \E k \in 1..(Len(stages) + 1) : n \in stages'[k]
      BY <3>1 DEF Processed, ToSet
    <3>3. \A n : n \in Processed <=> \E k \in 1..Len(stages) : n \in stages[k]
      BY <1>2, ProcessedInStage
    <3>4. \A n : n \in Processed' <=> n \in Processed \/ n \in stage
      <4> SUFFICES ASSUME NEW n PROVE n \in Processed' <=> n \in Processed \/ n \in stage
        OBVIOUS
      <4>1. Len(stages) \in Nat
        BY <1>2
      <4> QED
        BY <3>1, <3>2, <3>3, <4>1
    <3> QED
      BY <3>4
  <2> QED
    BY <2>1, <2>2
<1>4. \A n \in Names :
        /\ Pending(n)' = Pending(n) \ {e \in Into(n) : e.source \in stage}
        /\ remaining'[n] = Cardinality(Pending(n)')
        /\ remaining'[n] \in Nat
  <2> SUFFICES ASSUME NEW n \in Names
               PROVE  /\ Pending(n)' = Pending(n) \ {e \in Into(n) : e.source \in stage}
                      /\ remaining'[n] = Cardinality(Pending(n)')
                      /\ remaining'[n] \in Nat
    OBVIOUS
  <2> DEFINE now == {e \in Into(n) : e.source \in stage}
  <2>1. Pending(n)' = Pending(n) \ now
    BY <1>3, GraphFrame DEF Pending
  <2>2. now \subseteq Pending(n) /\ Pending(n) \subseteq Into(n)
    BY <1>2 DEF Pending
  <2>3. IsFiniteSet(Pending(n))
    BY <1>0, <2>2, FiniteInto DEF TypeOK
  <2>4. Cardinality(Pending(n) \ now) = Cardinality(Pending(n)) - Cardinality(now)
    BY <2>2, <2>3, CardinalityOfRest
  <2>5. remaining'[n] = remaining[n] - Cardinality(now)
    BY <1>1 DEF Decreased
  <2>6. remaining[n] = Cardinality(Pending(n))
    BY <1>0 DEF Kahn
  <2>7. remaining'[n] = Cardinality(Pending(n)')
    BY <2>1, <2>4, <2>5, <2>6
  <2>8. Cardinality(Pending(n) \ now) \in Nat
    BY <1>0, <2>2, FiniteInto DEF TypeOK
  <2> QED
    BY <2>1, <2>7, <2>8
<1>5. Kahn'
  <2>1. \A n \in Names : remaining'[n] = 0 => Dependencies(n) \subseteq Processed'
    <3> SUFFICES ASSUME NEW n \in Names, remaining'[n] = 0
                 PROVE  Dependencies(n) \subseteq Processed'
      OBVIOUS
    <3>1. Pending(n) \ {e \in Into(n) : e.source \in stage} \subseteq Into(n)
      BY DEF Pending
    <3>2. Pending(n) \ {e \in Into(n) : e.source \in stage} = {}
      BY <1>0, <1>4, <3>1, FiniteInto DEF TypeOK
    <3> QED
      BY <1>3, <3>2 DEF Pending, Dependencies
  <2>2. \A n \in queue' : n \in Names /\ remaining'[n] = 0
    BY <1>1 DEF Ready
  <2> QED
    BY <1>0, <1>1, <1>4, <2>1, <2>2, GraphFrame DEF Kahn
<1>6. TypeOK'
  <2>1. queue' \subseteq Names
    BY <1>1 DEF Ready
  <2>2. remaining' \in [Names -> Nat]
    BY <1>1, <1>4 DEF Decreased
  <2>3. stages' \in Seq(SUBSET Nodes) /\ Len(stages') >= Len(stages)
    BY <1>1, <1>2
  <2> QED
    BY <1>0, <1>1, <2>1, <2>2, <2>3, GraphFrame DEF TypeOK
<1>7. Layered'
  <2>1. CASE stage = {}
    BY <1>0, <1>1, <2>1, GraphFrame DEF Layered
  <2>2. CASE stage # {}
    <3>1. /\ Len(stages') = Len(stages) + 1 /\ Len(stages) \in Nat
          /\ stages'[Len(stages) + 1] = stage
          /\ \A k \in 1..Len(stages) : stages'[k] = stages[k]
      BY <1>1, <1>2, <2>2
    <3>2. \A k \in 1..Len(stages) : stages[k] \cap stage = {}
      BY <1>2, ProcessedInStage
    <3>3. \A n \in stage : \A d \in Dependencies(n) : \E j \in 1..Len(stages) : d \in stages[j]
      BY <1>0, <1>1, <1>2, ProcessedInStage DEF Kahn, stage
    <3>4. \A k, l \in 1..Len(stages') : k # l => stages'[k] \cap stages'[l] = {}
      <4> SUFFICES ASSUME NEW k \in 1..Len(stages'), NEW l \in 1..Len(stages'), k # l
                   PROVE  stages'[k] \cap stages'[l] = {}
        OBVIOUS
      <4>1. (k \in 1..Len(stages) \/ k = Len(stages) + 1) /\ (l \in 1..Len(stages) \/ l = Len(stages) + 1)
        BY <3>1
      <4>2. CASE k \in 1..Len(stages) /\ l \in 1..Len(stages)
        BY <1>0, <3>1, <4>2 DEF Layered
      <4>3. CASE k = Len(stages) + 1 /\ l \in 1..Len(stages)
        BY <3>1, <3>2, <4>3
      <4>4. CASE k \in 1..Len(stages) /\ l = Len(stages) + 1
        BY <3>1, <3>2, <4>4
      <4> QED
        BY <4>1, <4>2, <4>3, <4>4
    <3>5. ASSUME NEW k \in 1..Len(stages'), NEW n \in stages'[k], NEW d \in Dependencies(n)
          PROVE  \E j \in 1..(k - 1) : d \in stages'[j]
      <4>1. CASE k \in 1..Len(stages)
        <5>1. n \in stages[k]
          BY <3>1, <4>1
        <5>2. PICK j \in 1..(k - 1) : d \in stages[j]
          BY <1>0, <4>1, <5>1 DEF Layered
        <5>3. j \in 1..Len(stages)
          BY <3>1, <4>1
        <5> QED
          BY <3>1, <5>2, <5>3
      <4>2. CASE k = Len(stages) + 1
        <5>1. PICK j \in 1..Len(stages) : d \in stages[j]
          BY <3>1, <3>3, <3>5, <4>2
        <5> QED
          BY <3>1, <4>2, <5>1
      <4> QED
        BY <3>1, <4>1, <4>2
    <3> QED
      BY <3>4, <3>5, GraphFrame DEF Layered
  <2> QED
    BY <2>1, <2>2
<1>8. Phase'
  BY <1>0, <1>1 DEF Phase
<1>9. Staged'
  BY <1>0, <1>1 DEF Phase, Staged
<1>10. InputsComplete'
  BY <1>0, <1>1 DEF Phase, InputsComplete, Ended
<1> QED
  BY <1>5, <1>6, <1>7, <1>8, <1>9, <1>10 DEF IInv

\* The search for the trigger keeps the invariant,
LEMMA FindTriggerPreserves ==
  ASSUME IInv, FindTrigger, UNCHANGED workflow
  PROVE  IInv'
<1>0. TypeOK /\ Kahn /\ Layered /\ Phase /\ Staged /\ InputsComplete
  BY DEF IInv
<1>1. /\ pc = "start" /\ UNCHANGED <<remaining, stages, current, npc, input, outputs>>
      /\ \/ pc' = "done" /\ err' = "plan" /\ queue' = queue
         \/ pc' = "plan" /\ err' = err /\ \E n \in Roots : queue' = {n}
  BY DEF FindTrigger, run
<1>2. TypeOK'
  BY <1>0, <1>1, GraphFrame DEF TypeOK, Roots, Names
<1>3. Kahn'
  <2>1. CASE pc' = "done"
    BY <1>0, <1>1, <2>1, PlanFrame
  <2>2. CASE pc' = "plan"
    <3>1. PICK n \in Roots : queue' = {n}
      BY <1>1, <2>2
    <3>2. n \in Nodes /\ n \in Names /\ Cardinality(Into(n)) = 0
      BY <3>1 DEF Roots, InDegree, Names
    <3>3. Dependencies(n) = {}
      BY <1>0, <3>2, FiniteInto DEF TypeOK, Dependencies
    <3>4. \A m \in Names : Pending(m)' = Pending(m)
      BY <1>1, PlanFrame, GraphFrame DEF Pending
    <3> QED
      BY <1>0, <1>1, <3>1, <3>2, <3>3, <3>4, GraphFrame DEF Kahn
  <2> QED
    BY <1>1, <2>1, <2>2
<1>4. Layered'
  BY <1>0, <1>1, PlanFrame
<1>5. Phase'
  BY <1>0, <1>1 DEF Phase
<1>6. Staged' /\ InputsComplete'
  BY <1>0, <1>1 DEF Phase, Staged, InputsComplete, Ended
<1> QED
  BY <1>2, <1>3, <1>4, <1>5, <1>6 DEF IInv

\* and so do the last step of planning,
LEMMA FinishPlanPreserves ==
  ASSUME IInv, FinishPlan, UNCHANGED workflow
  PROVE  IInv'
<1>0. TypeOK /\ Kahn /\ Layered /\ Phase /\ Staged /\ InputsComplete
  BY DEF IInv
<1>1. /\ pc = "plan" /\ UNCHANGED <<queue, remaining, stages, npc, input>>
      /\ \/ pc' = "done" /\ err' = "plan" /\ UNCHANGED <<current, outputs>>
         \/ /\ Processed = Nodes
            /\ pc' = "launch" /\ err' = err /\ current' = 1 /\ outputs' \in {{}, stages[1]}
  BY DEF FinishPlan, plan
<1>2. Processed = Nodes => 1 <= Len(stages) /\ stages[1] \subseteq Nodes
  <2> SUFFICES ASSUME Processed = Nodes PROVE 1 <= Len(stages) /\ stages[1] \subseteq Nodes
    OBVIOUS
  <2>1. PICK n : n \in Processed
    BY <1>0, <1>1 DEF Kahn
  <2> QED
    BY <1>0, <2>1, ProcessedInStage DEF TypeOK
<1>3. \A n \in Nodes : npc[n] = "no"
  BY <1>0, <1>1 DEF Phase
<1>4. TypeOK'
  BY <1>0, <1>1, <1>2, GraphFrame DEF TypeOK
<1>5. Kahn' /\ Layered' /\ Processed' = Processed
  BY <1>0, <1>1, PlanFrame
<1>6. Phase'
  BY <1>0, <1>1, <1>5 DEF Phase
<1>7. Staged' /\ InputsComplete'
  BY <1>0, <1>1, <1>3 DEF Phase, Staged, InputsComplete, Ended
<1> QED
  BY <1>4, <1>5, <1>6, <1>7 DEF IInv

----------------------------------------------------------------------------
(* The stages *)

\* A node of the current stage is in no earlier one.
LEMMA CurrentStageIsNew ==
  ASSUME Layered, current \in 1..Len(stages), NEW n \in Stage,
         NEW k \in 1..Len(stages), k < current, n \in stages[k]
  PROVE  FALSE
<1>1. k # current /\ stages[k] \cap stages[current] = {}
  BY DEF Layered
<1> QED
  BY <1>1 DEF Stage

\* The dependencies of a node that was launched are in earlier stages.
LEMMA DependenciesEarlier ==
  ASSUME TypeOK, Layered, Staged, NEW n \in Nodes, npc[n] # "no", NEW d \in Dependencies(n)
  PROVE  \E j \in 1..Len(stages) : j < current /\ d \in stages[j]
<1>1. PICK k \in 1..Len(stages) : k <= current /\ n \in stages[k]
  BY DEF Staged
<1>2. PICK j \in 1..(k - 1) : d \in stages[j]
  BY <1>1 DEF Layered
<1> QED
  BY <1>1, <1>2 DEF TypeOK

\* A step of one node of the current stage: BeginNode, UnknownNode, EndNode.
LEMMA NodeStepPreserves ==
  ASSUME IInv, NEW n \in Nodes, BeginNode(n) \/ UnknownNode(n) \/ EndNode(n), UNCHANGED workflow
  PROVE  IInv'
<1>0. TypeOK /\ Kahn /\ Layered /\ Phase /\ Staged /\ InputsComplete
  BY DEF IInv
<1>1. UNCHANGED <<pc, queue, remaining, stages, current, outputs, err>>
  BY DEF BeginNode, UnknownNode, EndNode, plan
<1>2. /\ npc[n] \in {"launched", "running"}
      /\ npc'[n] \in {"running", "ok", "failed"}
      /\ npc'[n] = "running" => npc[n] = "launched"
      /\ \A m \in Nodes \ {n} : npc'[m] = npc[m] /\ input'[m] = input[m]
      /\ npc' \in [Nodes -> {"no", "launched", "running", "ok", "failed"}]
  BY <1>0 DEF BeginNode, UnknownNode, EndNode, TypeOK
<1>3. /\ npc'[n] = "running" => input'[n] = Dependencies(n) \cap outputs
      /\ npc'[n] # "running" /\ n \in Known => npc[n] = "running" /\ input'[n] = input[n]
      /\ input' \in [Nodes -> SUBSET Names]
  <2>1. Dependencies(n) \subseteq Names
    BY DEF Dependencies, Into, Names
  <2> QED
    BY <1>0, <2>1 DEF BeginNode, UnknownNode, EndNode, TypeOK
<1>4. pc = "wait" /\ current \in 1..Len(stages) /\ n \in Stage
  BY <1>0, <1>2 DEF Staged, Phase, TypeOK
<1>5. TypeOK'
  BY <1>0, <1>1, <1>2, <1>3, GraphFrame DEF TypeOK
<1>6. Kahn' /\ Layered' /\ Processed' = Processed
  BY <1>0, <1>1, <1>4, PlanFrame
<1>7. Phase'
  BY <1>0, <1>1, <1>4, <1>6 DEF Phase
<1>8. ASSUME NEW k \in 1..Len(stages), k < current, NEW m \in stages[k]
      PROVE  m \in Nodes /\ m # n /\ npc'[m] = npc[m]
  <2>1. m \in Nodes
    BY <1>0 DEF TypeOK
  <2>2. m # n
    BY <1>0, <1>4, <1>8, CurrentStageIsNew
  <2> QED
    BY <1>2, <2>1, <2>2
<1>9. Staged'
  <2>1. \A k \in 1..Len(stages) : k < current => \A m \in stages[k] :
          /\ Ended(m)' /\ (npc'[m] = "ok" => m \in outputs)
          /\ workflow.stopOnError => npc'[m] # "failed"
    BY <1>0, <1>8 DEF Staged, Ended
  <2>2. \A m \in Nodes : npc'[m] \in {"launched", "running"} => pc = "wait" /\ m \in Stage
    BY <1>0, <1>2, <1>4 DEF Staged
  <2>3. \A m \in Nodes : npc'[m] # "no" => \E k \in 1..Len(stages) : k <= current /\ m \in stages[k]
    BY <1>0, <1>2 DEF Staged
  <2> QED
    BY <1>1, <2>1, <2>2, <2>3 DEF Staged, Stage
<1>10. InputsComplete'
  <2> SUFFICES ASSUME NEW m \in Nodes, npc'[m] = "running" \/ (Ended(m)' /\ m \in Known),
                      NEW d \in Dependencies(m)
               PROVE  Ended(d)' /\ (npc'[d] = "ok" => d \in input'[m])
    BY GraphFrame DEF InputsComplete
  <2>1. npc[m] # "no"
    BY <1>2 DEF Ended
  <2>2. PICK j \in 1..Len(stages) : j < current /\ d \in stages[j]
    BY <1>0, <2>1, DependenciesEarlier
  <2>3. d \in Nodes /\ npc'[d] = npc[d] /\ Ended(d) /\ (npc[d] = "ok" => d \in outputs)
    BY <1>0, <1>8, <2>2 DEF Staged
  <2>4. CASE npc'[m] = "running" /\ m = n
    BY <1>3, <2>3, <2>4 DEF Ended
  <2>5. CASE m = n /\ npc'[m] # "running"
    BY <1>0, <1>3, <2>3, <2>5 DEF Ended, InputsComplete
  <2>6. CASE m # n
    BY <1>0, <1>2, <2>3, <2>6 DEF Ended, InputsComplete
  <2> QED
    BY <2>4, <2>5, <2>6
<1> QED
  BY <1>5, <1>6, <1>7, <1>9, <1>10 DEF IInv

\* the launch of a stage,
LEMMA LaunchStagePreserves ==
  ASSUME IInv, LaunchStage, UNCHANGED workflow
  PROVE  IInv'
<1>0. TypeOK /\ Kahn /\ Layered /\ Phase /\ Staged /\ InputsComplete
  BY DEF IInv
<1>1. /\ pc = "launch" /\ pc' = "wait" /\ current <= Len(stages)
      /\ npc' = [n \in Nodes |-> IF n \in Stage THEN "launched" ELSE npc[n]]
      /\ UNCHANGED <<queue, remaining, stages, current, input, outputs, err>>
  BY DEF LaunchStage, plan
<1>2. current \in 1..Len(stages) /\ err = "none"
  BY <1>0, <1>1 DEF Phase, TypeOK
<1>3. TypeOK'
  BY <1>0, <1>1, GraphFrame DEF TypeOK
<1>4. Kahn' /\ Layered' /\ Processed' = Processed
  BY <1>0, <1>1, PlanFrame
<1>5. Phase'
  BY <1>0, <1>1, <1>2, <1>4 DEF Phase
<1>6. ASSUME NEW k \in 1..Len(stages), k < current, NEW m \in stages[k]
      PROVE  m \in Nodes /\ npc'[m] = npc[m]
  <2>1. m \in Nodes
    BY <1>0 DEF TypeOK
  <2>2. m \notin Stage
    BY <1>0, <1>2, <1>6, CurrentStageIsNew
  <2> QED
    BY <1>1, <2>1, <2>2
<1>7. Staged'
  <2>1. \A k \in 1..Len(stages) : k < current => \A m \in stages[k] :
          /\ Ended(m)' /\ (npc'[m] = "ok" => m \in outputs)
          /\ workflow.stopOnError => npc'[m] # "failed"
    BY <1>0, <1>6 DEF Staged, Ended
  <2>2. \A m \in Nodes : npc'[m] \in {"launched", "running"} => m \in Stage
    BY <1>0, <1>1 DEF Staged
  <2>3. \A m \in Nodes : npc'[m] # "no" => \E k \in 1..Len(stages) : k <= current /\ m \in stages[k]
    <3> SUFFICES ASSUME NEW m \in Nodes, npc'[m] # "no"
                 PROVE  \E k \in 1..Len(stages) : k <= current /\ m \in stages[k]
      OBVIOUS
    <3>1. CASE m \in Stage
      BY <1>2, <3>1 DEF Stage
    <3>2. CASE m \notin Stage
      BY <1>0, <1>1, <3>2 DEF Staged
    <3> QED
      BY <3>1, <3>2
  <2> QED
    BY <1>1, <2>1, <2>2, <2>3 DEF Staged, Stage
<1>8. InputsComplete'
  <2> SUFFICES ASSUME NEW m \in Nodes, npc'[m] = "running" \/ (Ended(m)' /\ m \in Known),
                      NEW d \in Dependencies(m)
               PROVE  Ended(d)' /\ (npc'[d] = "ok" => d \in input'[m])
    BY GraphFrame DEF InputsComplete
  <2>1. npc'[m] = npc[m] /\ npc[m] # "no"
    BY <1>1 DEF Ended
  <2>2. PICK j \in 1..Len(stages) : j < current /\ d \in stages[j]
    BY <1>0, <2>1, DependenciesEarlier
  <2>3. npc'[d] = npc[d]
    BY <1>6, <2>2
  <2> QED
    BY <1>0, <1>1, <2>1, <2>3 DEF Ended, InputsComplete
<1> QED
  BY <1>3, <1>4, <1>5, <1>7, <1>8 DEF IInv

\* the collection of its results,
LEMMA CollectStagePreserves ==
  ASSUME IInv, CollectStage, UNCHANGED workflow
  PROVE  IInv'
<1>0. TypeOK /\ Kahn /\ Layered /\ Phase /\ Staged /\ InputsComplete
  BY DEF IInv
<1>1. /\ pc = "wait" /\ \A n \in Stage : Ended(n)
      /\ outputs' = outputs \cup {n \in Stage : npc[n] = "ok"}
      /\ UNCHANGED <<queue, remaining, stages, npc, input>>
      /\ \/ Aborts /\ pc' = "done" /\ err' = "node" /\ current' = current
         \/ ~Aborts /\ pc' = "launch" /\ err' = err /\ current' = current + 1
  BY DEF CollectStage, Joined, NextStage, plan
<1>2. current \in 1..Len(stages) /\ err = "none" /\ Stage \subseteq Nodes /\ Len(stages) \in Nat
  BY <1>0, <1>1 DEF Phase, TypeOK, Stage
<1>3. TypeOK'
  BY <1>0, <1>1, <1>2, GraphFrame DEF TypeOK
<1>4. Kahn' /\ Layered' /\ Processed' = Processed
  BY <1>0, <1>1, PlanFrame
<1>5. Phase'
  <2>1. CASE Aborts /\ pc' = "done" /\ err' = "node" /\ current' = current
    <3>1. Stage' = Stage /\ \A n : Ended(n)' = Ended(n)
      BY <1>1, <2>1 DEF Stage, Ended
    <3>2. workflow.stopOnError /\ \E n \in Stage : npc[n] = "failed"
      BY <2>1 DEF Aborts
    <3> QED
      BY <1>0, <1>1, <1>2, <1>4, <2>1, <3>1, <3>2 DEF Phase
  <2>2. CASE pc' = "launch" /\ err' = err /\ current' = current + 1
    BY <1>0, <1>1, <1>2, <1>4, <2>2 DEF Phase
  <2> QED
    BY <1>1, <2>1, <2>2
<1>6. Staged'
  <2>1. \A m \in Nodes : npc[m] \notin {"launched", "running"}
    BY <1>0, <1>1 DEF Staged, Ended
  <2>2. \A m \in Nodes : npc[m] # "no" => \E k \in 1..Len(stages) : k <= current' /\ m \in stages[k]
    <3>1. current <= current'
      BY <1>1, <1>2
    <3> QED
      BY <1>0, <1>1, <1>2, <3>1 DEF Staged
  <2>3. ASSUME NEW k \in 1..Len(stages), k < current', NEW m \in stages[k]
        PROVE  /\ Ended(m) /\ (npc[m] = "ok" => m \in outputs')
               /\ workflow.stopOnError => npc[m] # "failed"
    <3>1. CASE k < current
      BY <1>0, <1>1, <3>1 DEF Staged
    <3>2. CASE k = current /\ ~Aborts
      BY <1>1, <3>2 DEF Stage, Aborts
    <3> QED
      BY <1>1, <1>2, <2>3, <3>1, <3>2
  <2>4. \A m : Ended(m)' = Ended(m)
    BY <1>1 DEF Ended
  <2> QED
    BY <1>1, <2>1, <2>2, <2>3, <2>4 DEF Staged
<1>7. InputsComplete'
  BY <1>0, <1>1, GraphFrame DEF InputsComplete, Ended
<1> QED
  BY <1>3, <1>4, <1>5, <1>6, <1>7 DEF IInv

\* and the end of the run.
LEMMA CompletePreserves ==
  ASSUME IInv, Complete, UNCHANGED workflow
  PROVE  IInv'
<1>0. TypeOK /\ Kahn /\ Layered /\ Phase /\ Staged /\ InputsComplete
  BY DEF IInv
<1>1. /\ pc = "launch" /\ pc' = "done" /\ current > Len(stages)
      /\ UNCHANGED <<queue, remaining, stages, current, npc, input, outputs, err>>
  BY DEF Complete, plan, run
<1>2. TypeOK' /\ Kahn' /\ Layered' /\ Processed' = Processed
  BY <1>0, <1>1, GraphFrame, PlanFrame DEF TypeOK
<1>3. Phase'
  BY <1>0, <1>1, <1>2 DEF Phase
<1>4. Staged' /\ InputsComplete'
  BY <1>0, <1>1, GraphFrame DEF Staged, InputsComplete, Ended, Stage
<1> QED
  BY <1>2, <1>3, <1>4 DEF IInv

\* Every step of the executor keeps the invariant.
LEMMA StepPreserves == IInv /\ [Next]_vars => IInv'
<1> SUFFICES ASSUME IInv, [Next]_vars PROVE IInv'
  OBVIOUS
<1>1. CASE UNCHANGED vars
  <2>1. UNCHANGED <<workflow, pc, queue, remaining, stages, current, npc, input, outputs, err>>
    BY <1>1 DEF vars, plan, run
  <2>2. TypeOK' = TypeOK
    BY <2>1, GraphFrame DEF TypeOK
  <2>3. Processed' = Processed /\ (Layered => Layered')
    BY <2>1, PlanFrame
  <2>4. \A n : Pending(n)' = Pending(n)
    BY <2>1, <2>3, GraphFrame DEF Pending
  <2>5. Kahn => Kahn'
    BY <2>1, <2>3, <2>4, GraphFrame DEF Kahn
  <2>6. Stage' = Stage /\ \A n : Ended(n)' = Ended(n)
    BY <2>1 DEF Stage, Ended
  <2>7. (Phase => Phase') /\ (Staged => Staged')
    BY <2>1, <2>3, <2>6 DEF Phase, Staged
  <2>8. InputsComplete => InputsComplete'
    BY <2>1, <2>6, GraphFrame DEF InputsComplete
  <2> QED
    BY <2>2, <2>3, <2>5, <2>7, <2>8 DEF IInv
<1>2. CASE Next
  <2>1. UNCHANGED workflow
    BY <1>2 DEF Next
  <2>2. \/ FindTrigger \/ PlanStage \/ FinishPlan \/ LaunchStage \/ CollectStage \/ Complete
        \/ \E n \in Nodes : BeginNode(n) \/ UnknownNode(n) \/ EndNode(n)
    BY <1>2 DEF Next
  <2> QED
    BY <2>1, <2>2, FindTriggerPreserves, PlanStagePreserves, FinishPlanPreserves,
       LaunchStagePreserves, CollectStagePreserves, CompletePreserves, NodeStepPreserves
<1> QED
  BY <1>1, <1>2

----------------------------------------------------------------------------

\* In its only stage a node is found by StageOf.
LEMMA StageOfNode ==
  ASSUME TypeOK, Layered, NEW k \in 1..Len(stages), NEW n \in stages[k]
  PROVE  StageOf(n) = k
<1>1. \A j \in 1..Len(stages) : n \in stages[j] => j = k
  BY DEF Layered
<1>2. StageOf(n) \in 1..Len(stages) /\ n \in stages[StageOf(n)]
  BY DEF StageOf
<1> QED
  BY <1>1, <1>2

\* The invariant explains the errors that are returned.
LEMMA ErrorsFollow == IInv => ErrorsEndTheRun
<1> SUFFICES ASSUME IInv, pc = "done", err # "plan"
             PROVE  /\ (err = "node") = (workflow.stopOnError /\ \E n \in Nodes : npc[n] = "failed")
                    /\ \A n \in Nodes : Ended(n) <=> (err = "none" \/ StageOf(n) <= current)
  BY DEF ErrorsEndTheRun
<1>0. TypeOK /\ Layered /\ Phase /\ Staged /\ stages \in Seq(SUBSET Nodes) /\ Processed = Nodes
  BY DEF IInv, Phase, TypeOK
<1>1. \A n \in Nodes : \E k \in 1..Len(stages) : n \in stages[k] /\ StageOf(n) = k
  BY <1>0, ProcessedInStage, StageOfNode
<1>2. CASE err = "none"
  <2>1. \A k \in 1..Len(stages) : k < current
    BY <1>0, <1>2 DEF Phase, TypeOK
  <2>2. \A n \in Nodes : Ended(n) /\ (workflow.stopOnError => npc[n] # "failed")
    BY <1>0, <1>1, <2>1 DEF Staged
  <2> QED
    BY <1>2, <2>2
<1>3. CASE err = "node"
  <2>1. current \in 1..Len(stages)
    BY <1>0, <1>3 DEF Phase, TypeOK
  <2>2. workflow.stopOnError /\ \E n \in Nodes : npc[n] = "failed"
    BY <1>0, <1>3, <2>1 DEF Phase, Stage
  <2>3. ASSUME NEW n \in Nodes PROVE Ended(n) <=> StageOf(n) <= current
    <3>1. PICK k \in 1..Len(stages) : n \in stages[k] /\ StageOf(n) = k
      BY <1>1
    <3>2. ASSUME k <= current PROVE Ended(n)
      <4>1. CASE k < current
        BY <1>0, <3>1, <4>1 DEF Staged
      <4>2. CASE k = current
        BY <1>0, <1>3, <3>1, <4>2 DEF Phase, Stage
      <4> QED
        BY <2>1, <3>2, <4>1, <4>2
    <3>3. ASSUME Ended(n) PROVE k <= current
      <4>1. npc[n] # "no"
        BY <3>3 DEF Ended
      <4>2. PICK j \in 1..Len(stages) : j <= current /\ n \in stages[j]
        BY <1>0, <4>1 DEF Staged
      <4> QED
        BY <1>0, <3>1, <4>2, StageOfNode
    <3> QED
      BY <3>1, <3>2, <3>3
  <2> QED
    BY <1>3, <2>2, <2>3
<1> QED
  BY <1>0, <1>2, <1>3 DEF TypeOK

----------------------------------------------------------------------------
(* The plan and the graph.  IInv orders the stages; that each node is in   *)
(* the earliest stage it can be in, and that no node is missed, takes the  *)
(* trace below: why a node became a candidate, and that none is forgotten. *)

\* What planning has done since it chose the trigger t.
TracedFrom(t) ==
  /\ t \in queue \cup Processed
  /\ \A n \in Nodes : InDegree[n] > 0 /\ remaining[n] = 0 => n \in queue \cup Processed
  /\ \A n \in queue :
       \/ n = t /\ stages = << >>
       \/ stages # << >> /\ Dependencies(n) \cap stages[Len(stages)] # {}
  /\ \A k \in 1..Len(stages) : \A n \in stages[k] :
       \/ n = t /\ k = 1
       \/ k > 1 /\ Dependencies(n) \cap stages[k - 1] # {}

\* A plan was refused with reason, or is traced from one of the triggers.
Traced ==
  /\ err = "plan" => ~Plannable
  /\ pc \in {"plan", "launch", "wait"} => \E t \in Roots \cap Triggers : TracedFrom(t)

\* A step that leaves the workflow leaves what the graph is.
LEMMA RootsFrame ==
  ASSUME UNCHANGED workflow
  PROVE  InDegree' = InDegree /\ Roots' = Roots /\ Plannable' = Plannable
<1>1. Names' = Names /\ \A n : Into(n)' = Into(n) /\ Dependencies(n)' = Dependencies(n)
  BY GraphFrame
<1>2. InDegree' = InDegree
  BY <1>1 DEF InDegree
<1>3. Roots' = Roots
  BY <1>2 DEF Roots
<1>4. Acyclic' = Acyclic
  BY <1>1 DEF Acyclic
<1> QED
  BY <1>1, <1>2, <1>3, <1>4 DEF Plannable

\* A step that leaves the plan as well leaves its trace.
LEMMA TraceFrame ==
  ASSUME UNCHANGED <<workflow, queue, remaining, stages>>, NEW t, TracedFrom(t)
  PROVE  TracedFrom(t)'
<1>1. Processed' = Processed /\ InDegree' = InDegree
  BY RootsFrame DEF Processed, ToSet
<1> QED
  BY <1>1, GraphFrame DEF TracedFrom

\* A node without input, and only that, has no dependencies.
LEMMA RootsHaveNone ==
  ASSUME workflow \in Workflows, NEW n \in Nodes
  PROVE  /\ n \in Roots <=> Dependencies(n) = {}
         /\ n \in Names /\ InDegree[n] = Cardinality(Into(n)) /\ InDegree[n] \in Nat
<1>1. n \in Names
  BY DEF Names
<1>2. InDegree[n] = Cardinality(Into(n))
  BY <1>1 DEF InDegree
<1>3. Cardinality(Into(n)) \in Nat /\ (Cardinality(Into(n)) = 0 <=> Into(n) = {})
  BY FiniteInto
<1>4. Dependencies(n) = {} <=> Into(n) = {}
  BY DEF Dependencies
<1> QED
  BY <1>1, <1>2, <1>3, <1>4 DEF Roots

\* The search for the trigger begins the trace, or refuses for a reason.
LEMMA FindTriggerTraces ==
  ASSUME IInv, Traced, FindTrigger, UNCHANGED workflow
  PROVE  Traced'
<1>0. TypeOK /\ Kahn /\ Phase /\ workflow \in Workflows
  BY DEF IInv, TypeOK
<1>1. CASE Roots \cap Triggers = {} /\ pc' = "done" /\ err' = "plan"
  <2>1. ~Plannable
    BY <1>1 DEF Plannable
  <2> QED
    BY <1>1, <2>1, RootsFrame DEF Traced
<1>2. CASE /\ pc = "start" /\ pc' = "plan" /\ err' = err /\ UNCHANGED <<remaining, stages>>
           /\ \E n \in Roots \cap Triggers : queue' = {n}
  <2>1. PICK t \in Roots \cap Triggers : queue' = {t}
    BY <1>2
  <2>2. stages = << >> /\ stages' = << >> /\ err' # "plan"
    BY <1>0, <1>2 DEF Phase
  <2>3. Processed = {}
    BY <2>2 DEF Processed, ToSet
  <2>4. ASSUME NEW n \in Nodes, InDegree[n] > 0, remaining[n] = 0 PROVE FALSE
    <3>1. Pending(n) = Into(n)
      BY <2>3 DEF Pending
    <3> QED
      BY <1>0, <2>4, <3>1, RootsHaveNone DEF Kahn
  <2>5. TracedFrom(t)'
    <3>1. Len(stages') = 0
      BY <2>2
    <3> QED
      BY <1>2, <2>1, <2>2, <2>4, <3>1, RootsFrame DEF TracedFrom
  <2> QED
    BY <2>1, <2>2, <2>5, RootsFrame DEF Traced
<1> QED
  BY <1>1, <1>2 DEF FindTrigger

\* A round of the loop adds one stage, which the last one led to, and
\* forgets no node whose last input was counted.
LEMMA PlanStageTraces ==
  ASSUME IInv, Traced, PlanStage, UNCHANGED workflow
  PROVE  Traced'
<1> DEFINE stage == (queue \cap Nodes) \ Processed
<1>0. TypeOK /\ Kahn /\ Phase /\ workflow \in Workflows
  BY DEF IInv, TypeOK
<1>1. /\ pc = "plan" /\ pc' = "plan" /\ err = "none" /\ err' = "none"
      /\ stages' = IF stage = {} THEN stages ELSE Append(stages, stage)
      /\ remaining' = Decreased(stage) /\ queue' = Ready(stage)
  BY <1>0 DEF PlanStage, Phase
<1>2. stages \in Seq(SUBSET Nodes) /\ Len(stages) \in Nat /\ stage \subseteq Nodes
  BY <1>0 DEF TypeOK
<1>3. PICK t \in Roots \cap Triggers : TracedFrom(t)
  BY <1>1 DEF Traced
<1>4. queue \cap Nodes \subseteq stage \cup Processed /\ stage \subseteq queue
  OBVIOUS
<1> HIDE DEF stage
<1>5. stage # {} => /\ stages' \in Seq(SUBSET Nodes) /\ Len(stages') = Len(stages) + 1
                    /\ stages'[Len(stages) + 1] = stage /\ stages' # << >>
                    /\ \A k \in 1..Len(stages) : stages'[k] = stages[k]
  BY <1>1, <1>2
<1>6. Processed \cup stage \subseteq Processed'
  <2>1. CASE stage = {}
    BY <1>1, <2>1 DEF Processed, ToSet
  <2>2. CASE stage # {}
    <3>1. stages' \in Seq(SUBSET Nodes) /\ \A k \in 1..Len(stages) : k \in 1..Len(stages')
      BY <1>2, <1>5, <2>2
    <3>2. Len(stages) + 1 \in 1..Len(stages')
      BY <1>2, <1>5, <2>2
    <3>3. \A n : (\E k \in 1..Len(stages') : n \in stages'[k]) => n \in Processed'
      BY <3>1 DEF Processed, ToSet
    <3>4. \A n \in Processed : n \in Processed'
      BY <1>2, <1>5, <2>2, <3>1, <3>3, ProcessedInStage
    <3> QED
      BY <1>5, <2>2, <3>2, <3>3, <3>4
  <2> QED
    BY <2>1, <2>2
<1>7. t \in queue' \cup Processed'
  <2>1. t \in Nodes /\ t \in queue \cup Processed
    BY <1>3 DEF TracedFrom, Roots
  <2> QED
    BY <1>4, <1>6, <2>1
<1>8. ASSUME NEW n \in Nodes, InDegree[n] > 0, remaining'[n] = 0
      PROVE  n \in queue' \cup Processed'
  <2>1. n \in Names /\ remaining[n] \in Nat /\ Decreased(stage)[n] = 0
    BY <1>0, <1>1, <1>8, RootsHaveNone DEF TypeOK
  <2>2. CASE remaining[n] = 0
    BY <1>3, <1>4, <1>6, <1>8, <2>2 DEF TracedFrom
  <2>3. CASE remaining[n] > 0
    BY <1>1, <2>1, <2>3 DEF Ready
  <2> QED
    BY <2>1, <2>2, <2>3
<1>9. ASSUME NEW n \in queue'
      PROVE  stages' # << >> /\ Dependencies(n) \cap stages'[Len(stages')] # {}
  <2> DEFINE now == {e \in Into(n) : e.source \in stage}
  <2>1. n \in Names /\ remaining[n] > 0 /\ remaining[n] \in Nat /\ remaining[n] - Cardinality(now) = 0
    BY <1>0, <1>1 DEF Ready, Decreased, TypeOK
  <2>2. Cardinality(now) \in Nat /\ (Cardinality(now) = 0 <=> now = {})
    BY <1>0, FiniteInto
  <2>3. now # {}
    BY <2>1, <2>2
  <2>4. Dependencies(n) \cap stage # {}
    BY <2>3 DEF Dependencies
  <2> QED
    BY <1>5, <2>4
<1>10. ASSUME NEW k \in 1..Len(stages'), NEW n \in stages'[k]
       PROVE  \/ n = t /\ k = 1
              \/ k > 1 /\ Dependencies(n) \cap stages'[k - 1] # {}
  <2>1. CASE stage = {} \/ k \in 1..Len(stages)
    <3>1. k \in 1..Len(stages) /\ n \in stages[k] /\ \A j \in 1..Len(stages) : stages'[j] = stages[j]
      BY <1>1, <1>5, <2>1
    <3>2. \/ n = t /\ k = 1
          \/ k > 1 /\ Dependencies(n) \cap stages[k - 1] # {}
      BY <1>3, <3>1 DEF TracedFrom
    <3>3. k > 1 => k - 1 \in 1..Len(stages)
      BY <1>2, <3>1
    <3> QED
      BY <3>1, <3>2, <3>3
  <2>2. CASE stage # {} /\ k = Len(stages) + 1
    <3>1. n \in queue
      BY <1>4, <1>5, <2>2
    <3>2. CASE n = t /\ stages = << >>
      BY <2>2, <3>2
    <3>3. CASE stages # << >> /\ Dependencies(n) \cap stages[Len(stages)] # {}
      <4>1. Len(stages) \in 1..Len(stages) /\ k - 1 = Len(stages) /\ k > 1
        BY <1>2, <2>2, <3>3
      <4> QED
        BY <1>5, <2>2, <3>3, <4>1
    <3> QED
      BY <1>3, <3>1, <3>2, <3>3 DEF TracedFrom
  <2> QED
    BY <1>2, <1>5, <2>1, <2>2
<1>11. TracedFrom(t)'
  BY <1>7, <1>8, <1>9, <1>10, GraphFrame, RootsFrame DEF TracedFrom
<1> QED
  BY <1>1, <1>3, <1>11, RootsFrame DEF Traced

\* What planning leaves out is on a cycle or not reached from the only root.
LEMMA LeftOutMeansUnplannable ==
  ASSUME IInv, NEW t \in Roots \cap Triggers, TracedFrom(t), queue = {}, Processed # Nodes
  PROVE  ~Plannable
<1> SUFFICES ASSUME Plannable PROVE FALSE
  OBVIOUS
<1>0. TypeOK /\ Kahn /\ workflow \in Workflows /\ stages \in Seq(SUBSET Nodes)
  BY DEF IInv, TypeOK
<1>1. Processed \subseteq Nodes
  BY <1>0, ProcessedInStage
<1> DEFINE S == Nodes \ Processed
<1>2. S \in (SUBSET Nodes) \ {{}}
  BY <1>1
<1>3. PICK n \in S : Dependencies(n) \cap S = {}
  BY <1>2 DEF Plannable, Acyclic
<1>4. n \in Nodes /\ n \notin Processed /\ Dependencies(n) \subseteq Processed
  BY <1>3 DEF Plannable
<1>5. Pending(n) = {} /\ Pending(n) \subseteq Into(n)
  BY <1>4 DEF Pending, Dependencies
<1>6. n \in Names /\ remaining[n] = 0
  BY <1>0, <1>4, <1>5, RootsHaveNone, FiniteInto DEF Kahn
<1>7. n \notin Roots
  BY <1>4 DEF Plannable, TracedFrom
<1>8. InDegree[n] > 0
  BY <1>0, <1>4, <1>7, RootsHaveNone DEF Roots
<1> QED
  BY <1>4, <1>6, <1>8 DEF TracedFrom

\* The end of planning refuses only what it could not plan.
LEMMA FinishPlanTraces ==
  ASSUME IInv, Traced, FinishPlan, UNCHANGED workflow
  PROVE  Traced'
<1>0. Phase
  BY DEF IInv
<1>1. pc = "plan" /\ queue = {} /\ err = "none" /\ UNCHANGED <<queue, remaining, stages>>
  BY <1>0 DEF FinishPlan, Phase, plan
<1>2. PICK t \in Roots \cap Triggers : TracedFrom(t)
  BY <1>1 DEF Traced
<1>3. CASE Processed # Nodes /\ pc' = "done"
  BY <1>1, <1>2, <1>3, LeftOutMeansUnplannable, RootsFrame DEF Traced
<1>4. CASE pc' = "launch" /\ err' = err
  BY <1>1, <1>2, <1>4, TraceFrame, RootsFrame DEF Traced
<1> QED
  BY <1>3, <1>4 DEF FinishPlan

\* Every step of the executor keeps the trace.
LEMMA StepTraces == IInv /\ Traced /\ [Next]_vars => Traced'
<1> SUFFICES ASSUME IInv, Traced, [Next]_vars PROVE Traced'
  OBVIOUS
<1>1. ASSUME UNCHANGED <<workflow, queue, remaining, stages>>,
             err' = "plan" => err = "plan",
             pc' \in {"plan", "launch", "wait"} => pc \in {"plan", "launch", "wait"}
      PROVE  Traced'
  BY <1>1, TraceFrame, RootsFrame DEF Traced
<1>2. CASE UNCHANGED vars
  BY <1>1, <1>2 DEF vars, plan
<1>3. CASE Next
  <2>1. UNCHANGED workflow
    BY <1>3 DEF Next
  <2>2. CASE FindTrigger
    BY <2>1, <2>2, FindTriggerTraces
  <2>3. CASE PlanStage
    BY <2>1, <2>3, PlanStageTraces
  <2>4. CASE FinishPlan
    BY <2>1, <2>4, FinishPlanTraces
  <2>5. CASE LaunchStage
    BY <1>1, <2>1, <2>5 DEF LaunchStage, plan
  <2>6. CASE CollectStage
    BY <1>1, <2>1, <2>6 DEF CollectStage, plan
  <2>7. CASE Complete
    BY <1>1, <2>1, <2>7 DEF Complete, plan
  <2>8. CASE \E n \in Nodes : BeginNode(n) \/ UnknownNode(n) \/ EndNode(n)
    BY <1>1, <2>1, <2>8 DEF BeginNode, UnknownNode, EndNode, plan
  <2> QED
    BY <1>3, <2>2, <2>3, <2>4, <2>5, <2>6, <2>7, <2>8 DEF Next
<1> QED
  BY <1>2, <1>3

\* Every set of naturals that is not empty has a least element.
LEMMA Least ==
  ASSUME NEW T, T \subseteq Nat, T # {}
  PROVE  \E m \in T : \A k \in T : m <= k
<1> DEFINE R == OpToRel(<, Nat)
<1>1. IsWellFoundedOn(R, Nat)
  BY NatLessThanWellFounded
<1>2. \A x, y \in Nat : <<x, y>> \in R <=> x < y
  BY DEF OpToRel
<1> HIDE DEF R
<1>3. PICK m \in T : \A y \in T : ~(<<y, m>> \in R)
  BY <1>1, WFMin
<1>4. ASSUME NEW k \in T PROVE m <= k
  <2>1. m \in Nat /\ k \in Nat
    OBVIOUS
  <2>2. ~(k < m)
    BY <1>2, <1>3, <2>1
  <2> QED
    BY <2>1, <2>2
<1> QED
  BY <1>4

\* A planned workflow is plannable: its stages order it, and one root began.
LEMMA PlannedIsPlannable ==
  ASSUME TypeOK, Layered, Processed = Nodes, NEW t \in Roots \cap Triggers, TracedFrom(t)
  PROVE  Plannable /\ Roots = {t}
<1>0. /\ workflow \in Workflows /\ stages \in Seq(SUBSET Nodes) /\ Len(stages) \in Nat
      /\ \A n \in Nodes : \E k \in 1..Len(stages) : n \in stages[k]
  BY ProcessedInStage DEF TypeOK
<1>1. ASSUME NEW n \in Nodes PROVE Dependencies(n) \subseteq Nodes
  <2>1. PICK k \in 1..Len(stages) : n \in stages[k]
    BY <1>0
  <2>2. \A d \in Dependencies(n) : \E j \in 1..(k - 1) : d \in stages[j]
    BY <2>1 DEF Layered
  <2>3. \A j \in 1..(k - 1) : stages[j] \subseteq Nodes
    BY <1>0, <2>1
  <2> QED
    BY <2>2, <2>3
<1>2. Acyclic
  <2> SUFFICES ASSUME NEW S \in (SUBSET Nodes) \ {{}} PROVE \E n \in S : Dependencies(n) \cap S = {}
    BY DEF Acyclic
  <2> DEFINE T == {k \in 1..Len(stages) : stages[k] \cap S # {}}
  <2>1. T \subseteq Nat /\ T # {}
    BY <1>0
  <2>2. PICK m \in T : \A k \in T : m <= k
    BY <2>1, Least
  <2>3. PICK n \in S : n \in stages[m]
    BY <2>2
  <2>4. m \in 1..Len(stages) /\ \A d \in Dependencies(n) : \E j \in 1..(m - 1) : d \in stages[j]
    BY <2>2, <2>3 DEF Layered
  <2>5. ASSUME NEW d \in Dependencies(n) \cap S PROVE FALSE
    <3>1. PICK j \in 1..(m - 1) : d \in stages[j]
      BY <2>4
    <3>2. j \in T /\ j < m /\ j \in Nat /\ m \in Nat
      BY <1>0, <2>4, <3>1
    <3> QED
      BY <2>2, <3>2
  <2> QED
    BY <2>3, <2>5
<1>3. ASSUME NEW n \in Roots PROVE n = t
  <2>1. n \in Nodes /\ Dependencies(n) = {}
    BY <1>0, RootsHaveNone DEF Roots
  <2>2. PICK k \in 1..Len(stages) : n \in stages[k]
    BY <1>0, <2>1
  <2> QED
    BY <2>1, <2>2 DEF TracedFrom
<1>4. Roots = {t}
  BY <1>3
<1> QED
  BY <1>1, <1>2, <1>4 DEF Plannable

\* A node stands right after the last of its dependencies.
LEMMA StageAfterLast ==
  ASSUME TypeOK, Layered, Processed = Nodes, NEW t \in Roots, TracedFrom(t), NEW n \in Nodes \ Roots
  PROVE  StageOf(n) = 1 + Max({StageOf(d) : d \in Dependencies(n)})
<1> DEFINE D == {StageOf(d) : d \in Dependencies(n)}
<1>1. stages \in Seq(SUBSET Nodes) /\ Len(stages) \in Nat
  BY DEF TypeOK
<1>2. PICK k \in 1..Len(stages) : n \in stages[k]
  BY <1>1, ProcessedInStage
<1>3. StageOf(n) = k
  BY <1>2, StageOfNode
<1>4. k > 1 /\ Dependencies(n) \cap stages[k - 1] # {}
  BY <1>2 DEF TracedFrom
<1>5. ASSUME NEW d \in Dependencies(n) PROVE StageOf(d) \in 1..(k - 1)
  <2>1. PICK j \in 1..(k - 1) : d \in stages[j]
    BY <1>2 DEF Layered
  <2>2. j \in 1..Len(stages)
    BY <1>1, <1>2
  <2> QED
    BY <2>1, <2>2, StageOfNode
<1>6. PICK d \in Dependencies(n) : d \in stages[k - 1]
  BY <1>4
<1>7. k - 1 \in 1..Len(stages) /\ k - 1 \in Nat /\ k \in Nat
  BY <1>1, <1>2, <1>4
<1>8. StageOf(d) = k - 1
  BY <1>6, <1>7, StageOfNode
<1>9. k - 1 \in D /\ \A x \in D : x \in Nat /\ k - 1 >= x
  BY <1>5, <1>7, <1>8
<1> HIDE DEF D
<1>10. Max(D) \in D /\ \A x \in D : Max(D) >= x
  BY <1>9 DEF Max
<1>11. Max(D) = k - 1
  BY <1>9, <1>10
<1> QED
  BY <1>3, <1>7, <1>11 DEF D

\* The two invariants say of every accepted and refused workflow what it is.
LEMMA TraceMatches == IInv /\ Traced => PlanMatchesGraph
<1> SUFFICES ASSUME IInv, Traced PROVE PlanMatchesGraph
  OBVIOUS
<1>0. TypeOK /\ Layered /\ Phase
  BY DEF IInv
<1>1. err = "plan" => ~Plannable
  BY DEF Traced
<1>2. ASSUME pc \in {"launch", "wait"}
      PROVE  /\ Plannable
             /\ \A k, l \in 1..Len(stages) : k # l => stages[k] \cap stages[l] = {}
             /\ \A n \in Nodes \ Roots :
                  StageOf(n) = 1 + Max({StageOf(d) : d \in Dependencies(n)})
  <2>1. PICK t \in Roots \cap Triggers : TracedFrom(t)
    BY <1>2 DEF Traced
  <2>2. Processed = Nodes
    BY <1>0, <1>2 DEF Phase
  <2> QED
    BY <1>0, <2>1, <2>2, PlannedIsPlannable, StageAfterLast DEF Layered
<1> QED
  BY <1>1, <1>2 DEF PlanMatchesGraph

----------------------------------------------------------------------------
(* The results *)

\* The variables of buildExecutionPlan and executePlan keep their types, for
\* every workflow: no counter falls below zero, no stage index leaves the plan.
THEOREM TypeCorrect == Spec => []TypeOK
<1>1. IInv => TypeOK
  BY DEF IInv
<1> QED
  BY <1>1, InitEstablishes, StepPreserves, PTL DEF Spec

\* No goroutine of executePlan reads nodeOutputs before the outputs of all
\* its node's dependencies are there, for every workflow.
THEOREM NodesGetTheirInputs == Spec => []InputsComplete
<1>1. IInv => InputsComplete
  BY DEF IInv
<1> QED
  BY <1>1, InitEstablishes, StepPreserves, PTL DEF Spec

\* ErrorHandling "stop" ends executePlan with the stage of the first failure;
\* any other setting executes every node, for every workflow.
THEOREM FailuresEndTheRun == Spec => []ErrorsEndTheRun
  BY InitEstablishes, StepPreserves, ErrorsFollow, PTL DEF Spec

\* buildExecutionPlan accepts a workflow exactly when it can be planned, and
\* puts every node in the earliest stage that its dependencies allow, for
\* every workflow, with cycles, several roots and missing nodes.
THEOREM PlanIsExact == Spec => []PlanMatchesGraph
<1>1. Init => Traced
  BY DEF Init, Traced
<1>2. IInv /\ Traced /\ [Next]_vars => IInv' /\ Traced'
  BY StepPreserves, StepTraces
<1> QED
  BY <1>1, <1>2, InitEstablishes, TraceMatches, PTL DEF Spec
=============================================================================
