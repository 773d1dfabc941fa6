----------------------------- MODULE PlanExecutor -----------------------------
(***************************************************************************)
(* AdvancedExecutor.ExecuteWorkflow of internal/engine/executor.go.        *)
(* buildExecutionPlan sorts the nodes into stages (Kahn's algorithm by     *)
(* levels, from one trigger); executePlan runs the stages one after the    *)
(* other and the nodes of a stage in goroutines of their own, which read   *)
(* the shared map nodeOutputs that is written between the stages.          *)
(*                                                                         *)
(* A successful node is taken to return data.  Configs, credentials, logs  *)
(* and the events emitted are left out.                                    *)
(***************************************************************************)
EXTENDS Integers, Sequences, FiniteSets, SequencesExt

CONSTANTS
  Nodes,
  Triggers,   \* nodes whose type's metadata says IsTrigger
  Known,      \* nodes whose type has an executor
  Workflows   \* connections (a set of records), ErrorHandling = "stop"

ASSUME NodesAssumption == Triggers \cup Known \subseteq Nodes
ASSUME WorkflowsAssumption == \A w \in Workflows : w.stopOnError \in BOOLEAN /\ IsFiniteSet(w.conns)

VARIABLES
  workflow,   \* the definition that is executed
  pc,         \* where ExecuteWorkflow is
  queue,      \* the candidates of the next stage
  remaining,  \* [node name -> connections into it from unprocessed nodes]
  stages,     \* plan.Stages
  current,    \* the stage that is executed
  npc,        \* [Nodes -> where the node's goroutine is]
  input,      \* [Nodes -> the dependencies whose output the node was given]
  outputs,    \* keys of nodeOutputs
  err         \* "none", or which part returned an error

plan == <<queue, remaining, stages>>
run  == <<current, npc, input, outputs>>
vars == <<workflow, pc, plan, run, err>>

Conns == workflow.conns
Names == Nodes \cup {e.source : e \in Conns} \cup {e.target : e \in Conns}
Into(n) == {e \in Conns : e.target = n}
Dependencies(n) == {e.source : e \in Into(n)}
InDegree == [n \in Names |-> Cardinality(Into(n))]
Processed == UNION ToSet(stages)

TypeOK ==
  /\ workflow \in Workflows
  /\ pc \in {"start", "plan", "launch", "wait", "done"}
  /\ queue \subseteq Names /\ remaining \in [Names -> Nat]
  /\ stages \in Seq(SUBSET Nodes) /\ current \in 0..(Len(stages) + 1)
  /\ npc \in [Nodes -> {"no", "launched", "running", "ok", "failed"}]
  /\ input \in [Nodes -> SUBSET Names]
  /\ outputs \subseteq Nodes
  /\ err \in {"none", "plan", "node"}

Init ==
  /\ workflow \in Workflows
  /\ pc = "start" /\ err = "none"
  /\ queue = {} /\ remaining = InDegree /\ stages = << >>
  /\ current = 0 /\ outputs = {}
  /\ npc = [n \in Nodes |-> "no"] /\ input = [n \in Nodes |-> {}]

----------------------------------------------------------------------------
(* buildExecutionPlan.  A suffixed name is a faulty variant.               *)

Roots == {n \in Nodes : InDegree[n] = 0}

\* The first trigger without inputs; nodes come in any order.
FindTrigger ==
  /\ pc = "start"
  /\ IF Roots \cap Triggers = {}
       THEN pc' = "done" /\ err' = "plan" /\ UNCHANGED queue
       ELSE \E n \in Roots \cap Triggers : queue' = {n} /\ pc' = "plan" /\ UNCHANGED err
  /\ UNCHANGED <<remaining, stages, run>>

\* remaining[outID]-- for every output of the nodes of a stage
Decreased(stage) ==
  [n \in Names |-> remaining[n] - Cardinality({e \in Into(n) : e.source \in stage})]

Ready_OnFirstInput(stage) == {n \in Names : Decreased(stage)[n] < remaining[n]}

\* The nodes whose last input was in this stage.
Ready(stage) == {n \in Names : remaining[n] > 0 /\ Decreased(stage)[n] = 0}

\* One round of the loop; a name without a node is passed over.
PlanStage ==
  LET stage == (queue \cap Nodes) \ Processed IN
  /\ pc = "plan" /\ queue # {}
  /\ stages' = IF stage = {} THEN stages ELSE Append(stages, stage)
  /\ remaining' = Decreased(stage)
  /\ queue' = Ready(stage)
  /\ UNCHANGED <<pc, run, err>>

\* "workflow contains cycles or disconnected nodes", or the plan is run,
\* with or without trigger data in nodeOutputs.
FinishPlan ==
  /\ pc = "plan" /\ queue = {}
  /\ IF Processed # Nodes
       THEN pc' = "done" /\ err' = "plan" /\ UNCHANGED <<current, outputs>>
       ELSE pc' = "launch" /\ current' = 1 /\ outputs' \in {{}, stages[1]} /\ UNCHANGED err
  /\ UNCHANGED <<plan, npc, input>>

----------------------------------------------------------------------------
(* executePlan *)

Stage == stages[current]

LaunchStage ==
  /\ pc = "launch" /\ current <= Len(stages)
  /\ npc' = [n \in Nodes |-> IF n \in Stage THEN "launched" ELSE npc[n]]
  /\ pc' = "wait"
  /\ UNCHANGED <<plan, current, input, outputs, err>>

\* executeNode finds the executor and builds the input.
BeginNode(n) ==
  /\ npc[n] = "launched" /\ n \in Known
  /\ npc' = [npc EXCEPT ![n] = "running"]
  /\ input' = [input EXCEPT ![n] = Dependencies(n) \cap outputs]
  /\ UNCHANGED <<pc, plan, current, outputs, err>>

\* "executor not found"
UnknownNode(n) ==
  /\ npc[n] = "launched" /\ n \notin Known
  /\ npc' = [npc EXCEPT ![n] = "failed"]
  /\ UNCHANGED <<pc, plan, current, input, outputs, err>>

\* The config does not evaluate, or the executor returns.
EndNode(n) ==
  /\ npc[n] = "running"
  /\ \E end \in {"ok", "failed"} : npc' = [npc EXCEPT ![n] = end]
  /\ UNCHANGED <<pc, plan, current, input, outputs, err>>

Ended(n) == npc[n] \in {"ok", "failed"}

Joined_First == \E n \in Stage : Ended(n)

\* wg.Wait
Joined == \A n \in Stage : Ended(n)

Aborts_WhenAllFail == workflow.stopOnError /\ \A n \in Stage : npc[n] = "failed"

\* case "stop" of the error loop
Aborts == workflow.stopOnError /\ \E n \in Stage : npc[n] = "failed"

NextStage == current + 1

\* The results are stored first, the errors looked at afterwards.
CollectStage ==
  /\ pc = "wait" /\ Joined
  /\ outputs' = outputs \cup {n \in Stage : npc[n] = "ok"}
  /\ IF Aborts THEN pc' = "done" /\ err' = "node" /\ UNCHANGED current
     ELSE pc' = "launch" /\ current' = NextStage /\ UNCHANGED err
  /\ UNCHANGED <<plan, npc, input>>

\* ExecutionStatusCompleted, also when nodes have failed.
Complete ==
  /\ pc = "launch" /\ current > Len(stages)
  /\ pc' = "done"
  /\ UNCHANGED <<plan, run, err>>

Next ==
  /\ \/ FindTrigger \/ PlanStage \/ FinishPlan
     \/ LaunchStage \/ CollectStage \/ Complete
     \/ \E n \in Nodes : BeginNode(n) \/ UnknownNode(n) \/ EndNode(n)
  /\ UNCHANGED workflow

Spec == Init /\ [][Next]_vars

----------------------------------------------------------------------------
(* Properties *)

StageOf(n) == CHOOSE k \in 1..Len(stages) : n \in stages[k]

Acyclic ==
  \A S \in (SUBSET Nodes) \ {{}} : \E n \in S : Dependencies(n) \cap S = {}

\* The workflows that can be planned: no cycle, every source a node, and the
\* trigger the only node without input.
Plannable ==
  /\ Acyclic /\ \A n \in Nodes : Dependencies(n) \subseteq Nodes
  /\ \E t \in Triggers : Roots = {t}

\* buildExecutionPlan accepts exactly the plannable workflows, and puts every
\* node in one stage, the one right after the last of its dependencies.
PlanMatchesGraph ==
  /\ err = "plan" => ~Plannable
  /\ pc \in {"launch", "wait"} =>
       /\ Plannable
       /\ \A k, l \in 1..Len(stages) : k # l => stages[k] \cap stages[l] = {}
       /\ \A n \in Nodes \ Roots :
            StageOf(n) = 1 + Max({StageOf(d) : d \in Dependencies(n)})

\* A node starts only when all its dependencies have ended, and is given the
\* output of each that succeeded: no goroutine of its stage reads nodeOutputs
\* before everything it needs is there.
InputsComplete ==
  \A n \in Nodes : npc[n] = "running" \/ (Ended(n) /\ n \in Known) =>
    \A d \in Dependencies(n) :
      /\ Ended(d)
      /\ npc[d] = "ok" => d \in input[n]

\* With ErrorHandling "stop" a failed node keeps every later stage from
\* starting and fails the execution; otherwise every node is executed once.
ErrorsEndTheRun ==
  pc = "done" /\ err # "plan" =>
    /\ (err = "node") = (workflow.stopOnError /\ \E n \in Nodes : npc[n] = "failed")
    /\ \A n \in Nodes : Ended(n) <=> (err = "none" \/ StageOf(n) <= current)

-------------------------------------------------------------------------------
Conn(s, d, p) == [source |-> s, target |-> d, port |-> p]

\* The workflows of the small instance: subsets of nine connections, among them
\* a diamond, one of its edges doubled, a back edge, and connections from and to
\* a node that does not exist.
MCWorkflows ==
  [conns : SUBSET {Conn("t", "a", 1), Conn("t", "b", 1), Conn("a", "m", 1), Conn("a", "m", 2),
                   Conn("b", "m", 1), Conn("a", "b", 1), Conn("b", "a", 1),
                   Conn("ghost", "m", 1), Conn("m", "ghost", 1)},
   stopOnError : BOOLEAN]
===============================================================================
