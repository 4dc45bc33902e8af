--------------------------- MODULE TaskLoopProofs ---------------------------
(***************************************************************************)
(* Theorems about TaskLoop, for every set of plans, settings and tools.    *)
(***************************************************************************)
EXTENDS TaskLoop, TLAPS

\* The loop's position fixes the snapshot's state, and a task that waits
\* waits at a step of its plan: without this a resume could leave the plan.
ControlOK ==
    /\ pc \in {"loop", "execute"} => state = "EXECUTING"
    /\ pc = "reflect" => state = "REFLECTING"
    /\ pc = "finalize" => state = "COMPLETED"
    /\ pc = "replan" => state = "REPLANNING"
    /\ Waiting => idx < Total /\ pending = Current.id

-----------------------------------------------------------------------------
(***************************************************************************)
(* Facts about the operators of TaskLoop.                                  *)
(***************************************************************************)

\* The rows of the transition table the loop uses, and the one it misses.
LEMMA Transitions ==
    /\ \A s \in {"REFLECTING", "WAITING", "BLOCKED"} :
           <<"EXECUTING", s>> \in ALLOWED_TRANSITIONS
    /\ <<"EXECUTING", "COMPLETED">> \notin ALLOWED_TRANSITIONS
    /\ \A s \in {"EXECUTING", "REPLANNING", "COMPLETED", "WAITING", "BLOCKED"} :
           <<"REFLECTING", s>> \in ALLOWED_TRANSITIONS
    /\ \A s \in {"EXECUTING", "COMPLETED", "BLOCKED"} :
           <<"REPLANNING", s>> \in ALLOWED_TRANSITIONS
    /\ \A s \in {"REPLANNING", "BLOCKED"} :
           <<"COMPLETED", s>> \in ALLOWED_TRANSITIONS
    /\ \A s \in {"EXECUTING", "CANCELLED"} :
           <<"WAITING", s>> \in ALLOWED_TRANSITIONS
BY DEF ALLOWED_TRANSITIONS

\* reflection.evaluate answers with a stop reason of the enumeration.
LEMMA EvaluateType == evaluate[2] \in StopReason
BY DEF evaluate, StopReason

\* So does the completion gate.
LEMMA CompletionType == completion_decision[2] \in StopReason
BY DEF completion_decision, outcome_evaluate, evaluate_step, StopReason

\* A plan of the right type has a length.
LEMMA PlanLength ==
    ASSUME NEW p \in ThinkingPlan
    PROVE  p.steps \in Seq(Step) /\ Len(p.steps) \in Nat
BY DEF ThinkingPlan

\* Within the plan there is a current step.
LEMMA CurrentType ==
    ASSUME TypeOK, idx < Total
    PROVE  /\ Current \in Step
           /\ Current.id \in StepIds
           /\ Current.tool \in Tools \cup {NoTool}
<1>1. plan.steps \in Seq(Step) /\ Total \in Nat
  BY PlanLength DEF TypeOK, PlanType, Total
<1>2. idx + 1 \in 1..Len(plan.steps)
  BY <1>1 DEF TypeOK, PlanType, Total
<1>3. Current \in Step
  BY <1>1, <1>2 DEF Current
<1>4. QED
  BY <1>3 DEF Step

-----------------------------------------------------------------------------
(***************************************************************************)
(* Type correctness.                                                       *)
(***************************************************************************)

\* start_task_loop builds a well-typed snapshot.
LEMMA InitTyped == Init => TypeOK /\ ControlOK
<1>1. SUFFICES ASSUME Init PROVE TypeOK /\ ControlOK
  OBVIOUS
<1>2. PlanType
  <2>1. cfg \in Config /\ plan \in ThinkingPlan
    BY <1>1, ConstantsAssumption DEF Init
  <2>2. Total \in Nat
    BY <2>1, PlanLength DEF Total
  <2>3. QED
    BY <1>1, <2>1, <2>2 DEF Init, PlanType
<1>3. ControlType
  BY <1>1 DEF Init, ControlType, TaskLoopState, StopReason, CompletionStatus
<1>4. RecordType
  BY <1>1 DEF Init, RecordType
<1>5. ProgressType
  BY <1>1 DEF Init, ProgressType, NoRetries, Signature, NoSignature, Outcomes
<1>6. HistoryType
  BY <1>1 DEF Init, HistoryType
<1>7. ControlOK
  BY <1>1 DEF Init, ControlOK, Waiting
<1>8. QED
  BY <1>2, <1>3, <1>4, <1>5, <1>6, <1>7 DEF TypeOK

\* What reflection writes back is well typed, whatever it decided.
LEMMA UpdatesTyped ==
    ASSUME TypeOK, pc = "reflect", Updates
    PROVE  /\ execs' \in Seq([step: StepIds, ok: BOOLEAN])
           /\ artifacts' \subseteq Artifact /\ produced' \subseteq Artifact
           /\ outcome' \in Outcomes
           /\ retries' \in [StepIds -> Nat]
           /\ sig' \in Signature /\ np' \in Nat
           /\ toolCalls' \in Nat
<1>1. Current.id \in StepIds
  BY CurrentType DEF TypeOK, PlanType
<1>2. execs' \in Seq([step: StepIds, ok: BOOLEAN])
  <2> DEFINE E == [step: StepIds, ok: BOOLEAN]
             e == [step |-> Current.id, ok |-> Succeeded]
  <2>1. execs \in Seq(E)
    BY DEF TypeOK, RecordType
  <2>2. e \in E
    BY <1>1 DEF Succeeded
  <2>3. execs' = Append(execs, e) \/ execs' = execs
    BY DEF Updates, append_execution
  <2> HIDE DEF E, e
  <2>4. execs' \in Seq(E)
    BY <2>1, <2>2, <2>3
  <2>5. QED
    BY <2>4 DEF E
<1>3. artifacts' \subseteq Artifact /\ produced' \subseteq Artifact
  BY DEF TypeOK, RecordType, Updates
<1>4. outcome' \in Outcomes
  BY DEF Updates, Outcomes
<1>5. retries' \in [StepIds -> Nat]
  <2>1. NoRetries \in [StepIds -> Nat]
    BY DEF NoRetries
  <2>2. [retries EXCEPT ![Current.id] = @ + 1] \in [StepIds -> Nat]
    BY <1>1 DEF TypeOK, ProgressType
  <2>3. QED
    BY <2>1, <2>2 DEF TypeOK, ProgressType, Updates
<1>6. sig' \in Signature /\ np' \in Nat
  <2>1. NoSignature \in Signature /\ NextSignature \in Signature
    BY <1>1 DEF TypeOK, ProgressType, Signature, NoSignature, NextSignature, Outcomes
  <2>2. NextNoProgress \in Nat
    BY DEF TypeOK, ProgressType, NextNoProgress
  <2>3. QED
    BY <2>1, <2>2 DEF Updates
<1>7. toolCalls' \in Nat
  BY DEF TypeOK, ProgressType, Updates, CountUp
<1>8. QED
  BY <1>2, <1>3, <1>4, <1>5, <1>6, <1>7

\* _append_completed keeps a list of step ids.
LEMMA CompletedTyped ==
    ASSUME TypeOK, pc = "reflect", append_completed
    PROVE  completed' \in Seq(StepIds)
<1>1. Current.id \in StepIds
  BY CurrentType DEF TypeOK, PlanType
<1>2. QED
  BY <1>1 DEF TypeOK, RecordType, append_completed

\* The artifacts of a tool call are those of the current step.
LEMMA ArtifactTyped ==
    ASSUME TypeOK, MayCall, NEW t \in Evidence \cup {"tool_result"},
           NEW ok \in BOOLEAN
    PROVE  ArtifactOf(t, ok) \in Artifact
<1>1. Current.id \in StepIds /\ Current.tool \in Tools
  BY CurrentType, ConstantsAssumption DEF TypeOK, PlanType, MayCall
<1>2. QED
  BY <1>1 DEF ArtifactOf, Artifact, TypeOK, ProgressType

\* The records of what was done stay well typed.
LEMMA RecordTyped == TypeOK /\ [Next]_vars => RecordType'
<1>1. SUFFICES ASSUME TypeOK, [Next]_vars PROVE RecordType'
  OBVIOUS
<1>2. CASE UNCHANGED <<record, structural, produced>>
  BY <1>1, <1>2 DEF TypeOK, RecordType, record
<1>3. CASE MissingTool \/ NotExecutableNow \/ ToolCallGovernorBlocks
           \/ \E e \in ToolErrors : ToolFails(e)
  BY <1>1, <1>3 DEF TypeOK, RecordType, record, Reflecting, MissingTool,
     NotExecutableNow, ToolCallGovernorBlocks, ToolFails
<1>4. ASSUME NEW base \in Attached, NEW v \in BOOLEAN, ToolSucceeds(base, v)
      PROVE  RecordType'
  <2>1. Current.tool \in Tools /\ Produces[Current.tool] \subseteq Evidence
    BY <1>4, ConstantsAssumption DEF ToolSucceeds, MayCall
  <2>2. base \subseteq Evidence
    BY ConstantsAssumption
  <2>3. produced' \subseteq Artifact
    BY <1>1, <1>4, <2>1, <2>2, ArtifactTyped DEF ToolSucceeds, Reflecting
  <2>4. structural' \in Seq(BOOLEAN)
    BY <1>1, <1>4 DEF TypeOK, RecordType, ToolSucceeds
  <2>5. QED
    BY <1>1, <1>4, <2>3, <2>4 DEF TypeOK, RecordType, record, ToolSucceeds, Reflecting
<1>5. CASE Reflect
  <2>1. pc = "reflect" /\ Updates /\ UNCHANGED structural
    BY <1>5 DEF Reflect, ExpandPlan, AdvanceStep, RetryStep, WaitForUser,
       BlockAfterStep, ReplanAfterFailure, AllStepsDone
  <2>2. append_completed \/ UNCHANGED completed
    BY <1>5 DEF Reflect, ExpandPlan, AdvanceStep, RetryStep, WaitForUser,
       BlockAfterStep, ReplanAfterFailure, AllStepsDone
  <2>3. completed' \in Seq(StepIds)
    BY <1>1, <2>1, <2>2, CompletedTyped DEF TypeOK, RecordType
  <2>4. QED
    BY <1>1, <2>1, <2>3, UpdatesTyped DEF TypeOK, RecordType
<1>6. CASE \E p \in Replanned : ReplanToAnswer(p) \/ reset_for_replanned_plan(p)
  <2>1. /\ completed' = << >> /\ execs' = << >> /\ structural' = << >>
        /\ UNCHANGED <<artifacts, produced>>
    BY <1>6 DEF ReplanToAnswer, reset_for_replanned_plan, ClearPlanProgress, result
  <2>2. QED
    BY <1>1, <2>1 DEF TypeOK, RecordType
<1>7. CASE continue_task_loop
  BY <1>1, <1>7 DEF TypeOK, RecordType, continue_task_loop, record, result
<1>8. ASSUME LoopHead \/ finalize_completion \/ ReplannerRaises \/ CancelTask
             \/ DeadlinePasses \/ UNCHANGED vars
             \/ \E p \in Replanned : ReplanRejected(p)
      PROVE  UNCHANGED <<record, structural, produced>>
  BY <1>8 DEF LoopHead, RunPastEnd, receipt_blocked, WaitForApproval,
     StepGovernorBlocks, start_governed_step, finalize_completion,
     CompletionReached, ReplanForObjective, BlockAtCompletion, ReplannerRaises,
     ReplanRejected, CancelTask, DeadlinePasses, vars, result
<1>9. QED
  BY <1>1, <1>2, <1>3, <1>4, <1>5, <1>6, <1>7, <1>8
     DEF Next, Code, execute_step, Replan

\* The counters stay well typed.
LEMMA ProgressTyped == TypeOK /\ [Next]_vars => ProgressType'
<1>1. SUFFICES ASSUME TypeOK, [Next]_vars PROVE ProgressType'
  OBVIOUS
<1>2. CASE UNCHANGED <<outcome, progress, budget>>
  BY <1>1, <1>2 DEF TypeOK, ProgressType, progress, budget
<1>3. CASE execute_step
  <2>1. UNCHANGED <<progress, budget>> /\ outcome' \in Outcomes
    BY <1>3 DEF execute_step, MissingTool, NotExecutableNow,
       ToolCallGovernorBlocks, ToolFails, ToolSucceeds, Reflecting, Outcomes
  <2>2. QED
    BY <1>1, <2>1 DEF TypeOK, ProgressType, progress, budget
<1>4. CASE Reflect
  <2>1. /\ pc = "reflect" /\ Updates /\ UNCHANGED totalSteps
        /\ replans' = replans + 1 \/ replans' = replans
    BY <1>4 DEF Reflect, ExpandPlan, AdvanceStep, RetryStep, WaitForUser,
       BlockAfterStep, ReplanAfterFailure, AllStepsDone
  <2>2. QED
    BY <1>1, <2>1, UpdatesTyped DEF TypeOK, ProgressType
<1>5. CASE start_governed_step \/ ReplanForObjective
  BY <1>1, <1>5 DEF TypeOK, ProgressType, start_governed_step,
     ReplanForObjective, progress, result, CountUp
<1>6. CASE \E p \in Replanned : ReplanToAnswer(p) \/ reset_for_replanned_plan(p)
  BY <1>1, <1>6 DEF TypeOK, ProgressType, ReplanToAnswer, NoRetries, Signature,
     NoSignature, Outcomes, reset_for_replanned_plan, ClearPlanProgress,
     result, budget
<1>7. ASSUME RunPastEnd \/ receipt_blocked \/ WaitForApproval
             \/ StepGovernorBlocks \/ CompletionReached \/ BlockAtCompletion
             \/ ReplannerRaises \/ continue_task_loop \/ CancelTask
             \/ DeadlinePasses \/ UNCHANGED vars
             \/ \E p \in Replanned : ReplanRejected(p)
      PROVE  UNCHANGED <<outcome, progress, budget>>
  BY <1>7 DEF RunPastEnd, receipt_blocked, WaitForApproval,
     StepGovernorBlocks, CompletionReached, BlockAtCompletion, ReplannerRaises,
     ReplanRejected, continue_task_loop, CancelTask, DeadlinePasses, vars, result
<1>8. QED
  BY <1>1, <1>2, <1>3, <1>4, <1>5, <1>6, <1>7
     DEF Next, Code, LoopHead, finalize_completion, Replan

\* So do the histories of approvals, decisions and calls.
LEMMA HistoryTyped == TypeOK /\ ControlOK /\ [Next]_vars => HistoryType'
<1>1. SUFFICES ASSUME TypeOK, ControlOK, [Next]_vars PROVE HistoryType'
  OBVIOUS
<1>2. CASE UNCHANGED history
  BY <1>1, <1>2 DEF TypeOK, HistoryType, history
<1>3. CASE execute_step
  <2>1. Current.id \in StepIds
    <3>1. pc = "execute"
      BY <1>3 DEF execute_step, MissingTool, NotExecutableNow,
         ToolCallGovernorBlocks, ToolFails, ToolSucceeds, MayCall
    <3>2. QED
      BY <1>1, <3>1, CurrentType DEF TypeOK, PlanType
  <2>2. UNCHANGED <<granted, passed>> /\ (UNCHANGED calls \/ CountCall)
    BY <1>3 DEF execute_step, MissingTool, NotExecutableNow,
       ToolCallGovernorBlocks, ToolFails, ToolSucceeds, Reflecting
  <2>3. QED
    BY <1>1, <2>1, <2>2 DEF TypeOK, HistoryType, CountCall
<1>4. CASE \E p \in Replanned : ReplanToAnswer(p) \/ reset_for_replanned_plan(p)
  BY <1>4 DEF HistoryType, ReplanToAnswer, reset_for_replanned_plan,
     ClearPlanProgress
<1>5. CASE continue_task_loop
  <2>1. pending \in StepIds
    BY <1>1, <1>5, CurrentType DEF ControlOK, continue_task_loop
  <2>2. QED
    BY <1>1, <1>5, <2>1 DEF TypeOK, HistoryType, continue_task_loop
<1>6. ASSUME LoopHead \/ Reflect \/ finalize_completion \/ ReplannerRaises
             \/ CancelTask \/ DeadlinePasses \/ UNCHANGED vars
             \/ \E p \in Replanned : ReplanRejected(p)
      PROVE  UNCHANGED history
  BY <1>6 DEF LoopHead, RunPastEnd, receipt_blocked, WaitForApproval,
     StepGovernorBlocks, start_governed_step, Reflect, ExpandPlan, AdvanceStep,
     RetryStep, WaitForUser, BlockAfterStep, ReplanAfterFailure, AllStepsDone,
     finalize_completion, CompletionReached, ReplanForObjective,
     BlockAtCompletion, ReplannerRaises, ReplanRejected, CancelTask,
     DeadlinePasses, vars
<1>7. QED
  BY <1>1, <1>2, <1>3, <1>4, <1>5, <1>6 DEF Next, Code, Replan

\* Where the code stands, what the snapshot's state is and where the index
\* points stay in agreement: one step per action.
LEMMA ControlTyped ==
    TypeOK /\ ControlOK /\ [Next]_vars => ControlType' /\ PlanType' /\ ControlOK'
<1> DEFINE Goal == ControlType' /\ PlanType' /\ ControlOK'
<1>1. SUFFICES ASSUME TypeOK, ControlOK, [Next]_vars PROVE Goal
  OBVIOUS
<1>2. /\ cfg \in Config /\ plan \in ThinkingPlan
      /\ Total \in Nat /\ idx \in 0..Total
      /\ idx < Total => Current.id \in StepIds
  BY <1>1, PlanLength, CurrentType DEF TypeOK, PlanType, Total
<1>3. CASE RunPastEnd
  BY <1>1, <1>2, <1>3, Transitions DEF RunPastEnd, TransitionTo, TypeOK,
     ControlType, PlanType, ControlOK, Waiting, Total, TaskLoopState, StopReason
<1>4. CASE receipt_blocked \/ WaitForApproval \/ StepGovernorBlocks
  <2>1. /\ pc = "loop" /\ idx < Total
        /\ Return("BLOCKED", "CAPABILITY_GAP", Current.id, "BLOCKED")
           \/ Return("WAITING", "RISK_GATE_REQUIRED", Current.id, "WAITING")
           \/ Return("BLOCKED", "MAX_STEPS_REACHED", Current.id, "BLOCKED")
        /\ UNCHANGED <<cfg, plan, idx, approved, caller, clock>>
    BY <1>4 DEF receipt_blocked, WaitForApproval, StepGovernorBlocks, AtStep
  <2>2. QED
    BY <1>1, <1>2, <2>1, Transitions DEF Return, TransitionTo, TypeOK,
       ControlType, PlanType, ControlOK, Waiting, Total, Current, TaskLoopState,
       StopReason, CompletionStatus
<1>5. CASE start_governed_step
  BY <1>1, <1>2, <1>5 DEF start_governed_step, AtStep, TypeOK, ControlType,
     PlanType, ControlOK, Waiting, Total, StopReason
<1>6. CASE execute_step
  <2>1. /\ pc = "execute" /\ TransitionTo("REFLECTING", "reflect")
        /\ UNCHANGED <<cfg, plan, idx, pending, stop, approved, caller, status,
                       clock>>
    BY <1>6 DEF execute_step, MissingTool, NotExecutableNow, MayCall,
       ToolCallGovernorBlocks, ToolFails, ToolSucceeds, Reflecting
  <2>2. QED
    BY <1>1, <1>2, <2>1, Transitions DEF TransitionTo, TypeOK, ControlType,
       PlanType, ControlOK, Waiting, Total, TaskLoopState
<1>7. ASSUME NEW f \in FollowupSteps, ExpandPlan(f) PROVE Goal
  <2>1. plan' \in ThinkingPlan /\ Total' = Total + 1
    <3>1. plan.steps \in Seq(Step) /\ f \in Step
      BY <1>2, PlanLength, ConstantsAssumption
    <3>2. /\ Append(plan.steps, f) \in Seq(Step)
          /\ Len(Append(plan.steps, f)) = Len(plan.steps) + 1
      BY <3>1
    <3>3. /\ plan' \in ThinkingPlan
          /\ plan'.steps = Append(plan.steps, f)
      BY <1>2, <1>7, <3>2 DEF ThinkingPlan, ExpandPlan
    <3>4. QED
      BY <3>2, <3>3 DEF Total
  <2>2. QED
    BY <1>1, <1>2, <1>7, <2>1, Transitions DEF ExpandPlan, TransitionTo,
       TypeOK, ControlType, PlanType, ControlOK, Waiting, TaskLoopState
<1>8. CASE AdvanceStep \/ RetryStep \/ AllStepsDone
  <2>1. pc = "reflect" /\ idx < Total
    BY <1>1, <1>8 DEF AdvanceStep, RetryStep, AllStepsDone, TypeOK, PlanType
  <2>2. QED
    BY <1>1, <1>2, <1>8, <2>1, Transitions DEF AdvanceStep, RetryStep,
       AllStepsDone, TransitionTo, TypeOK, ControlType, PlanType, ControlOK,
       Waiting, Total, TaskLoopState, StopReason
<1>9. CASE WaitForUser \/ BlockAfterStep \/ ReplanAfterFailure
  <2>1. pc = "reflect" /\ idx < Total /\ UNCHANGED <<cfg, plan, idx, caller, clock>>
    BY <1>1, <1>9 DEF WaitForUser, BlockAfterStep, ReplanAfterFailure, TypeOK,
       PlanType
  <2>2. evaluate[2] \in StopReason
    BY EvaluateType
  <2>3. QED
    BY <1>1, <1>2, <1>9, <2>1, <2>2, Transitions DEF WaitForUser,
       BlockAfterStep, ReplanAfterFailure, ForgetApproval, Return,
       TransitionTo, TypeOK, ControlType, PlanType, ControlOK, Waiting, Total,
       Current, TaskLoopState, CompletionStatus
<1>10. CASE finalize_completion
  <2>1. LastCompleted \in StepIds \cup {NoStep}
    BY <1>1 DEF TypeOK, RecordType, LastCompleted
  <2>2. completion_decision[2] \in StopReason
    BY CompletionType
  <2>3. pc = "finalize" /\ UNCHANGED <<cfg, plan, idx, caller, clock>>
    BY <1>10 DEF finalize_completion, CompletionReached, ReplanForObjective,
       BlockAtCompletion, control
  <2>4. QED
    BY <1>1, <1>2, <1>10, <2>1, <2>2, <2>3, Transitions DEF
       finalize_completion, CompletionReached, ReplanForObjective,
       BlockAtCompletion, ForgetApproval, Return, TransitionTo, TypeOK,
       ControlType, PlanType, ControlOK, Waiting, Total, control,
       TaskLoopState, CompletionStatus
<1>11. ASSUME NEW p \in Replanned, ReplanRejected(p) PROVE Goal
  BY <1>1, <1>2, <1>11, Transitions DEF ReplanRejected, Return, TransitionTo,
     TypeOK, ControlType, PlanType, ControlOK, Waiting, Total, TaskLoopState,
     StopReason, CompletionStatus
<1>12. ASSUME NEW p \in Replanned,
              ReplanToAnswer(p) \/ reset_for_replanned_plan(p)
       PROVE  Goal
  <2>1. plan' \in ThinkingPlan /\ Total' \in Nat
    BY <1>12, ConstantsAssumption, PlanLength DEF ReplanToAnswer,
       reset_for_replanned_plan, Total
  <2>2. QED
    BY <1>1, <1>2, <1>12, <2>1, Transitions DEF ReplanToAnswer,
       reset_for_replanned_plan, ClearPlanProgress, TransitionTo, TypeOK,
       ControlType, PlanType, ControlOK, Waiting, TaskLoopState, StopReason,
       CompletionStatus
<1>13. CASE ReplannerRaises
  BY <1>1, <1>2, <1>13 DEF ReplannerRaises, TypeOK, ControlType, PlanType,
     ControlOK, Waiting, Total, control
<1>14. CASE continue_task_loop
  BY <1>1, <1>2, <1>14, Transitions DEF continue_task_loop, resume_index, Min2,
     TransitionTo, TypeOK, ControlType, PlanType, ControlOK, Waiting, Total,
     TaskLoopState, StopReason, CompletionStatus
<1>15. CASE CancelTask
  BY <1>1, <1>2, <1>15, Transitions DEF CancelTask, Return, TransitionTo,
     TypeOK, ControlType, PlanType, ControlOK, Waiting, Total, TaskLoopState,
     StopReason, CompletionStatus
<1>16. CASE DeadlinePasses \/ UNCHANGED vars
  BY <1>1, <1>2, <1>16 DEF DeadlinePasses, vars, TypeOK, ControlType, PlanType,
     ControlOK, Waiting, Total, Current, control
<1>17. QED
  BY <1>1, <1>3, <1>4, <1>5, <1>6, <1>7, <1>8, <1>9, <1>10, <1>11, <1>12,
     <1>13, <1>14, <1>15, <1>16 DEF Next, Code, LoopHead, Reflect, Replan

\* The type invariant and the loop's control invariant hold of every task.
THEOREM TypeCorrect == Spec => [](TypeOK /\ ControlOK)
<1>1. Init => TypeOK /\ ControlOK
  BY InitTyped
<1>2. (TypeOK /\ ControlOK) /\ [Next]_vars => (TypeOK /\ ControlOK)'
  BY ControlTyped, RecordTyped, ProgressTyped, HistoryTyped DEF TypeOK
<1>3. QED
  BY <1>1, <1>2, PTL DEF Spec
=============================================================================
