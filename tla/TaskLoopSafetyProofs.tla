------------------------ MODULE TaskLoopSafetyProofs ------------------------
(***************************************************************************)
(* The safety theorems about TaskLoop.  Each rests on the type invariant   *)
(* and an inductive strengthening of the property it proves.               *)
(***************************************************************************)
EXTENDS TaskLoopProofs

\* A step changes the settings never and the plan only where a plan is
\* replaced or extended.
LEMMA PlanKept ==
    [Next]_vars =>
        /\ cfg' = cfg
        /\ \/ plan' = plan
           \/ \E f \in FollowupSteps : ExpandPlan(f)
           \/ \E p \in Replanned : ReplanToAnswer(p) \/ reset_for_replanned_plan(p)
BY DEF Next, Code, LoopHead, execute_step, Reflect, finalize_completion, Replan,
   RunPastEnd, receipt_blocked, WaitForApproval, StepGovernorBlocks,
   start_governed_step, MissingTool, NotExecutableNow, ToolCallGovernorBlocks,
   ToolFails, ToolSucceeds, Reflecting, ExpandPlan, AdvanceStep, RetryStep,
   WaitForUser, BlockAfterStep, ReplanAfterFailure, AllStepsDone,
   CompletionReached, ReplanForObjective, BlockAtCompletion, ReplanRejected,
   ReplanToAnswer, reset_for_replanned_plan, ReplannerRaises,
   continue_task_loop, CancelTask, DeadlinePasses, vars

-----------------------------------------------------------------------------
(***************************************************************************)
(* Budgets.                                                                *)
(***************************************************************************)

\* Reflection and the completion gate ask for a replan only if one is left.
LEMMA ReplanNeedsBudget ==
    /\ evaluate[1] = "REPLAN" => can_replan
    /\ completion_decision[1] = "REPLAN" => can_replan
BY DEF evaluate, completion_decision, outcome_evaluate, evaluate_step

\* The replanner is asked at most max_replans times over the whole task.
THEOREM ReplanBudgetHolds == Spec => []ReplanBudget
<1>1. Init => ReplanBudget
  BY ConstantsAssumption DEF Init, ReplanBudget, Config
<1>2. TypeOK /\ ReplanBudget /\ [Next]_vars => ReplanBudget'
  <2>1. SUFFICES ASSUME TypeOK, ReplanBudget, [Next]_vars PROVE ReplanBudget'
    OBVIOUS
  <2>2. cfg' = cfg /\ replans \in Nat /\ cfg.max_replans \in Nat
    BY <2>1, PlanKept DEF TypeOK, ProgressType, PlanType, Config
  <2>3. CASE ReplanAfterFailure \/ ReplanForObjective
    BY <2>2, <2>3, ReplanNeedsBudget DEF ReplanAfterFailure,
       ReplanForObjective, can_replan, ReplanBudget
  <2>4. CASE UNCHANGED replans
    BY <2>1, <2>2, <2>4 DEF ReplanBudget
  <2>5. ReplanAfterFailure \/ ReplanForObjective \/ UNCHANGED replans
    BY <2>1 DEF Next, Code, LoopHead, execute_step, Reflect,
       finalize_completion, Replan, RunPastEnd, receipt_blocked,
       WaitForApproval, StepGovernorBlocks, start_governed_step, MissingTool,
       NotExecutableNow, ToolCallGovernorBlocks, ToolFails, ToolSucceeds,
       Reflecting, ExpandPlan, AdvanceStep, RetryStep, WaitForUser,
       BlockAfterStep, AllStepsDone, CompletionReached, BlockAtCompletion,
       ReplanRejected, ReplanToAnswer, reset_for_replanned_plan,
       ReplannerRaises, continue_task_loop, CancelTask, DeadlinePasses, vars,
       budget
  <2>6. QED
    BY <2>3, <2>4, <2>5
<1>3. QED
  BY <1>1, <1>2, TypeCorrect, PTL DEF Spec

\* Steps, tool calls and replans are only ever counted up.
THEOREM CountersOnlyGrow == Spec => CountersNeverReset
<1> DEFINE Grow == totalSteps' >= totalSteps /\ toolCalls' >= toolCalls /\ replans' >= replans
<1>1. TypeOK /\ [Next]_vars => Grow
  <2>1. SUFFICES ASSUME TypeOK, [Next]_vars PROVE Grow
    OBVIOUS
  <2>2. totalSteps \in Nat /\ toolCalls \in Nat /\ replans \in Nat
    BY <2>1 DEF TypeOK, ProgressType
  <2>3. /\ totalSteps' = totalSteps \/ totalSteps' = totalSteps + 1
        /\ replans' = replans \/ replans' = replans + 1
        /\ toolCalls' = toolCalls \/ Updates
    BY <2>1 DEF Next, Code, LoopHead, execute_step, Reflect,
       finalize_completion, Replan, RunPastEnd, receipt_blocked,
       WaitForApproval, StepGovernorBlocks, start_governed_step, MissingTool,
       NotExecutableNow, ToolCallGovernorBlocks, ToolFails, ToolSucceeds,
       Reflecting, ExpandPlan, AdvanceStep, RetryStep, WaitForUser,
       BlockAfterStep, ReplanAfterFailure, AllStepsDone, CompletionReached,
       ReplanForObjective, BlockAtCompletion, ReplanRejected, ReplanToAnswer,
       reset_for_replanned_plan, ReplannerRaises, continue_task_loop,
       CancelTask, DeadlinePasses, vars, budget, CountUp
  <2>4. toolCalls' = toolCalls \/ toolCalls' = toolCalls + 1
    BY <2>2, <2>3 DEF Updates, CountUp
  <2>5. QED
    BY <2>2, <2>3, <2>4
<1>2. QED
  BY <1>1, TypeCorrect, PTL DEF Spec, CountersNeverReset

\* A call whose result is being reflected on was made below the limit: it is
\* counted only after it has been made.
CallWithinLimit ==
    pc = "reflect" /\ Started => ~LimitReached(toolCalls, cfg.max_tool_calls)

\* The governor's limits on steps and tool calls hold over the whole task.
THEOREM RunGovernorLimitsHold == Spec => []RunGovernorLimits
<1> DEFINE IInv == RunGovernorLimits /\ CallWithinLimit
<1>1. Init => IInv
  <2>1. SUFFICES ASSUME Init PROVE IInv
    OBVIOUS
  <2>2. cfg.max_total_steps \in Limit /\ cfg.max_tool_calls \in Limit
    BY <2>1, ConstantsAssumption DEF Init, Config
  <2>3. QED
    BY <2>1, <2>2 DEF Init, RunGovernorLimits, CallWithinLimit, Limit
<1>2. TypeOK /\ IInv /\ [Next]_vars => IInv'
  <2>1. SUFFICES ASSUME TypeOK, IInv, [Next]_vars PROVE IInv'
    OBVIOUS
  <2>2. /\ cfg' = cfg /\ totalSteps \in Nat /\ toolCalls \in Nat
        /\ cfg.max_total_steps \in Limit /\ cfg.max_tool_calls \in Limit
    BY <2>1, PlanKept DEF TypeOK, ProgressType, PlanType, Config
  <2>3. CASE start_governed_step
    BY <2>1, <2>2, <2>3, ConstantsAssumption DEF start_governed_step,
       can_start_step, LimitReached, RunGovernorLimits, CallWithinLimit, Limit,
       CountUp
  <2>4. CASE MissingTool \/ NotExecutableNow \/ ToolCallGovernorBlocks
    <3>1. /\ UNCHANGED <<cfg, totalSteps, toolCalls>>
          /\ outcome' \in {"skipped", "not_executable", "governor"}
      BY <2>4 DEF MissingTool, NotExecutableNow, ToolCallGovernorBlocks,
         Reflecting, budget
    <3>2. ~Started'
      BY <3>1, ConstantsAssumption DEF Started, Succeeded
    <3>3. QED
      BY <2>1, <3>1, <3>2 DEF RunGovernorLimits, CallWithinLimit
  <2>5. CASE \/ \E e \in ToolErrors : ToolFails(e)
             \/ \E base \in Attached, v \in BOOLEAN : ToolSucceeds(base, v)
    <3>1. UNCHANGED <<cfg, totalSteps, toolCalls>> /\ can_start_tool_call
      BY <2>5 DEF ToolFails, ToolSucceeds, Reflecting, MayCall, budget
    <3>2. QED
      BY <2>1, <3>1 DEF RunGovernorLimits, CallWithinLimit,
         can_start_tool_call, LimitReached
  <2>6. CASE Reflect
    <3>1. pc = "reflect" /\ pc' # "reflect" /\ Updates /\ UNCHANGED totalSteps
      BY <2>6 DEF Reflect, ExpandPlan, AdvanceStep, RetryStep, WaitForUser,
         BlockAfterStep, ReplanAfterFailure, AllStepsDone, Return, TransitionTo
    <3>2. toolCalls' = IF Started THEN CountUp(toolCalls) ELSE toolCalls
      BY <3>1 DEF Updates
    <3>3. QED
      BY <2>1, <2>2, <3>1, <3>2, ConstantsAssumption DEF RunGovernorLimits,
         CallWithinLimit, LimitReached, Limit, CountUp
  <2>7. CASE UNCHANGED <<totalSteps, toolCalls>> /\ pc' # "reflect"
    BY <2>1, <2>2, <2>7 DEF RunGovernorLimits, CallWithinLimit
  <2>8. CASE DeadlinePasses \/ UNCHANGED vars
    BY <2>1, <2>2, <2>8 DEF DeadlinePasses, vars, RunGovernorLimits,
       CallWithinLimit, Started, Succeeded, budget, result
  <2>9. ASSUME RunPastEnd \/ receipt_blocked \/ WaitForApproval
               \/ StepGovernorBlocks \/ finalize_completion \/ Replan
               \/ continue_task_loop \/ CancelTask
        PROVE  UNCHANGED <<totalSteps, toolCalls>> /\ pc' # "reflect"
    BY <2>9 DEF RunPastEnd, receipt_blocked, WaitForApproval, AtStep, Waiting,
       StepGovernorBlocks, finalize_completion, CompletionReached,
       ReplanForObjective, BlockAtCompletion, Replan, ReplanRejected,
       ReplanToAnswer, reset_for_replanned_plan, ReplannerRaises,
       continue_task_loop, CancelTask, Return, TransitionTo, budget
  <2>10. QED
    BY <2>1, <2>3, <2>4, <2>5, <2>6, <2>7, <2>8, <2>9
       DEF Next, Code, LoopHead, execute_step
<1>3. IInv => RunGovernorLimits
  OBVIOUS
<1>4. QED
  BY <1>1, <1>2, <1>3, TypeCorrect, PTL DEF Spec

-----------------------------------------------------------------------------
(***************************************************************************)
(* The approval gate.                                                      *)
(***************************************************************************)

\* The approval in force was given by the user under the plan in force; the
\* loop has none while it replans.
ApprovalIsGranted ==
    /\ approved # NoStep => approved \in granted
    /\ pc = "replan" => approved = NoStep

\* No gated tool runs without the user's approval of that step of that plan.
THEOREM ApprovalGateHolds == Spec => []ApprovalGate
<1> DEFINE IInv == ApprovalGate /\ ApprovalIsGranted
<1>1. Init => IInv
  BY DEF Init, ApprovalGate, ApprovalIsGranted
<1>2. TypeOK /\ ControlOK /\ IInv /\ [Next]_vars => IInv'
  <2>1. SUFFICES ASSUME TypeOK, ControlOK, IInv, [Next]_vars PROVE IInv'
    OBVIOUS
  <2>2. idx < Total => Current.id \in StepIds
    BY <2>1, CurrentType
  <2>3. CASE start_governed_step
    <3>1. requires_waiting(Current) => Current.id \in granted
      BY <2>1, <2>2, <2>3, ConstantsAssumption DEF start_governed_step, AtStep,
         NeedsApproval, ApprovalIsGranted
    <3>2. UNCHANGED <<cfg, plan, idx, approved, granted>> /\ pc' = "execute"
      BY <2>3 DEF start_governed_step, history
    <3>3. requires_waiting(Current)' = requires_waiting(Current) /\ Current' = Current
      BY <3>2 DEF requires_waiting, Current
    <3>4. QED
      BY <2>1, <3>1, <3>2, <3>3 DEF ApprovalGate, ApprovalIsGranted
  <2>4. CASE continue_task_loop
    <3>1. pending \in StepIds
      BY <2>1, <2>2, <2>4 DEF continue_task_loop, ControlOK
    <3>2. pc' \in {"loop", "raised"}
      BY <2>4 DEF continue_task_loop, TransitionTo
    <3>3. QED
      BY <2>1, <2>4, <3>1, <3>2 DEF continue_task_loop, ApprovalGate,
         ApprovalIsGranted
  <2>5. CASE ReplanAfterFailure \/ ReplanForObjective
    BY <2>1, <2>5 DEF ReplanAfterFailure, ReplanForObjective, ForgetApproval,
       TransitionTo, history, ApprovalGate, ApprovalIsGranted
  <2>6. CASE \E p \in Replanned : ReplanToAnswer(p) \/ reset_for_replanned_plan(p)
    BY <2>1, <2>6 DEF ReplanToAnswer, reset_for_replanned_plan, TransitionTo,
       ApprovalGate, ApprovalIsGranted
  <2>7. CASE DeadlinePasses \/ UNCHANGED vars
    <3>1. UNCHANGED <<cfg, plan, idx, pc, approved, granted>>
      BY <2>7 DEF DeadlinePasses, vars, control, history
    <3>2. requires_waiting(Current)' = requires_waiting(Current) /\ Current' = Current
      BY <3>1 DEF requires_waiting, Current
    <3>3. QED
      BY <2>1, <3>1, <3>2 DEF ApprovalGate, ApprovalIsGranted
  <2>8. CASE UNCHANGED <<approved, granted>> /\ pc' \notin {"execute", "replan"}
    BY <2>1, <2>8 DEF ApprovalGate, ApprovalIsGranted
  <2>9. ASSUME \/ RunPastEnd \/ receipt_blocked \/ WaitForApproval
               \/ StepGovernorBlocks \/ execute_step \/ AdvanceStep \/ RetryStep
               \/ WaitForUser \/ BlockAfterStep \/ AllStepsDone
               \/ CompletionReached \/ BlockAtCompletion \/ ReplannerRaises
               \/ CancelTask
               \/ \E f \in FollowupSteps : ExpandPlan(f)
               \/ \E p \in Replanned : ReplanRejected(p)
        PROVE  UNCHANGED <<approved, granted>> /\ pc' \notin {"execute", "replan"}
    BY <2>9 DEF RunPastEnd, receipt_blocked, WaitForApproval, AtStep, Waiting,
       StepGovernorBlocks, execute_step, MissingTool, NotExecutableNow,
       ToolCallGovernorBlocks, ToolFails, ToolSucceeds, Reflecting, MayCall,
       AdvanceStep, RetryStep, WaitForUser, BlockAfterStep, AllStepsDone,
       CompletionReached, BlockAtCompletion, ReplannerRaises, CancelTask,
       ExpandPlan, ReplanRejected, Return, TransitionTo, history
  <2>10. QED
    BY <2>1, <2>3, <2>4, <2>5, <2>6, <2>7, <2>8, <2>9
       DEF Next, Code, LoopHead, Reflect, finalize_completion, Replan
<1>3. IInv => ApprovalGate
  OBVIOUS
<1>4. QED
  BY <1>1, <1>2, <1>3, TypeCorrect, PTL DEF Spec

-----------------------------------------------------------------------------
(***************************************************************************)
(* Where transition_to raises.                                             *)
(***************************************************************************)

\* The loop's head is reached past the last step only by a resume after it.
PastEndIsResumed ==
    pc = "loop" /\ idx = Total =>
        caller = "continue" /\ plan.steps[Total].id \in passed

\* The loop raises only where the user went on after the plan's last step.
THEOREM RaisesOnlyPastLastStepHolds == Spec => []RaisesOnlyPastLastStep
<1> DEFINE IInv == RaisesOnlyPastLastStep /\ PastEndIsResumed
<1>1. Init => IInv
  <2>1. SUFFICES ASSUME Init PROVE IInv
    OBVIOUS
  <2>2. Total # 0
    <3>1. plan \in ThinkingPlan /\ plan.steps # << >>
      BY <2>1, ConstantsAssumption DEF Init
    <3>2. QED
      BY <3>1, PlanLength DEF Total
  <2>3. QED
    BY <2>1, <2>2 DEF Init, RaisesOnlyPastLastStep, PastEndIsResumed
<1>2. TypeOK /\ ControlOK /\ IInv /\ [Next]_vars => IInv'
  <2>1. SUFFICES ASSUME TypeOK, ControlOK, IInv, [Next]_vars PROVE IInv'
    OBVIOUS
  <2>2. /\ plan \in ThinkingPlan /\ Total \in Nat /\ idx \in 0..Total
        /\ pc \in {"execute", "reflect"} => idx < Total
    BY <2>1, PlanLength DEF TypeOK, PlanType, Total
  <2>3. CASE RunPastEnd
    BY <2>1, <2>2, <2>3 DEF RunPastEnd, TransitionTo, history, Total,
       RaisesOnlyPastLastStep, PastEndIsResumed
  <2>4. CASE continue_task_loop
    <3>1. pc' = "loop"
      BY <2>1, <2>4, Transitions DEF continue_task_loop, Waiting, TransitionTo
    <3>2. idx < Total /\ pending = plan.steps[idx + 1].id /\ UNCHANGED plan
      BY <2>1, <2>4 DEF continue_task_loop, ControlOK, Current
    <3>3. QED
      BY <2>2, <2>4, <3>1, <3>2 DEF continue_task_loop, resume_index, Min2, Total,
         RaisesOnlyPastLastStep, PastEndIsResumed
  <2>5. CASE AdvanceStep
    <3>1. idx + 1 < Total
      BY <2>2, <2>5 DEF AdvanceStep, evaluate
    <3>2. QED
      BY <2>1, <2>2, <2>5, <3>1, Transitions DEF AdvanceStep, TransitionTo,
         ControlOK, Total, RaisesOnlyPastLastStep, PastEndIsResumed
  <2>6. CASE RetryStep
    BY <2>1, <2>2, <2>6, Transitions DEF RetryStep, TransitionTo, ControlOK,
       Total, RaisesOnlyPastLastStep, PastEndIsResumed
  <2>7. ASSUME NEW f \in FollowupSteps, ExpandPlan(f) PROVE IInv'
    <3>1. Total' = Total + 1
      <4>1. plan.steps \in Seq(Step) /\ f \in Step
        BY <2>2, PlanLength, ConstantsAssumption
      <4>2. plan'.steps = Append(plan.steps, f)
        BY <2>2, <2>7 DEF ThinkingPlan, ExpandPlan
      <4>3. QED
        BY <4>1, <4>2 DEF Total
    <3>2. QED
      BY <2>1, <2>2, <2>7, <3>1, Transitions DEF ExpandPlan, TransitionTo,
         ControlOK, RaisesOnlyPastLastStep, PastEndIsResumed
  <2>8. ASSUME NEW p \in Replanned, ReplanToAnswer(p) PROVE IInv'
    BY <2>1, <2>8, Transitions DEF ReplanToAnswer, TransitionTo, ControlOK,
       RaisesOnlyPastLastStep, PastEndIsResumed
  <2>9. ASSUME NEW p \in Replanned, reset_for_replanned_plan(p) PROVE IInv'
    <3>1. Total' \in Nat /\ Total' # 0
      <4>1. plan' = p /\ p \in ThinkingPlan /\ p.steps # << >>
        BY <2>9, ConstantsAssumption DEF reset_for_replanned_plan
      <4>2. QED
        BY <4>1, PlanLength DEF Total
    <3>2. QED
      BY <2>1, <2>9, <3>1, Transitions DEF reset_for_replanned_plan,
         ClearPlanProgress, TransitionTo, ControlOK, RaisesOnlyPastLastStep,
         PastEndIsResumed
  <2>10. CASE DeadlinePasses \/ UNCHANGED vars
    BY <2>1, <2>10 DEF DeadlinePasses, vars, control, history, Total,
       RaisesOnlyPastLastStep, PastEndIsResumed
  <2>11. CASE pc' \notin {"loop", "raised"}
    BY <2>11 DEF RaisesOnlyPastLastStep, PastEndIsResumed
  <2>12. ASSUME \/ receipt_blocked \/ WaitForApproval \/ StepGovernorBlocks
                \/ start_governed_step \/ execute_step
                \/ WaitForUser \/ BlockAfterStep \/ ReplanAfterFailure
                \/ AllStepsDone \/ finalize_completion
                \/ ReplannerRaises \/ CancelTask
                \/ \E p \in Replanned : ReplanRejected(p)
         PROVE  pc' \notin {"loop", "raised"}
    BY <2>1, <2>12, Transitions DEF receipt_blocked, WaitForApproval, AtStep,
       StepGovernorBlocks, start_governed_step, execute_step, MissingTool,
       NotExecutableNow, ToolCallGovernorBlocks, ToolFails, ToolSucceeds,
       Reflecting, MayCall, WaitForUser, BlockAfterStep, ReplanAfterFailure,
       AllStepsDone, finalize_completion, CompletionReached,
       ReplanForObjective, BlockAtCompletion, ReplannerRaises, CancelTask,
       Waiting, ReplanRejected, Return, TransitionTo, ControlOK
  <2>13. QED
    BY <2>1, <2>3, <2>4, <2>5, <2>6, <2>7, <2>8, <2>9, <2>10, <2>11, <2>12
       DEF Next, Code, LoopHead, Reflect, Replan
<1>3. IInv => RaisesOnlyPastLastStep
  OBVIOUS
<1>4. QED
  BY <1>1, <1>2, <1>3, TypeCorrect, PTL DEF Spec

-----------------------------------------------------------------------------
(***************************************************************************)
(* How often a tool is called for a step.                                  *)
(***************************************************************************)

\* Only the steps of the plan in force have been called, and their ids tell
\* them apart.
CallsBelongToPlan ==
    /\ DistinctIds(plan)
    /\ \A s \in StepIds \ StepIdsOf(plan) : calls[s] = 0

\* The steps of a plan are numbered from one, and have ids.
LEMMA PlanDomain ==
    ASSUME NEW p \in ThinkingPlan
    PROVE  /\ DOMAIN p.steps = 1..Len(p.steps)
           /\ \A i \in DOMAIN p.steps : p.steps[i].id \in StepIds
<1>1. p.steps \in Seq(Step)
  BY PlanLength
<1>2. \A i \in DOMAIN p.steps : p.steps[i] \in Step
  BY <1>1
<1>3. QED
  BY <1>1, <1>2 DEF Step

\* A follow-up step is put behind the others, which stay as they are.
LEMMA ExpandedPlan ==
    ASSUME TypeOK, NEW f \in FollowupSteps, ExpandPlan(f)
    PROVE  /\ f.id \in StepIds /\ f.id \notin StepIdsOf(plan)
           /\ Total \in Nat /\ Total' = Total + 1
           /\ DOMAIN plan.steps = 1..Total
           /\ DOMAIN plan'.steps = 1..(Total + 1)
           /\ plan'.steps[Total + 1] = f
           /\ \A i \in 1..Total : plan'.steps[i] = plan.steps[i]
<1>1. plan \in ThinkingPlan /\ plan.steps \in Seq(Step) /\ f \in Step
  BY PlanLength, ConstantsAssumption DEF TypeOK, PlanType
<1>2. plan'.steps = Append(plan.steps, f)
  BY <1>1 DEF ThinkingPlan, ExpandPlan
<1>3. QED
  BY <1>1, <1>2 DEF Total, Step, ExpandPlan

\* A tool is called only for the current step, from execute_step; the counts
\* start again with a new plan.
LEMMA CallsStep ==
    [Next]_vars =>
        \/ /\ pc = "execute" /\ CountCall
           /\ TransitionTo("REFLECTING", "reflect")
           /\ UNCHANGED <<plan, idx, execs, retries>>
        \/ calls' = [s \in StepIds |-> 0]
        \/ calls' = calls
BY DEF Next, Code, LoopHead, execute_step, Reflect, finalize_completion, Replan,
   RunPastEnd, receipt_blocked, WaitForApproval, StepGovernorBlocks,
   start_governed_step, MissingTool, NotExecutableNow, ToolCallGovernorBlocks,
   ToolFails, ToolSucceeds, Reflecting, MayCall, ExpandPlan, AdvanceStep,
   RetryStep, WaitForUser, BlockAfterStep, ReplanAfterFailure, AllStepsDone,
   CompletionReached, ReplanForObjective, BlockAtCompletion, ReplanRejected,
   ReplanToAnswer, reset_for_replanned_plan, ClearPlanProgress,
   ReplannerRaises, continue_task_loop, CancelTask, DeadlinePasses, vars,
   history, record, progress

\* A replanned plan starts with no calls and distinct ids.
LEMMA ReplannedCalls ==
    ASSUME NEW p \in Replanned, ReplanToAnswer(p) \/ reset_for_replanned_plan(p)
    PROVE  /\ plan' = p /\ DistinctIds(plan)' /\ idx' = 0
           /\ calls' = [s \in StepIds |-> 0] /\ retries' = NoRetries
           /\ execs' = << >>
BY DEF ReplanToAnswer, reset_for_replanned_plan, ClearPlanProgress,
   PlanContractAllows, DistinctIds

\* That only steps of the plan have calls is inductive.
LEMMA CallsBelongStep ==
    TypeOK /\ CallsBelongToPlan /\ [Next]_vars => CallsBelongToPlan'
<1>1. SUFFICES ASSUME TypeOK, CallsBelongToPlan, [Next]_vars
               PROVE  CallsBelongToPlan'
  OBVIOUS
<1>2. CASE plan' = plan /\ calls' = calls
  BY <1>1, <1>2 DEF CallsBelongToPlan, DistinctIds, StepIdsOf
<1>3. CASE plan' = plan /\ calls' = [s \in StepIds |-> 0]
  BY <1>1, <1>3 DEF CallsBelongToPlan, DistinctIds, StepIdsOf
<1>4. CASE pc = "execute" /\ CountCall /\ plan' = plan
  <2>1. Current.id \in StepIdsOf(plan)
    BY <1>1, <1>4, PlanLength DEF TypeOK, PlanType, StepIdsOf, Current, Total
  <2>2. QED
    BY <1>1, <1>4, <2>1 DEF CallsBelongToPlan, DistinctIds, StepIdsOf,
       CountCall, TypeOK, HistoryType
<1>5. ASSUME NEW f \in FollowupSteps, ExpandPlan(f) PROVE CallsBelongToPlan'
  <2>1. calls' = calls
    BY <1>5 DEF ExpandPlan, history
  <2>2. DistinctIds(plan)'
    <3>1. SUFFICES ASSUME NEW i \in 1..(Total + 1), NEW j \in 1..(Total + 1),
                          plan'.steps[i].id = plan'.steps[j].id
                   PROVE  i = j
      BY <1>1, <1>5, ExpandedPlan DEF DistinctIds
    <3>2. \A k \in 1..Total : plan'.steps[k] = plan.steps[k] /\ plan.steps[k].id # f.id
      BY <1>1, <1>5, ExpandedPlan DEF StepIdsOf
    <3>3. /\ DOMAIN plan.steps = 1..Total /\ Total \in Nat
          /\ plan'.steps[Total + 1] = f
      BY <1>1, <1>5, ExpandedPlan
    <3>4. CASE i \in 1..Total /\ j \in 1..Total
      BY <1>1, <3>1, <3>2, <3>3, <3>4 DEF CallsBelongToPlan, DistinctIds
    <3>5. CASE i = Total + 1 /\ j \in 1..Total
      BY <3>1, <3>2, <3>3, <3>5
    <3>6. CASE j = Total + 1 /\ i \in 1..Total
      BY <3>1, <3>2, <3>3, <3>6
    <3>7. QED
      BY <3>3, <3>4, <3>5, <3>6
  <2>3. StepIdsOf(plan) \subseteq StepIdsOf(plan')
    <3>1. /\ DOMAIN plan.steps = 1..Total /\ Total \in Nat
          /\ DOMAIN plan'.steps = 1..(Total + 1)
          /\ \A i \in 1..Total : plan'.steps[i] = plan.steps[i]
      BY <1>1, <1>5, ExpandedPlan
    <3>2. 1..Total \subseteq 1..(Total + 1)
      BY <3>1
    <3>3. SUFFICES ASSUME NEW i \in 1..Total
                   PROVE  plan.steps[i].id \in StepIdsOf(plan')
      BY <3>1, Zenon DEF StepIdsOf
    <3>4. i \in DOMAIN plan'.steps /\ plan.steps[i].id = plan'.steps[i].id
      BY <3>1, <3>2, Zenon
    <3>5. QED
      BY <3>4, Zenon DEF StepIdsOf
  <2>4. QED
    BY <1>1, <2>1, <2>2, <2>3 DEF CallsBelongToPlan
<1>6. ASSUME NEW p \in Replanned, ReplanToAnswer(p) \/ reset_for_replanned_plan(p)
      PROVE  CallsBelongToPlan'
  BY <1>6, ReplannedCalls DEF CallsBelongToPlan
<1>7. QED
  BY <1>1, <1>2, <1>3, <1>4, <1>5, <1>6, PlanKept, CallsStep

\* A plan handed to the loop has no calls yet.
LEMMA CallsBelongInit == Init => CallsBelongToPlan
BY ConstantsAssumption DEF Init, CallsBelongToPlan

\* In receipt mode every step that was called has an execution record, the one
\* being reflected on excepted, and a step starts right behind the records.
ReceiptChain ==
    cfg.mode = "RECEIPT_MODE_ACTIVE" =>
        /\ pc \in {"execute", "reflect"} => Len(execs) = idx
        /\ \A i \in DOMAIN plan.steps :
               calls[plan.steps[i].id] > 0 =>
                   (i <= Len(execs) \/ (pc = "reflect" /\ i = idx + 1))

\* In receipt mode no tool is called twice for a step of the plan in force.
THEOREM AtMostOncePerReceiptHolds == Spec => []AtMostOncePerReceipt
<1> DEFINE IInv == CallsBelongToPlan /\ ReceiptChain /\ AtMostOncePerReceipt
<1>1. Init => IInv
  <2>1. Init => ReceiptChain /\ AtMostOncePerReceipt
    <3>1. SUFFICES ASSUME Init PROVE ReceiptChain /\ AtMostOncePerReceipt
      OBVIOUS
    <3>2. \A i \in DOMAIN plan.steps : plan.steps[i].id \in StepIds
      BY <3>1, PlanDomain, ConstantsAssumption DEF Init
    <3>3. QED
      BY <3>1, <3>2 DEF Init, ReceiptChain, AtMostOncePerReceipt
  <2>2. QED
    BY <2>1, CallsBelongInit
<1>2. TypeOK /\ ControlOK /\ IInv /\ [Next]_vars
      => (ReceiptChain /\ AtMostOncePerReceipt)'
  <2> DEFINE Goal == (ReceiptChain /\ AtMostOncePerReceipt)'
  <2>1. SUFFICES ASSUME TypeOK, ControlOK, IInv, [Next]_vars,
                        cfg.mode = "RECEIPT_MODE_ACTIVE"
                 PROVE  Goal
    BY PlanKept DEF ReceiptChain, AtMostOncePerReceipt
  <2>2. /\ plan \in ThinkingPlan /\ Total \in Nat /\ idx \in 0..Total
        /\ DOMAIN plan.steps = 1..Total
        /\ \A i \in DOMAIN plan.steps : plan.steps[i].id \in StepIds
        /\ cfg' = cfg /\ calls \in [StepIds -> Nat]
        /\ execs \in Seq([step: StepIds, ok: BOOLEAN])
    BY <2>1, PlanLength, PlanDomain, PlanKept DEF TypeOK, PlanType, Total,
       HistoryType, RecordType
  <2>3. CASE /\ pc = "execute" /\ CountCall
             /\ TransitionTo("REFLECTING", "reflect")
             /\ UNCHANGED <<plan, idx, execs>>
    <3>1. pc' = "reflect"
      BY <2>1, <2>3, Transitions DEF TransitionTo, ControlOK
    <3>2. Len(execs) = idx /\ idx + 1 \in DOMAIN plan.steps
      BY <2>1, <2>2, <2>3 DEF ReceiptChain, TypeOK, PlanType
    <3>3. calls[Current.id] = 0 /\ Current.id \in StepIds
      BY <2>1, <2>2, <2>3, <3>2 DEF ReceiptChain, Current
    <3>4. calls' = [calls EXCEPT ![Current.id] = 1]
      BY <2>2, <2>3, <3>3 DEF CountCall
    <3>5. AtMostOncePerReceipt'
      BY <2>1, <2>2, <3>3, <3>4 DEF AtMostOncePerReceipt
    <3>6. ReceiptChain'
      <4>1. \A i \in DOMAIN plan.steps : i # idx + 1 => plan.steps[i].id # Current.id
        BY <2>1, <3>2 DEF CallsBelongToPlan, DistinctIds, Current
      <4>2. QED
        BY <2>1, <2>2, <2>3, <3>1, <3>2, <3>3, <3>4, <4>1 DEF ReceiptChain
    <3>7. QED
      BY <3>5, <3>6
  <2>4. CASE MissingTool \/ NotExecutableNow \/ ToolCallGovernorBlocks
    <3>1. pc = "execute" /\ UNCHANGED <<plan, idx, execs, calls>>
      BY <2>4 DEF MissingTool, NotExecutableNow, ToolCallGovernorBlocks,
         Reflecting, record
    <3>2. QED
      BY <2>1, <2>2, <3>1 DEF ReceiptChain, AtMostOncePerReceipt
  <2>5. CASE start_governed_step
    <3>1. Len(execs) = idx
      BY <2>1, <2>5 DEF start_governed_step, ReceiptMissing, HasReceipt
    <3>2. UNCHANGED <<plan, idx, execs, calls>> /\ pc = "loop" /\ pc' = "execute"
      BY <2>5 DEF start_governed_step, AtStep, record, history
    <3>3. QED
      BY <2>1, <2>2, <3>1, <3>2 DEF ReceiptChain, AtMostOncePerReceipt
  <2>6. CASE Reflect
    <3>1. /\ pc = "reflect" /\ pc' \notin {"execute", "reflect"}
          /\ Updates /\ calls' = calls
          /\ plan' = plan \/ \E f \in FollowupSteps : ExpandPlan(f)
      BY <2>6 DEF Reflect, ExpandPlan, AdvanceStep, RetryStep, WaitForUser,
         BlockAfterStep, ReplanAfterFailure, AllStepsDone, Return,
         TransitionTo, history
    <3>2. Len(execs') = idx + 1
      <4>1. Len(execs) = idx
        BY <2>1, <3>1 DEF ReceiptChain
      <4>2. execs' = Append(execs, [step |-> Current.id, ok |-> Succeeded])
        BY <2>1, <3>1 DEF Updates, append_execution
      <4>3. QED
        BY <2>2, <4>1, <4>2
    <3>3. CASE plan' = plan
      BY <2>1, <2>2, <3>1, <3>2, <3>3 DEF ReceiptChain, AtMostOncePerReceipt
    <3>4. ASSUME NEW f \in FollowupSteps, ExpandPlan(f) PROVE Goal
      <4>1. calls[f.id] = 0
        BY <2>1, <3>4, ExpandedPlan DEF CallsBelongToPlan
      <4>2. \A i \in DOMAIN plan.steps : calls[plan.steps[i].id] > 0 => i <= idx + 1
        BY <2>1, <2>2, <3>1 DEF ReceiptChain
      <4>3. \A i \in DOMAIN plan'.steps : calls[plan'.steps[i].id] > 0 => i <= idx + 1
        <5>1. SUFFICES ASSUME NEW i \in DOMAIN plan'.steps, calls[plan'.steps[i].id] > 0
                       PROVE  i <= idx + 1
          OBVIOUS
        <5>2. CASE i = Total + 1
          BY <2>1, <3>4, <4>1, <5>1, <5>2, ExpandedPlan
        <5>3. CASE i \in 1..Total
          BY <2>1, <3>4, <4>2, <5>1, <5>3, ExpandedPlan
        <5>4. QED
          BY <2>1, <3>4, <5>1, <5>2, <5>3, ExpandedPlan
      <4>4. QED
        BY <2>1, <2>2, <3>1, <3>2, <4>3 DEF ReceiptChain, AtMostOncePerReceipt
    <3>5. QED
      BY <3>1, <3>3, <3>4
  <2>7. ASSUME NEW p \in Replanned, ReplanToAnswer(p) \/ reset_for_replanned_plan(p)
        PROVE  Goal
    <3>1. pc' \notin {"execute", "reflect"}
      BY <2>7 DEF ReplanToAnswer, reset_for_replanned_plan, TransitionTo
    <3>2. \A i \in DOMAIN p.steps : p.steps[i].id \in StepIds
      BY PlanDomain, ConstantsAssumption
    <3>3. QED
      BY <2>7, <3>1, <3>2, ReplannedCalls DEF ReceiptChain, AtMostOncePerReceipt
  <2>8. CASE DeadlinePasses \/ UNCHANGED vars
    BY <2>1, <2>2, <2>8 DEF DeadlinePasses, vars, control, record, history,
       ReceiptChain, AtMostOncePerReceipt
  <2>9. CASE /\ UNCHANGED <<plan, execs, calls>> /\ pc # "reflect"
             /\ pc' \notin {"execute", "reflect"}
    BY <2>1, <2>2, <2>9 DEF ReceiptChain, AtMostOncePerReceipt
  <2>10. ASSUME \/ RunPastEnd \/ receipt_blocked \/ WaitForApproval
                \/ StepGovernorBlocks \/ finalize_completion
                \/ ReplannerRaises \/ continue_task_loop \/ CancelTask
                \/ \E p \in Replanned : ReplanRejected(p)
         PROVE  /\ UNCHANGED <<plan, execs, calls>> /\ pc # "reflect"
                /\ pc' \notin {"execute", "reflect"}
    BY <2>10 DEF RunPastEnd, receipt_blocked, WaitForApproval, AtStep, Waiting,
       StepGovernorBlocks, finalize_completion, CompletionReached,
       ReplanForObjective, BlockAtCompletion, ReplannerRaises,
       continue_task_loop, CancelTask, ReplanRejected, Return, TransitionTo,
       record, history
  <2>11. ASSUME \/ \E e \in ToolErrors : ToolFails(e)
                \/ \E base \in Attached, v \in BOOLEAN : ToolSucceeds(base, v)
         PROVE  /\ pc = "execute" /\ CountCall
                /\ TransitionTo("REFLECTING", "reflect")
                /\ UNCHANGED <<plan, idx, execs>>
    BY <2>11 DEF ToolFails, ToolSucceeds, MayCall, Reflecting, record
  <2>12. QED
    BY <2>1, <2>3, <2>4, <2>5, <2>6, <2>7, <2>8, <2>9, <2>10, <2>11
       DEF Next, Code, LoopHead, execute_step, Replan
<1>3. TypeOK /\ ControlOK /\ IInv /\ [Next]_vars => IInv'
  BY <1>2, CallsBelongStep
<1>4. IInv => AtMostOncePerReceipt
  OBVIOUS
<1>5. QED
  BY <1>1, <1>3, <1>4, TypeCorrect, PTL DEF Spec

\* The current step is about to be tried: at the head of the loop, in
\* execute_step, or waiting for its approval.
AtCurrentStep ==
    /\ pc \in {"loop", "execute"} \/ (Waiting /\ stop = "RISK_GATE_REQUIRED")
    /\ idx < Total

MaxRetries == Max2(0, cfg.max_retries)

\* Each call made for the current step but the last has used up a retry, and
\* no later step has been called.
AttemptsCounted ==
    /\ \A s \in StepIds : retries[s] <= MaxRetries
    /\ \A i \in DOMAIN plan.steps : i > idx + 1 => calls[plan.steps[i].id] = 0
    /\ AtCurrentStep => calls[Current.id] <= retries[Current.id]
    /\ pc = "reflect" => calls[Current.id] <= retries[Current.id] + 1

\* Reflection never hands out more retries than max_retries_per_step.
LEMMA RetriesBounded ==
    ASSUME TypeOK, pc = "reflect", Updates, cfg' = cfg,
           \A s \in StepIds : retries[s] <= MaxRetries
    PROVE  \A s \in StepIds : retries'[s] <= MaxRetries'
<1>1. MaxRetries \in Nat /\ MaxRetries' = MaxRetries
  BY DEF TypeOK, PlanType, Config, MaxRetries, Max2
<1>2. Current.id \in StepIds /\ retries \in [StepIds -> Nat]
  BY CurrentType DEF TypeOK, PlanType, ProgressType
<1>3. \/ retries' = NoRetries \/ retries' = retries
      \/ RetryLeft /\ retries' = [retries EXCEPT ![Current.id] = @ + 1]
  BY DEF Updates
<1>4. CASE retries' = NoRetries
  BY <1>1, <1>4 DEF NoRetries
<1>5. CASE RetryLeft /\ retries' = [retries EXCEPT ![Current.id] = @ + 1]
  BY <1>1, <1>2, <1>5 DEF RetryLeft, MaxRetries
<1>6. QED
  BY <1>1, <1>3, <1>4, <1>5

\* When the loop moves one step on, the step it comes to was never called.
LEMMA NextStepUncalled ==
    ASSUME plan \in ThinkingPlan, idx \in Nat, calls \in [StepIds -> Nat],
           retries' \in [StepIds -> Nat],
           idx' = idx + 1, plan' = plan, calls' = calls, AtCurrentStep',
           \A i \in DOMAIN plan.steps : i > idx + 1 => calls[plan.steps[i].id] = 0
    PROVE  calls'[Current'.id] <= retries'[Current'.id]
<1>1. Total \in Nat /\ Total' = Total /\ DOMAIN plan.steps = 1..Total
  BY PlanLength, PlanDomain DEF Total
<1>2. idx + 2 \in DOMAIN plan.steps
  BY <1>1 DEF AtCurrentStep
<1>3. calls[plan.steps[idx + 2].id] = 0 /\ plan.steps[idx + 2].id \in StepIds
  BY <1>2, PlanDomain
<1>4. Current' = plan.steps[idx + 2]
  BY DEF Current
<1>5. QED
  BY <1>3, <1>4

\* A tool is called at most max_retries_per_step + 1 times for a step of the
\* plan in force, whatever is approved or resumed in between.
THEOREM RetryBudgetHolds == Spec => []RetryBudget
<1> DEFINE IInv == CallsBelongToPlan /\ AttemptsCounted /\ RetryBudget
<1>1. Init => IInv
  <2>1. SUFFICES ASSUME Init PROVE AttemptsCounted /\ RetryBudget
    BY CallsBelongInit
  <2>2. /\ cfg \in Config
        /\ \A i \in DOMAIN plan.steps : plan.steps[i].id \in StepIds
        /\ idx < Total => Current.id \in StepIds
    BY <2>1, PlanDomain, InitTyped, CurrentType, ConstantsAssumption DEF Init
  <2>3. MaxRetries \in Nat
    BY <2>2 DEF Config, MaxRetries, Max2
  <2>4. QED
    BY <2>1, <2>2, <2>3 DEF Init, AttemptsCounted, AtCurrentStep, RetryBudget,
       MaxRetries, NoRetries
<1>2. TypeOK /\ ControlOK /\ IInv /\ [Next]_vars => (AttemptsCounted /\ RetryBudget)'
  <2> DEFINE Goal == (AttemptsCounted /\ RetryBudget)'
  <2>1. SUFFICES ASSUME TypeOK, ControlOK, IInv, [Next]_vars PROVE Goal
    OBVIOUS
  <2>2. /\ plan \in ThinkingPlan /\ Total \in Nat /\ idx \in 0..Total
        /\ DOMAIN plan.steps = 1..Total
        /\ \A i \in DOMAIN plan.steps : plan.steps[i].id \in StepIds
        /\ idx < Total => Current.id \in StepIds
        /\ cfg' = cfg /\ calls \in [StepIds -> Nat] /\ retries \in [StepIds -> Nat]
    BY <2>1, PlanLength, PlanDomain, PlanKept, CurrentType DEF TypeOK,
       PlanType, Total, HistoryType, ProgressType
  <2>3. MaxRetries \in Nat /\ MaxRetries' = MaxRetries
    BY <2>1, <2>2 DEF TypeOK, PlanType, Config, MaxRetries, Max2
  <2>4. UNCHANGED calls => RetryBudget'
    BY <2>1, <2>2 DEF RetryBudget
  <2>5. CASE /\ pc = "execute" /\ CountCall
             /\ TransitionTo("REFLECTING", "reflect")
             /\ UNCHANGED <<plan, idx, retries>>
    <3>1. pc' = "reflect" /\ ~AtCurrentStep'
      BY <2>1, <2>5, Transitions DEF TransitionTo, ControlOK, AtCurrentStep, Waiting
    <3>2. idx < Total /\ Current' = Current
      BY <2>1, <2>5 DEF TypeOK, PlanType, Current
    <3>3. calls[Current.id] <= retries[Current.id]
      BY <2>1, <2>5, <3>2 DEF AttemptsCounted, AtCurrentStep
    <3>4. calls' = [calls EXCEPT ![Current.id] = @ + 1]
      BY <2>5 DEF CountCall
    <3>5. RetryBudget'
      BY <2>1, <2>2, <2>3, <3>2, <3>3, <3>4 DEF RetryBudget, AttemptsCounted,
         MaxRetries
    <3>6. \A i \in DOMAIN plan.steps : i > idx + 1 => plan.steps[i].id # Current.id
      <4>1. DistinctIds(plan)
        BY <2>1 DEF CallsBelongToPlan
      <4>2. idx + 1 \in DOMAIN plan.steps /\ idx \in Nat
        BY <2>2, <3>2
      <4>3. Current = plan.steps[idx + 1]
        BY DEF Current
      <4>4. ASSUME NEW i \in DOMAIN plan.steps, i > idx + 1, plan.steps[i].id = Current.id
            PROVE  FALSE
        <5>1. i = idx + 1
          BY <4>1, <4>2, <4>3, <4>4 DEF DistinctIds
        <5>2. QED
          BY <4>2, <4>4, <5>1, <2>2
      <4>5. QED
        BY <4>4
    <3>7. AttemptsCounted'
      <4>1. calls'[Current'.id] <= retries'[Current'.id] + 1
        BY <2>2, <2>5, <3>2, <3>3, <3>4
      <4>2. \A i \in DOMAIN plan.steps : i > idx + 1 => calls'[plan.steps[i].id] = 0
        BY <2>1, <2>2, <3>2, <3>4, <3>6 DEF AttemptsCounted
      <4>3. \A s \in StepIds : retries'[s] <= MaxRetries'
        BY <2>1, <2>3, <2>5 DEF AttemptsCounted
      <4>4. QED
        BY <2>5, <3>1, <4>1, <4>2, <4>3 DEF AttemptsCounted
    <3>8. QED
      BY <3>5, <3>7
  <2>6. CASE MissingTool \/ NotExecutableNow \/ ToolCallGovernorBlocks
    <3>1. /\ pc = "execute" /\ UNCHANGED <<plan, idx, retries, calls>>
          /\ TransitionTo("REFLECTING", "reflect")
      BY <2>6 DEF MissingTool, NotExecutableNow, ToolCallGovernorBlocks,
         Reflecting, progress
    <3>2. pc' = "reflect" /\ ~AtCurrentStep'
      BY <2>1, <3>1, Transitions DEF TransitionTo, ControlOK, AtCurrentStep, Waiting
    <3>3. idx < Total /\ Current' = Current
      BY <2>1, <3>1 DEF TypeOK, PlanType, Current
    <3>4. calls[Current.id] <= retries[Current.id] /\ Current.id \in StepIds
      BY <2>1, <2>2, <3>1, <3>3 DEF AttemptsCounted, AtCurrentStep
    <3>5. calls'[Current'.id] <= retries'[Current'.id] + 1
      BY <2>2, <3>1, <3>3, <3>4
    <3>6. /\ \A s \in StepIds : retries'[s] <= MaxRetries'
          /\ \A i \in DOMAIN plan'.steps : i > idx' + 1 => calls'[plan'.steps[i].id] = 0
      BY <2>1, <2>3, <3>1 DEF AttemptsCounted
    <3>7. QED
      BY <2>4, <3>1, <3>2, <3>5, <3>6 DEF AttemptsCounted
  <2>7. CASE start_governed_step \/ WaitForApproval
    <3>1. pc = "loop" /\ idx < Total /\ pc' # "reflect"
          /\ UNCHANGED <<plan, idx, retries, calls>>
      BY <2>7 DEF start_governed_step, WaitForApproval, AtStep, Return,
         TransitionTo, progress, history
    <3>2. Current' = Current
      BY <3>1 DEF Current
    <3>3. QED
      BY <2>1, <2>2, <2>3, <2>4, <3>1, <3>2 DEF AttemptsCounted, AtCurrentStep
  <2>8. CASE Reflect
    <3>1. /\ pc = "reflect" /\ pc' # "reflect" /\ Updates /\ UNCHANGED calls
          /\ idx < Total
      BY <2>1, <2>8 DEF Reflect, ExpandPlan, AdvanceStep, RetryStep,
         WaitForUser, BlockAfterStep, ReplanAfterFailure, AllStepsDone, Return,
         TransitionTo, history, TypeOK, PlanType
    <3>2. /\ \A s \in StepIds : retries'[s] <= MaxRetries'
          /\ retries' \in [StepIds -> Nat]
      BY <2>1, <2>2, <3>1, RetriesBounded, UpdatesTyped DEF AttemptsCounted
    <3>3. ASSUME NEW f \in FollowupSteps, ExpandPlan(f) PROVE Goal
      <4>1. idx + 1 = Total /\ idx' = idx + 1
        BY <3>3 DEF ExpandPlan
      <4>2. Current'.id = f.id /\ f.id \in StepIds /\ calls[f.id] = 0
        BY <2>1, <2>2, <3>3, <4>1, ExpandedPlan DEF CallsBelongToPlan, Current
      <4>3. DOMAIN plan'.steps = 1..(idx' + 1)
        BY <2>1, <3>3, <4>1, ExpandedPlan
      <4>4. \A i \in DOMAIN plan'.steps : ~(i > idx' + 1)
        BY <2>2, <4>1, <4>3
      <4>5. QED
        BY <2>4, <3>1, <3>2, <4>2, <4>4 DEF AttemptsCounted
    <3>4. CASE AdvanceStep
      <4>1. idx' = idx + 1 /\ plan' = plan
        BY <3>4 DEF AdvanceStep
      <4>2. \A i \in DOMAIN plan.steps : i > idx + 1 => calls[plan.steps[i].id] = 0
        BY <2>1 DEF AttemptsCounted
      <4>3. AtCurrentStep' => calls'[Current'.id] <= retries'[Current'.id]
        BY <2>2, <3>1, <3>2, <4>1, <4>2, NextStepUncalled
      <4>4. \A i \in DOMAIN plan'.steps : i > idx' + 1 => calls'[plan'.steps[i].id] = 0
        BY <2>2, <3>1, <4>1, <4>2
      <4>5. QED
        BY <2>4, <3>1, <3>2, <4>3, <4>4 DEF AttemptsCounted
    <3>5. CASE RetryStep
      <4>1. RetryLeft /\ ~StepBudgetSpent /\ outcome # "skipped" /\ ~NoProgress
            /\ ~Succeeded
        BY <3>5 DEF RetryStep, evaluate
      <4>2. retries' = [retries EXCEPT ![Current.id] = @ + 1]
        BY <3>1, <4>1 DEF Updates
      <4>3. UNCHANGED <<plan, idx>> /\ Current' = Current
        BY <3>5 DEF RetryStep, Current
      <4>4. calls'[Current'.id] <= retries'[Current'.id]
        BY <2>1, <2>2, <3>1, <4>2, <4>3 DEF AttemptsCounted
      <4>5. QED
        BY <2>1, <2>4, <3>1, <3>2, <4>3, <4>4 DEF AttemptsCounted
    <3>6. CASE WaitForUser \/ BlockAfterStep \/ ReplanAfterFailure \/ AllStepsDone
      <4>1. evaluate[1] = "WAITING" => evaluate[2] # "RISK_GATE_REQUIRED"
        BY DEF evaluate
      <4>2. ~AtCurrentStep' /\ plan' = plan /\ (idx' = idx \/ idx' = idx + 1)
        BY <2>1, <3>1, <3>6, <4>1, Transitions DEF WaitForUser, BlockAfterStep,
           ReplanAfterFailure, AllStepsDone, Return, TransitionTo, ControlOK,
           AtCurrentStep, Waiting
      <4>3. \A i \in DOMAIN plan.steps : i > idx + 1 => calls[plan.steps[i].id] = 0
        BY <2>1 DEF AttemptsCounted
      <4>4. \A i \in DOMAIN plan'.steps : i > idx' + 1 => calls'[plan'.steps[i].id] = 0
        BY <2>2, <3>1, <4>2, <4>3
      <4>5. QED
        BY <2>4, <3>1, <3>2, <4>2, <4>4 DEF AttemptsCounted
    <3>7. QED
      BY <2>8, <3>3, <3>4, <3>5, <3>6 DEF Reflect
  <2>9. ASSUME NEW p \in Replanned, ReplanToAnswer(p) \/ reset_for_replanned_plan(p)
        PROVE  Goal
    <3>1. pc' # "reflect"
      BY <2>9 DEF ReplanToAnswer, reset_for_replanned_plan, TransitionTo
    <3>2. \A i \in DOMAIN p.steps : p.steps[i].id \in StepIds
      BY PlanDomain, ConstantsAssumption
    <3>3. AtCurrentStep' => Current'.id \in StepIds
      BY <2>1, ControlTyped, RecordTyped, ProgressTyped, HistoryTyped,
         PlanDomain, PlanLength DEF TypeOK, PlanType, AtCurrentStep, Current, Total
    <3>4. QED
      BY <2>3, <2>9, <3>1, <3>2, <3>3, ReplannedCalls DEF AttemptsCounted,
         RetryBudget, MaxRetries, NoRetries
  <2>10. CASE continue_task_loop
    <3>1. /\ idx < Total /\ pc' # "reflect"
          /\ UNCHANGED <<plan, retries, calls>>
          /\ IF stop = "RISK_GATE_REQUIRED" THEN idx' = idx ELSE idx' = idx + 1
      BY <2>1, <2>2, <2>10 DEF continue_task_loop, resume_index, Min2,
         ControlOK, TransitionTo, progress
    <3>2. CASE stop = "RISK_GATE_REQUIRED"
      <4>1. calls[Current.id] <= retries[Current.id] /\ Current' = Current
        BY <2>1, <2>10, <3>1, <3>2 DEF continue_task_loop, AttemptsCounted,
           AtCurrentStep, Current
      <4>2. QED
        BY <2>1, <2>2, <2>3, <2>4, <3>1, <3>2, <4>1 DEF AttemptsCounted
    <3>3. CASE stop # "RISK_GATE_REQUIRED"
      <4>1. idx' = idx + 1 /\ plan' = plan
        BY <3>1, <3>3
      <4>2. \A i \in DOMAIN plan.steps : i > idx + 1 => calls[plan.steps[i].id] = 0
        BY <2>1 DEF AttemptsCounted
      <4>3. AtCurrentStep' => calls'[Current'.id] <= retries'[Current'.id]
        BY <2>2, <3>1, <4>1, <4>2, NextStepUncalled
      <4>4. \A i \in DOMAIN plan'.steps : i > idx' + 1 => calls'[plan'.steps[i].id] = 0
        BY <2>2, <3>1, <4>1, <4>2
      <4>5. \A s \in StepIds : retries'[s] <= MaxRetries'
        BY <2>1, <2>3, <3>1 DEF AttemptsCounted
      <4>6. QED
        BY <2>4, <3>1, <4>3, <4>4, <4>5 DEF AttemptsCounted
    <3>4. QED
      BY <3>2, <3>3
  <2>11. CASE DeadlinePasses \/ UNCHANGED vars
    <3>1. UNCHANGED <<plan, idx, state, stop, pc, retries, calls>>
      BY <2>11 DEF DeadlinePasses, vars, control, progress, history
    <3>2. QED
      BY <2>1, <2>2, <2>3, <2>4, <3>1 DEF AttemptsCounted, AtCurrentStep,
         Waiting, Current, Total
  <2>12. CASE /\ UNCHANGED <<plan, idx, retries, calls>>
              /\ pc' # "reflect" /\ ~AtCurrentStep'
    BY <2>1, <2>2, <2>3, <2>4, <2>12 DEF AttemptsCounted
  <2>13. ASSUME \/ RunPastEnd \/ receipt_blocked \/ StepGovernorBlocks
                \/ finalize_completion \/ ReplannerRaises \/ CancelTask
                \/ \E p \in Replanned : ReplanRejected(p)
         PROVE  /\ UNCHANGED <<plan, idx, retries, calls>>
                /\ pc' # "reflect" /\ ~AtCurrentStep'
    BY <2>1, <2>13 DEF RunPastEnd, receipt_blocked, StepGovernorBlocks,
       finalize_completion, CompletionReached, ReplanForObjective,
       BlockAtCompletion, ReplannerRaises, CancelTask, ReplanRejected, Return,
       TransitionTo, ControlOK, AtCurrentStep, Waiting, control, progress, history
  <2>14. ASSUME \/ \E e \in ToolErrors : ToolFails(e)
                \/ \E base \in Attached, v \in BOOLEAN : ToolSucceeds(base, v)
         PROVE  /\ pc = "execute" /\ CountCall
                /\ TransitionTo("REFLECTING", "reflect")
                /\ UNCHANGED <<plan, idx, retries>>
    BY <2>14 DEF ToolFails, ToolSucceeds, MayCall, Reflecting, progress
  <2>15. QED
    BY <2>1, <2>5, <2>6, <2>7, <2>8, <2>9, <2>10, <2>11, <2>12, <2>13, <2>14
       DEF Next, Code, LoopHead, execute_step, Replan
<1>3. TypeOK /\ ControlOK /\ IInv /\ [Next]_vars => IInv'
  BY <1>2, CallsBelongStep
<1>4. IInv => RetryBudget
  OBVIOUS
<1>5. QED
  BY <1>1, <1>3, <1>4, TypeCorrect, PTL DEF Spec
=============================================================================
