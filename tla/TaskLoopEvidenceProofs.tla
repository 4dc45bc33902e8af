----------------------- MODULE TaskLoopEvidenceProofs -----------------------
(***************************************************************************)
(* What a completed task has done, for every set of plans, settings and    *)
(* tools: its steps were run under the plan in force or passed by the      *)
(* user, and evidence handed on as validated was earned step by step.      *)
(*                                                                         *)
(* The argument is about the steps before the index while the plan in      *)
(* force is being worked on (Working): each has left a result of this plan *)
(* (StepDone) and, as long as the user was not asked, a call and a         *)
(* structural verdict that stands for the evidence it declares             *)
(* (StepEarned).  The index reaches the end of the plan before the task    *)
(* completes (EndReached), and what the current step has produced is known *)
(* until reflection files it (ResultKept).                                 *)
(***************************************************************************)
EXTENDS TaskLoopSafetyProofs

(***************************************************************************)
(* The invariant.                                                          *)
(***************************************************************************)
\* The plan in force is being worked on, waits, or is complete.
Working ==
    \/ pc \in {"loop", "execute", "reflect", "finalize"}
    \/ Waiting
    \/ pc = "returned" /\ status = "COMPLETE"

\* An artifact of step s under the plan in force.
ArtifactHere(a, s) == a \in artifacts /\ a.step = s.id /\ a.run = replans

StepDone(s) ==
    \/ s.id \in passed
    \/ \E a \in artifacts : ArtifactHere(a, s) /\ a.tool = s.tool /\ a.tag = "tool_result"

HasEvidence(s) ==
    \A t \in Produces[s.tool] : \E a \in artifacts : ArtifactHere(a, s) /\ a.tag = t /\ a.valid

StepsDone == Working => \A i \in 1..idx : StepDone(plan.steps[i])

\* One structural verdict and one call or more for each step so far.
StepsEarned ==
    Working /\ caller = "start" =>
        /\ Len(structural) = idx + (IF pc = "reflect" /\ Succeeded THEN 1 ELSE 0)
        /\ \A i \in 1..idx : /\ calls[plan.steps[i].id] >= 1
                             /\ structural[i] => HasEvidence(plan.steps[i])

\* The result being reflected on is that of the current step.
ResultKept ==
    pc = "reflect" /\ Succeeded =>
        /\ ArtifactOf("tool_result", FALSE) \in produced
        /\ calls[Current.id] >= 1
        /\ structural # << >>
        /\ structural[Len(structural)] =>
              \A t \in Produces[Current.tool] : ArtifactOf(t, TRUE) \in produced

\* A task completes at the end of its plan, and stays so.
EndReached ==
    /\ pc = "finalize" => idx = Total
    /\ status = "COMPLETE" => pc = "returned" /\ state = "COMPLETED" /\ idx = Total

EvidenceInv == StepsDone /\ StepsEarned /\ ResultKept /\ EndReached

(***************************************************************************)
(* The kinds of steps, as far as the invariant can tell them apart.        *)
(***************************************************************************)
\* The plan is no longer worked on.
Leaves == ~Working'

\* A step of the loop that does not move the index.
Idles ==
    /\ Working /\ pc' # "reflect" /\ (pc = "reflect" => ~Succeeded)
    /\ UNCHANGED <<plan, idx, replans, caller, passed, calls, structural>>
    /\ artifacts \subseteq artifacts'

\* The step was executed; only a success leaves something behind.
Executes ==
    /\ pc = "execute"
    /\ UNCHANGED <<plan, idx, artifacts, replans, caller, passed>>
    /\ \/ outcome' # "success" /\ structural' = structural /\ (calls' = calls \/ CountCall)
       \/ \E base \in Attached, v \in BOOLEAN : ToolSucceeds(base, v)

\* The current step succeeded, and its result is filed.
Advances ==
    /\ pc = "reflect" /\ Succeeded /\ pc' # "reflect"
    /\ idx' = idx + 1
    /\ artifacts' = artifacts \cup produced
    /\ \A i \in 1..(idx + 1) : plan'.steps[i] = plan.steps[i]
    /\ UNCHANGED <<replans, caller, passed, calls, structural>>

\* The user has answered.
Resumes ==
    /\ Waiting /\ pc' = "loop" /\ caller' = "continue"
    /\ UNCHANGED <<plan, artifacts, replans>>
    /\ passed \subseteq passed'
    /\ \/ idx' = idx
       \/ idx' = idx + 1 /\ Current.id \in passed'

\* A new plan is taken up.
StartsOver == pc' = "loop" /\ idx' = 0 /\ structural' = << >>

Stays ==
    UNCHANGED <<pc, state, status, plan, idx, artifacts, replans, caller, passed, calls,
                structural, outcome, produced>>

LEMMA ExecuteKinds ==
    ASSUME TypeOK, execute_step
    PROVE  Executes
<1>1. CASE MissingTool \/ NotExecutableNow \/ ToolCallGovernorBlocks
  BY <1>1 DEF MissingTool, NotExecutableNow, ToolCallGovernorBlocks, Reflecting,
     Executes, record, budget
<1>2. ASSUME NEW e \in ToolErrors, ToolFails(e) PROVE Executes
  <2>1. e # "success"
    BY ConstantsAssumption
  <2>2. QED
    BY <1>2, <2>1 DEF ToolFails, MayCall, Reflecting, Executes, record, budget
<1>3. ASSUME NEW base \in Attached, NEW v \in BOOLEAN, ToolSucceeds(base, v)
      PROVE  Executes
  BY <1>3 DEF ToolSucceeds, MayCall, Reflecting, Executes, record, budget
<1>4. QED
  BY <1>1, <1>2, <1>3 DEF execute_step

\* What reflection decides tells whether the step succeeded.
LEMMA EvaluateOutcome ==
    /\ evaluate[1] = "WAITING" => ~Succeeded
    /\ evaluate[1] = "COMPLETED" => Succeeded /\ idx + 1 >= Total
BY DEF evaluate, Succeeded

LEMMA ReflectKinds ==
    ASSUME TypeOK, ControlOK, Reflect
    PROVE  Leaves \/ Idles \/ Advances
<1>1. ASSUME NEW f \in FollowupSteps, ExpandPlan(f) PROVE Advances
  <2>1. /\ Total \in Nat /\ idx + 1 = Total
        /\ \A i \in 1..Total : plan'.steps[i] = plan.steps[i]
    BY <1>1, ExpandedPlan DEF ExpandPlan
  <2>2. QED
    BY <1>1, <2>1, Transitions DEF ExpandPlan, TransitionTo, Updates, Advances, history
<1>2. CASE AdvanceStep
  BY <1>2 DEF AdvanceStep, TransitionTo, Updates, Advances, history
<1>3. CASE RetryStep
  BY <1>3 DEF RetryStep, TransitionTo, Updates, Idles, Working, history
<1>4. CASE WaitForUser
  BY <1>4, EvaluateOutcome DEF WaitForUser, Return, TransitionTo, Updates, Idles,
     Working, history
<1>5. CASE BlockAfterStep
  BY <1>5 DEF BlockAfterStep, Return, TransitionTo, Leaves, Working, Waiting
<1>6. CASE ReplanAfterFailure
  BY <1>6 DEF ReplanAfterFailure, TransitionTo, Leaves, Working, Waiting
<1>7. CASE AllStepsDone
  BY <1>7, EvaluateOutcome DEF AllStepsDone, TransitionTo, Updates, Advances, history
<1>8. QED
  BY <1>1, <1>2, <1>3, <1>4, <1>5, <1>6, <1>7, Zenon DEF Reflect

LEMMA StepKinds ==
    ASSUME TypeOK, ControlOK, [Next]_vars
    PROVE  Leaves \/ Idles \/ Executes \/ Advances \/ Resumes \/ StartsOver \/ Stays
<1>1. CASE RunPastEnd \/ receipt_blocked \/ StepGovernorBlocks
  BY <1>1, Transitions DEF RunPastEnd, receipt_blocked, StepGovernorBlocks, AtStep,
     ControlOK, Return, TransitionTo, Leaves, Working, Waiting
<1>2. CASE WaitForApproval \/ start_governed_step
  BY <1>2 DEF WaitForApproval, start_governed_step, AtStep, Return, TransitionTo,
     Idles, Working, record, budget, history
<1>3. CASE CompletionReached
  BY <1>3 DEF CompletionReached, Idles, Working, control, record, budget, history
<1>4. CASE ReplanForObjective \/ BlockAtCompletion
  BY <1>4 DEF ReplanForObjective, BlockAtCompletion, Return, TransitionTo, Leaves,
     Working, Waiting
<1>5. ASSUME NEW p \in Replanned, ReplanRejected(p) \/ ReplanToAnswer(p)
      PROVE  Leaves
  BY <1>5 DEF ReplanRejected, ReplanToAnswer, Return, TransitionTo, Leaves, Working,
     Waiting
<1>6. ASSUME NEW p \in Replanned, reset_for_replanned_plan(p)
      PROVE  StartsOver
  BY <1>6, Transitions DEF reset_for_replanned_plan, ClearPlanProgress, TransitionTo,
     StartsOver, ControlOK
<1>7. CASE ReplannerRaises \/ CancelTask
  BY <1>7 DEF ReplannerRaises, CancelTask, Return, TransitionTo, Leaves, Working,
     Waiting
<1>8. CASE continue_task_loop
  <2>1. idx < Total /\ pending = Current.id /\ idx \in Nat /\ Total \in Nat
    BY <1>8, PlanLength DEF continue_task_loop, ControlOK, TypeOK, PlanType, Total
  <2>2. resume_index = IF stop = "RISK_GATE_REQUIRED" THEN idx ELSE idx + 1
    BY <2>1 DEF resume_index, Min2
  <2>3. QED
    BY <1>8, <2>1, <2>2, Transitions DEF continue_task_loop, TransitionTo, Resumes,
       Waiting, record, budget
<1>9. CASE DeadlinePasses \/ UNCHANGED vars
  BY <1>9 DEF DeadlinePasses, vars, Stays, control, record, budget, result, history
<1>10. QED
  BY <1>1, <1>2, <1>3, <1>4, <1>5, <1>6, <1>7, <1>8, <1>9, ExecuteKinds, ReflectKinds,
     Zenon DEF Next, Code, LoopHead, finalize_completion, Replan

(***************************************************************************)
(* The steps.                                                              *)
(***************************************************************************)
\* The index stays within the plan.
LEMMA IndexRange ==
    ASSUME TypeOK
    PROVE  /\ idx \in Nat /\ Total \in Nat /\ idx <= Total
           /\ pc \in {"execute", "reflect"} => idx < Total
BY PlanLength DEF TypeOK, PlanType, Total

\* The steps before the index keep what they have while the plan is the same;
\* the current one is filed under its id and tool.
LEMMA StepsDoneStep ==
    ASSUME TypeOK, ControlOK, StepsDone, ResultKept, [Next]_vars
    PROVE  StepsDone'
<1>1. CASE Leaves
  BY <1>1 DEF Leaves, StepsDone
<1>2. CASE Idles \/ Executes
  <2>1. /\ Working /\ UNCHANGED <<plan, idx, replans, passed>>
        /\ artifacts \subseteq artifacts'
    BY <1>2 DEF Idles, Executes, Working
  <2>2. QED
    BY <2>1 DEF StepsDone, StepDone, ArtifactHere
<1>3. CASE Advances
  <2>1. /\ Working /\ idx' = idx + 1 /\ replans' = replans /\ passed' = passed
        /\ artifacts' = artifacts \cup produced
        /\ \A i \in 1..(idx + 1) : plan'.steps[i] = plan.steps[i]
    BY <1>3 DEF Advances, Working
  <2>2. SUFFICES ASSUME NEW i \in 1..(idx + 1)
                 PROVE  StepDone(plan.steps[i])'
    BY <2>1 DEF StepsDone
  <2>3. plan'.steps[i] = plan.steps[i]
    BY <2>1
  <2>4. CASE i \in 1..idx
    BY <2>1, <2>3, <2>4 DEF StepsDone, StepDone, ArtifactHere
  <2>5. CASE i = idx + 1
    <3>1. ArtifactOf("tool_result", FALSE) \in artifacts'
      BY <1>3, <2>1 DEF Advances, ResultKept
    <3>2. QED
      BY <2>1, <2>3, <2>5, <3>1 DEF ArtifactOf, Current, StepDone, ArtifactHere
  <2>6. QED
    BY <2>4, <2>5, IndexRange
<1>4. CASE Resumes
  <2>1. /\ Working /\ UNCHANGED <<plan, artifacts, replans>> /\ passed \subseteq passed'
        /\ \/ idx' = idx
           \/ idx' = idx + 1 /\ plan.steps[idx + 1].id \in passed'
    BY <1>4 DEF Resumes, Working, Current
  <2>2. SUFFICES ASSUME NEW i \in 1..idx'
                 PROVE  StepDone(plan.steps[i])'
    BY DEF StepsDone
  <2>3. CASE i \in 1..idx
    BY <2>1, <2>3 DEF StepsDone, StepDone, ArtifactHere
  <2>4. CASE i = idx + 1 /\ idx' = idx + 1
    BY <2>1, <2>4 DEF StepDone
  <2>5. QED
    BY <2>1, <2>3, <2>4, IndexRange
<1>5. CASE StartsOver
  BY <1>5 DEF StartsOver, StepsDone
<1>6. CASE Stays
  BY <1>6 DEF Stays, StepsDone, Working, Waiting, StepDone, ArtifactHere
<1>7. QED
  BY <1>1, <1>2, <1>3, <1>4, <1>5, <1>6, StepKinds

\* A call leaves its artifacts, and one verdict behind the earlier ones.
LEMMA ResultKeptStep ==
    ASSUME TypeOK, ControlOK, ResultKept, [Next]_vars
    PROVE  ResultKept'
<1>1. CASE Leaves \/ Idles \/ Advances \/ Resumes \/ StartsOver
  BY <1>1 DEF Leaves, Idles, Advances, Resumes, StartsOver, Working, ResultKept
<1>2. CASE Executes
  <2>1. CASE outcome' # "success"
    BY <2>1 DEF ResultKept, Succeeded
  <2>2. ASSUME NEW base \in Attached, NEW v \in BOOLEAN, ToolSucceeds(base, v)
        PROVE  ResultKept'
    <3>1. /\ structural' = Append(structural, v) /\ structural \in Seq(BOOLEAN)
          /\ CountCall /\ UNCHANGED <<plan, idx, replans>>
          /\ produced' = {ArtifactOf(t, FALSE) : t \in base \cup {"tool_result"}}
                         \cup {ArtifactOf(t, TRUE) :
                                 t \in IF v THEN Produces[Current.tool] ELSE {}}
      BY <2>2 DEF ToolSucceeds, Reflecting, TypeOK, RecordType, budget
    <3>2. UNCHANGED Current /\ \A t, ok : ArtifactOf(t, ok)' = ArtifactOf(t, ok)
      BY <3>1 DEF Current, ArtifactOf
    <3>3. structural' # << >> /\ structural'[Len(structural')] = v
      BY <3>1
    <3>4. calls'[Current.id] >= 1
      <4>1. Current.id \in StepIds /\ calls \in [StepIds -> Nat]
        BY <2>2, CurrentType, IndexRange DEF ToolSucceeds, MayCall, TypeOK, HistoryType
      <4>2. QED
        BY <3>1, <4>1 DEF CountCall
    <3>5. ArtifactOf("tool_result", FALSE) \in produced'
      BY <3>1
    <3>6. v => \A t \in Produces[Current.tool] : ArtifactOf(t, TRUE) \in produced'
      BY <3>1
    <3>7. QED
      BY <3>2, <3>3, <3>4, <3>5, <3>6 DEF ResultKept
  <2>3. QED
    BY <1>2, <2>1, <2>2 DEF Executes
<1>3. CASE Stays
  BY <1>3 DEF Stays, ResultKept, Succeeded, ArtifactOf, Current
<1>4. QED
  BY <1>1, <1>2, <1>3, StepKinds

\* While the user is not asked, every step is called and judged once.
LEMMA StepsEarnedStep ==
    ASSUME TypeOK, ControlOK, StepsEarned, ResultKept, [Next]_vars
    PROVE  StepsEarned'
<1>1. CASE Leaves \/ Resumes
  BY <1>1 DEF Leaves, Resumes, StepsEarned
<1>2. CASE Idles
  <2>1. /\ Working /\ UNCHANGED <<plan, idx, replans, caller, calls, structural>>
        /\ artifacts \subseteq artifacts' /\ pc' # "reflect"
        /\ ~(pc = "reflect" /\ Succeeded)
    BY <1>2 DEF Idles
  <2>2. QED
    BY <2>1 DEF StepsEarned, HasEvidence, ArtifactHere
<1>3. CASE Executes
  <2>1. /\ Working /\ pc = "execute"
        /\ UNCHANGED <<plan, idx, artifacts, replans, caller>>
    BY <1>3 DEF Executes, Working
  <2>2. SUFFICES ASSUME caller = "start", Working'
                 PROVE  /\ Len(structural)' =
                              idx + (IF pc' = "reflect" /\ outcome' = "success" THEN 1 ELSE 0)
                        /\ \A i \in 1..idx :
                              /\ calls'[plan.steps[i].id] >= 1
                              /\ structural'[i] => HasEvidence(plan.steps[i])
    BY <2>1 DEF StepsEarned, Succeeded, HasEvidence, ArtifactHere
  <2>3. /\ Len(structural) = idx
        /\ \A i \in 1..idx : /\ calls[plan.steps[i].id] >= 1
                             /\ structural[i] => HasEvidence(plan.steps[i])
    BY <2>1, <2>2, IndexRange DEF StepsEarned
  <2>4. \A i \in 1..idx : calls'[plan.steps[i].id] >= 1
    <3>1. calls' = calls \/ CountCall
      BY <1>3 DEF Executes, ToolSucceeds
    <3>2. CASE CountCall
      <4>1. /\ Current.id \in StepIds /\ calls \in [StepIds -> Nat]
            /\ \A i \in 1..idx : plan.steps[i].id \in StepIds
        BY <2>1, CurrentType, IndexRange, PlanDomain DEF TypeOK, HistoryType, PlanType,
           Total
      <4>2. QED
        BY <2>3, <3>2, <4>1 DEF CountCall
    <3>3. QED
      BY <2>3, <3>1, <3>2
  <2>5. CASE outcome' # "success" /\ structural' = structural
    BY <2>3, <2>4, <2>5, IndexRange
  <2>6. ASSUME NEW base \in Attached, NEW v \in BOOLEAN, ToolSucceeds(base, v)
        PROVE  /\ Len(structural)' = idx + 1
               /\ pc' = "reflect" /\ outcome' = "success"
               /\ \A i \in 1..idx : structural'[i] = structural[i]
    <3>1. /\ structural' = Append(structural, v) /\ structural \in Seq(BOOLEAN)
          /\ outcome' = "success" /\ pc' = "reflect"
      BY <2>1, <2>6, Transitions DEF ToolSucceeds, Reflecting, TransitionTo, TypeOK,
         RecordType, ControlOK
    <3>2. QED
      BY <2>3, <3>1, IndexRange
  <2>7. QED
    BY <1>3, <2>3, <2>4, <2>5, <2>6 DEF Executes
<1>4. CASE Advances
  <2>1. /\ Working /\ pc = "reflect" /\ Succeeded /\ pc' # "reflect" /\ idx' = idx + 1
        /\ UNCHANGED <<replans, caller, calls, structural>>
        /\ artifacts' = artifacts \cup produced
        /\ \A i \in 1..(idx + 1) : plan'.steps[i] = plan.steps[i]
    BY <1>4 DEF Advances, Working
  <2>2. SUFFICES ASSUME caller = "start"
                 PROVE  /\ Len(structural) = idx + 1
                        /\ \A i \in 1..(idx + 1) :
                              /\ calls[plan.steps[i].id] >= 1
                              /\ structural[i] => HasEvidence(plan.steps[i])'
    BY <2>1, IndexRange DEF StepsEarned, HasEvidence, ArtifactHere
  <2>3. /\ Len(structural) = idx + 1
        /\ \A i \in 1..idx : /\ calls[plan.steps[i].id] >= 1
                             /\ structural[i] => HasEvidence(plan.steps[i])
    BY <2>1, <2>2 DEF StepsEarned
  <2>4. SUFFICES ASSUME NEW i \in 1..(idx + 1)
                 PROVE  /\ calls[plan.steps[i].id] >= 1
                        /\ structural[i] => HasEvidence(plan.steps[i])'
    BY <2>3
  <2>5. plan'.steps[i] = plan.steps[i]
    BY <2>1
  <2>6. CASE i \in 1..idx
    BY <2>1, <2>3, <2>5, <2>6 DEF HasEvidence, ArtifactHere
  <2>7. CASE i = idx + 1
    <3>1. /\ calls[Current.id] >= 1 /\ plan.steps[i] = Current
          /\ structural[i] =>
                \A t \in Produces[Current.tool] : ArtifactOf(t, TRUE) \in artifacts'
      BY <2>1, <2>3, <2>7 DEF ResultKept, Current
    <3>2. ASSUME structural[i], NEW t \in Produces[Current.tool]
          PROVE  \E a \in artifacts' : /\ a.step = Current.id /\ a.run = replans'
                                       /\ a.tag = t /\ a.valid
      BY <2>1, <3>1, <3>2 DEF ArtifactOf
    <3>3. QED
      BY <2>5, <3>1, <3>2 DEF HasEvidence, ArtifactHere
  <2>8. QED
    BY <2>6, <2>7, IndexRange
<1>5. CASE StartsOver
  BY <1>5 DEF StartsOver, StepsEarned
<1>6. CASE Stays
  BY <1>6 DEF Stays, StepsEarned, Working, Waiting, Succeeded, HasEvidence, ArtifactHere
<1>7. QED
  BY <1>1, <1>2, <1>3, <1>4, <1>5, <1>6, StepKinds

\* Only the last step leads to the completion gate, and only the gate
\* completes a task.
LEMMA EndReachedStep ==
    ASSUME TypeOK, ControlOK, EndReached, [Next]_vars
    PROVE  EndReached'
<1>1. CASE RunPastEnd \/ receipt_blocked \/ StepGovernorBlocks \/ WaitForApproval
  BY <1>1, Transitions DEF RunPastEnd, receipt_blocked, StepGovernorBlocks, AtStep,
     WaitForApproval, Return, TransitionTo, ControlOK, EndReached
<1>2. CASE start_governed_step
  BY <1>2 DEF start_governed_step, AtStep, EndReached
<1>3. CASE execute_step
  BY <1>3 DEF execute_step, MissingTool, NotExecutableNow, ToolCallGovernorBlocks,
     ToolFails, ToolSucceeds, MayCall, Reflecting, TransitionTo, EndReached
<1>4. ASSUME NEW f \in FollowupSteps, ExpandPlan(f) PROVE EndReached'
  BY <1>4 DEF ExpandPlan, TransitionTo, EndReached
<1>5. CASE AdvanceStep \/ RetryStep \/ ReplanAfterFailure
  BY <1>5 DEF AdvanceStep, RetryStep, ReplanAfterFailure, TransitionTo, EndReached
<1>6. CASE WaitForUser \/ BlockAfterStep
  BY <1>6 DEF WaitForUser, BlockAfterStep, Return, TransitionTo, EndReached
<1>7. CASE AllStepsDone
  BY <1>7, EvaluateOutcome, IndexRange DEF AllStepsDone, TransitionTo, EndReached, Total
<1>8. CASE CompletionReached
  BY <1>8 DEF CompletionReached, ControlOK, EndReached, control, Total
<1>9. CASE ReplanForObjective \/ BlockAtCompletion
  BY <1>9 DEF ReplanForObjective, BlockAtCompletion, Return, TransitionTo, EndReached
<1>10. ASSUME NEW p \in Replanned,
              ReplanRejected(p) \/ ReplanToAnswer(p) \/ reset_for_replanned_plan(p)
       PROVE  EndReached'
  BY <1>10 DEF ReplanRejected, ReplanToAnswer, reset_for_replanned_plan, Return,
     TransitionTo, EndReached
<1>11. CASE ReplannerRaises
  BY <1>11 DEF ReplannerRaises, EndReached
<1>12. CASE continue_task_loop \/ CancelTask
  BY <1>12 DEF continue_task_loop, CancelTask, Waiting, Return, TransitionTo, EndReached
<1>13. CASE DeadlinePasses \/ UNCHANGED vars
  BY <1>13 DEF DeadlinePasses, vars, control, EndReached, Total
<1>14. QED
  BY <1>1, <1>2, <1>3, <1>4, <1>5, <1>6, <1>7, <1>8, <1>9, <1>10, <1>11, <1>12, <1>13,
     Zenon DEF Next, Code, LoopHead, Reflect, finalize_completion, Replan

(***************************************************************************)
(* The theorems.                                                           *)
(***************************************************************************)
\* Every behaviour of the specification satisfies the invariant.
THEOREM EvidenceInvariant == Spec => []EvidenceInv
<1>1. Init => EvidenceInv
  BY DEF Init, EvidenceInv, StepsDone, StepsEarned, ResultKept, EndReached
<1>2. TypeOK /\ ControlOK /\ EvidenceInv /\ [Next]_vars => EvidenceInv'
  BY StepsDoneStep, StepsEarnedStep, ResultKeptStep, EndReachedStep DEF EvidenceInv
<1>3. QED
  BY <1>1, <1>2, TypeCorrect, PTL DEF Spec

\* A COMPLETE result: every step of the plan in force has left the result of a
\* call made under that plan, or the user went on without it.
THEOREM CompleteMeansExecutedHolds == Spec => []CompleteMeansExecuted
<1>1. TypeOK /\ EvidenceInv => CompleteMeansExecuted
  <2>1. SUFFICES ASSUME TypeOK, EvidenceInv, pc = "returned", status = "COMPLETE",
                        NEW i \in DOMAIN plan.steps
                 PROVE  StepDone(plan.steps[i])
    BY DEF CompleteMeansExecuted, StepDone, ArtifactHere
  <2>2. i \in 1..idx
    BY <2>1, PlanDomain DEF EvidenceInv, EndReached, TypeOK, PlanType, Total
  <2>3. QED
    BY <2>1, <2>2 DEF EvidenceInv, StepsDone, Working
<1>2. QED
  BY <1>1, EvidenceInvariant, TypeCorrect, PTL

\* The output layer is handed validated evidence only from a plan whose steps
\* were each called exactly once, under this plan, and yielded the evidence
\* types their tools declare.
THEOREM ValidatedHandoffIsEarnedHolds == Spec => []ValidatedHandoffIsEarned
<1>1. TypeOK /\ AtMostOncePerReceipt /\ EvidenceInv => ValidatedHandoffIsEarned
  <2>1. SUFFICES ASSUME TypeOK, AtMostOncePerReceipt, EvidenceInv,
                        output_evidence = "COMPLETE_WITH_VALIDATED_EVIDENCE",
                        NEW i \in DOMAIN plan.steps
                 PROVE  calls[plan.steps[i].id] = 1 /\ HasEvidence(plan.steps[i])
    BY DEF ValidatedHandoffIsEarned, HasEvidence, ArtifactHere
  <2>2. /\ pc = "returned" /\ caller # "continue" /\ status = "COMPLETE"
        /\ cfg.mode = "RECEIPT_MODE_ACTIVE"
        /\ Len(structural) = Total /\ \A k \in DOMAIN structural : structural[k]
    BY <2>1 DEF output_evidence, attest_completed_execution
  <2>3. caller = "start" /\ Working
    BY <2>1, <2>2 DEF TypeOK, ControlType, Working
  <2>4. i \in 1..idx /\ plan.steps[i].id \in StepIds /\ i \in 1..Total
    BY <2>1, <2>2, PlanDomain DEF EvidenceInv, EndReached, TypeOK, PlanType, Total
  <2>5. structural[i]
    BY <2>1, <2>2, <2>4 DEF TypeOK, RecordType
  <2>6. calls[plan.steps[i].id] >= 1 /\ HasEvidence(plan.steps[i])
    BY <2>1, <2>3, <2>4, <2>5 DEF EvidenceInv, StepsEarned
  <2>7. calls[plan.steps[i].id] <= 1 /\ calls[plan.steps[i].id] \in Nat
    BY <2>1, <2>2, <2>4 DEF AtMostOncePerReceipt, TypeOK, HistoryType
  <2>8. QED
    BY <2>6, <2>7
<1>2. QED
  BY <1>1, EvidenceInvariant, AtMostOncePerReceiptHolds, TypeCorrect, PTL
=============================================================================
