------------------------------ MODULE TaskLoop ------------------------------
(***************************************************************************)
(* The task loop of TRION (core/task_loop): it runs the steps of a         *)
(* ThinkingPlan one by one, reflects after each of them, retries, waits    *)
(* for the user, replans, and decides at the end whether the objective was *)
(* met.  One behaviour is the life of one task: start_task_loop, then any  *)
(* number of continue_task_loop calls made by the approve route, until the *)
(* task is completed, blocked or cancelled.                                *)
(*                                                                         *)
(* The loop is sequential code in one thread.  Its environment is the tool *)
(* runner, the planner, the user and the clock.                            *)
(***************************************************************************)
EXTENDS Integers, Sequences, FiniteSets

CONSTANTS
    StepIds,      \* step ids; the planner numbers them, so replans reuse them
    Tools,        \* tool names a plan may mention
    KnownTools,   \* tools of the registry, a subset of Tools
    Evidence,     \* evidence types (artifact types) a step may require
    Produces,     \* evidence types each tool declares
    Attached,     \* sets of artifact types a tool may attach by itself
    ToolErrors,   \* error texts of a failed or timed out tool call
    Configs,      \* the settings a task may be started with
    InitialPlans, \* plans handed to start_task_loop
    Replanned,    \* plans the replanner may propose
    FollowupSteps,\* steps the composite follow-up planner may append
    MaxCount,     \* bound: steps and tool calls are counted up to here, above
                  \* every limit they are compared with
    NoStep, NoTool, NoLimit, NoCriterion, InvalidCriterion

(***************************************************************************)
(* Plans.  A step carries its completion criteria and `auth`, what the     *)
(* receipt validator says of its operation.  `need` holds the candidate    *)
(* tools of the plan's additional_evidence_need, `loop` is needs_task_loop.*)
(***************************************************************************)
Step == [id: StepIds, tool: Tools \cup {NoTool}, risky: BOOLEAN,
         auth: BOOLEAN, req: SUBSET Evidence,
         done: Evidence \cup {NoCriterion, InvalidCriterion}]

ThinkingPlan == [steps: Seq(Step), need: SUBSET Tools, loop: BOOLEAN]

ReceiptConfigurationState == {"LEGACY_VALID", "RECEIPT_MODE_ACTIVE",
                              "INCONSISTENT_FAIL_CLOSED"}

Limit == Nat \cup {NoLimit}

Config == [mode: ReceiptConfigurationState,
           approval_mode: {"risk_based", "approval_first", "permissive"},
           approval_required_tools: SUBSET Tools,
           failure_escalation: {"replan", "ask", "abort"},
           max_steps: Int, max_retries: Int, max_replans: Nat,
           loop_detection: BOOLEAN, threshold: Int,
           max_total_steps: Limit, max_tool_calls: Limit,
           deadline: BOOLEAN]

StepIdsOf(p) == {p.steps[i].id : i \in DOMAIN p.steps}
ToolsOf(p) == {p.steps[i].tool : i \in DOMAIN p.steps} \ {NoTool}
DistinctIds(p) ==
    \A i, j \in DOMAIN p.steps : p.steps[i].id = p.steps[j].id => i = j

\* What the code relies on: only plans with steps reach the loop, and the
\* planner numbers the steps of a plan apart.
ASSUME ConstantsAssumption ==
    /\ KnownTools \subseteq Tools
    /\ Produces \in [Tools -> SUBSET Evidence]
    /\ Attached \subseteq SUBSET Evidence
    /\ Configs \subseteq Config
    /\ InitialPlans \subseteq ThinkingPlan
    /\ Replanned \subseteq ThinkingPlan
    /\ FollowupSteps \subseteq Step
    /\ ToolErrors \cap {"success", "skipped", "not_executable", "governor"} = {}
    /\ NoStep \notin StepIds
    /\ NoTool \notin Tools
    /\ NoLimit \notin Int
    /\ NoCriterion \notin Evidence
    /\ InvalidCriterion \notin Evidence
    /\ NoCriterion # InvalidCriterion
    /\ MaxCount \in Nat
    /\ \A c \in Configs : \A n \in {c.max_total_steps, c.max_tool_calls} :
           n # NoLimit => n < MaxCount
    /\ \A p \in InitialPlans : p.loop /\ p.steps # << >> /\ DistinctIds(p)
    /\ \A p \in Replanned : p.loop => p.steps # << >>

-----------------------------------------------------------------------------
TaskLoopState == {"EXECUTING", "REFLECTING", "REPLANNING", "COMPLETED",
                  "WAITING", "BLOCKED", "CANCELLED"}

StopReason == {"NONE", "MAX_STEPS_REACHED", "STEP_FAILED",
               "ADDITIONAL_EVIDENCE_REQUIRED", "REPLAN_BUDGET_EXHAUSTED",
               "FAILURE_ABORT_POLICY", "RISK_GATE_REQUIRED",
               "USER_DECISION_NEEDED", "NO_PROGRESS", "USER_CANCELLED",
               "OBJECTIVE_NOT_MET", "CAPABILITY_GAP"}

\* NEEDS_REPLAN and NEEDS_MORE_EVIDENCE stay inside run_with_replanning, and
\* nothing returns CANCELLED.
CompletionStatus == {"COMPLETE", "WAITING", "BLOCKED", "INCOMPLETE"}

TRANSITIONS_COMPLETED_FINAL ==
    {<<"EXECUTING", "REFLECTING">>, <<"EXECUTING", "WAITING">>,
     <<"EXECUTING", "BLOCKED">>, <<"EXECUTING", "CANCELLED">>,
     <<"REFLECTING", "EXECUTING">>, <<"REFLECTING", "REPLANNING">>,
     <<"REFLECTING", "COMPLETED">>, <<"REFLECTING", "WAITING">>,
     <<"REFLECTING", "BLOCKED">>,
     <<"REPLANNING", "EXECUTING">>, <<"REPLANNING", "COMPLETED">>,
     <<"REPLANNING", "BLOCKED">>,
     <<"WAITING", "EXECUTING">>, <<"WAITING", "CANCELLED">>}

ALLOWED_TRANSITIONS ==
    {<<"EXECUTING", "REFLECTING">>, <<"EXECUTING", "WAITING">>,
     <<"EXECUTING", "BLOCKED">>, <<"EXECUTING", "CANCELLED">>,
     <<"REFLECTING", "EXECUTING">>, <<"REFLECTING", "REPLANNING">>,
     <<"REFLECTING", "COMPLETED">>, <<"REFLECTING", "WAITING">>,
     <<"REFLECTING", "BLOCKED">>,
     <<"REPLANNING", "EXECUTING">>, <<"REPLANNING", "COMPLETED">>,
     <<"REPLANNING", "BLOCKED">>,
     <<"COMPLETED", "REPLANNING">>, <<"COMPLETED", "BLOCKED">>,
     <<"WAITING", "EXECUTING">>, <<"WAITING", "CANCELLED">>}

\* How execute_step ended: SUCCESS, SKIPPED, or FAILED/TIMEOUT with its error.
Outcomes == {"success", "skipped", "not_executable", "governor"} \cup ToolErrors

\* An artifact; `run` is a history field, the number of replans before it.
Artifact == [step: StepIds, tool: Tools, tag: Evidence \cup {"tool_result"},
             valid: BOOLEAN, run: Nat]

Signature == [step: StepIds \cup {NoStep}, outcome: Outcomes]
NoSignature == [step |-> NoStep, outcome |-> "skipped"]
NoRetries == [s \in StepIds |-> 0]

VARIABLES
    cfg, plan,                        \* settings and active_plan
    state, idx, pending, stop,        \* TaskLoopSnapshot: control
    completed, execs, artifacts,      \* TaskLoopSnapshot: what was done
    retries, sig, np,                 \* retry_counts, progress_signature, ...
    replans, totalSteps, toolCalls,   \* TaskLoopSnapshot: budgets
    pc, outcome, produced,            \* where the code is; the step's result
    approved, caller, structural,     \* approved_step_id; who called; results
    status, clock,                    \* completion_status; deadline
    granted, passed, calls            \* history, per plan: steps the user
                                      \* approved, steps the user moved past,
                                      \* tool calls made for each step

control == <<state, idx, pending, stop>>
record == <<completed, execs, artifacts>>
progress == <<retries, sig, np>>
budget == <<replans, totalSteps, toolCalls>>
result == <<outcome, produced>>
history == <<granted, passed, calls>>
vars == <<cfg, plan, control, record, progress, budget, pc, result, approved,
          caller, structural, status, clock, history>>

Total == Len(plan.steps)
Current == plan.steps[idx + 1]
Ids == [i \in 1..Total |-> plan.steps[i].id]
Max2(a, b) == IF a >= b THEN a ELSE b
Min2(a, b) == IF a <= b THEN a ELSE b

\* TaskLoopSnapshot.transition_to: an illegal transition raises ValueError and
\* the working snapshot is lost.
TransitionTo(next, continueAt) ==
    IF <<state, next>> \in ALLOWED_TRANSITIONS
    THEN state' = next /\ pc' = continueAt
    ELSE state' = state /\ pc' = "raised"

-----------------------------------------------------------------------------
(***************************************************************************)
(* Guards.                                                                 *)
(***************************************************************************)
LimitPassed(n, limit) == limit # NoLimit /\ n > limit
LimitReached(n, limit) == limit # NoLimit /\ n >= limit
DeadlinePassed == cfg.deadline /\ clock = "expired"
CountUp(n) == IF n < MaxCount THEN n + 1 ELSE n

can_start_step == ~DeadlinePassed /\ ~LimitReached(totalSteps, cfg.max_total_steps)
can_start_tool_call == ~DeadlinePassed /\ ~LimitReached(toolCalls, cfg.max_tool_calls)
can_replan_once_more == ~DeadlinePassed /\ replans <= cfg.max_replans
can_replan == ~DeadlinePassed /\ replans < cfg.max_replans

requires_waiting(s) ==
    /\ s.tool # NoTool
    /\ \/ s.tool \in cfg.approval_required_tools
       \/ cfg.approval_mode = "approval_first"
       \/ cfg.approval_mode = "risk_based" /\ s.risky

\* receipt_for_step with the issuer and the validator of the operation
\* contract: the whole prefix of the plan must have run, each step once,
\* successfully, in order and with an authorised operation.
Authorised(s) == s.auth /\ s.tool \in KnownTools

HasReceipt ==
    /\ cfg.mode = "RECEIPT_MODE_ACTIVE"
    /\ idx < Total
    /\ completed = SubSeq(Ids, 1, idx)
    /\ Len(execs) = idx
    /\ \A i \in 1..idx : execs[i] = [step |-> Ids[i], ok |-> TRUE]
    /\ \A i \in 1..(idx + 1) : Authorised(plan.steps[i])

ReceiptMissing == cfg.mode # "LEGACY_VALID" /\ ~HasReceipt

\* validate_plan_contract as bind_validated_replanner calls it.
PlanContractAllows(p) ==
    /\ DistinctIds(p)
    /\ ToolsOf(p) \subseteq KnownTools
    /\ ToolsOf(p) = {} \/ cfg.mode = "RECEIPT_MODE_ACTIVE"

\* available_evidence_types: built by the pipeline stage, absent on a resume.
available == IF caller = "continue" THEN {} ELSE UNION {Produces[t] : t \in KnownTools}

-----------------------------------------------------------------------------
(***************************************************************************)
(* start_task_loop                                                         *)
(***************************************************************************)
Init ==
    /\ cfg \in Configs
    /\ plan \in InitialPlans
    /\ state = "EXECUTING" /\ idx = 0 /\ pending = NoStep /\ stop = "NONE"
    /\ completed = << >> /\ execs = << >> /\ artifacts = {}
    /\ retries = NoRetries /\ sig = NoSignature /\ np = 0
    /\ replans = 0 /\ totalSteps = 0 /\ toolCalls = 0
    /\ pc = "loop" /\ outcome = "skipped" /\ produced = {}
    /\ approved = NoStep /\ caller = "start" /\ structural = << >>
    /\ status = "INCOMPLETE" /\ clock = "running"
    /\ granted = {} /\ passed = {} /\ calls = [s \in StepIds |-> 0]

(***************************************************************************)
(* The head of the loop of _execute_with_reflection.                       *)
(***************************************************************************)
AtStep == pc = "loop" /\ idx < Total

\* A result is handed back with the snapshot in state s.
Return(s, reason, step, completion) ==
    /\ TransitionTo(s, "returned")
    /\ stop' = reason
    /\ pending' = step
    /\ status' = completion

\* The loop is left at once: continue_task_loop resumed past the last step.
RunPastEnd ==
    /\ pc = "loop" /\ idx >= Total
    /\ TransitionTo("COMPLETED", "finalize")
    /\ pending' = NoStep /\ stop' = "NONE"
    /\ UNCHANGED <<cfg, plan, idx, record, progress, budget, result, approved,
                   caller, structural, status, clock, history>>

receipt_blocked ==
    /\ AtStep /\ ReceiptMissing
    /\ Return("BLOCKED", "CAPABILITY_GAP", Current.id, "BLOCKED")
    /\ UNCHANGED <<cfg, plan, idx, record, progress, budget, result, approved,
                   caller, structural, clock, history>>

NeedsApproval == requires_waiting(Current) /\ Current.id # approved

WaitForApproval ==
    /\ AtStep /\ ~ReceiptMissing /\ NeedsApproval
    /\ Return("WAITING", "RISK_GATE_REQUIRED", Current.id, "WAITING")
    /\ UNCHANGED <<cfg, plan, idx, record, progress, budget, result, approved,
                   caller, structural, clock, history>>

StepGovernorBlocks ==
    /\ AtStep /\ ~ReceiptMissing /\ ~NeedsApproval /\ ~can_start_step
    /\ Return("BLOCKED", "MAX_STEPS_REACHED", Current.id, "BLOCKED")
    /\ UNCHANGED <<cfg, plan, idx, record, progress, budget, result, approved,
                   caller, structural, clock, history>>

start_governed_step ==
    /\ AtStep /\ ~ReceiptMissing /\ ~NeedsApproval /\ can_start_step
    /\ pc' = "execute"
    /\ pending' = Current.id /\ stop' = "NONE"
    /\ totalSteps' = CountUp(totalSteps)
    /\ UNCHANGED <<cfg, plan, state, idx, record, progress, replans, toolCalls,
                   result, approved, caller, structural, status, clock,
                   history>>

(***************************************************************************)
(* execute_step.  It ends in REFLECTING with a StepExecutionResult.        *)
(***************************************************************************)
Reflecting(o, arts) ==
    /\ TransitionTo("REFLECTING", "reflect")
    /\ outcome' = o
    /\ produced' = arts
    /\ UNCHANGED <<cfg, plan, idx, pending, stop, record, progress, budget,
                   approved, caller, status, clock, granted, passed>>

MissingTool ==
    /\ pc = "execute" /\ Current.tool = NoTool
    /\ Reflecting("skipped", {})
    /\ UNCHANGED <<structural, calls>>

\* check_executable_now: no metadata for the tool, or a required argument is
\* not bound.  Which arguments are bound is data the model leaves open.
NotExecutableNow ==
    /\ pc = "execute" /\ Current.tool # NoTool
    /\ Reflecting("not_executable", {})
    /\ UNCHANGED <<structural, calls>>

ToolCallGovernorBlocks ==
    /\ pc = "execute" /\ Current.tool # NoTool /\ ~can_start_tool_call
    /\ Reflecting("governor", {})
    /\ UNCHANGED <<structural, calls>>

MayCall == pc = "execute" /\ Current.tool \in KnownTools /\ can_start_tool_call

CountCall == calls' = [calls EXCEPT ![Current.id] = @ + 1]

ToolFails(e) ==
    /\ MayCall
    /\ Reflecting(e, {})
    /\ CountCall
    /\ UNCHANGED structural

\* The call succeeds.  The tool may attach artifacts of its own (`base`); only
\* a structurally valid result yields the evidence types the tool declares.
ArtifactOf(tag, ok) ==
    [step |-> Current.id, tool |-> Current.tool, tag |-> tag, valid |-> ok,
     run |-> replans]

ToolSucceeds(base, structurallyValid) ==
    /\ MayCall
    /\ Reflecting("success",
                  {ArtifactOf(t, FALSE) : t \in base \cup {"tool_result"}}
                  \cup {ArtifactOf(t, TRUE) :
                          t \in IF structurallyValid THEN Produces[Current.tool]
                                                     ELSE {}})
    /\ CountCall
    /\ structural' = Append(structural, structurallyValid)

(***************************************************************************)
(* reflection.evaluate                                                     *)
(***************************************************************************)
Succeeded == outcome = "success"
Started == Succeeded \/ outcome \in ToolErrors
NextSignature == [step |-> Current.id, outcome |-> outcome]
NextNoProgress == IF NextSignature = sig THEN np + 1 ELSE 0
NoProgress == cfg.loop_detection /\ NextNoProgress >= Max2(2, cfg.threshold)
StepBudgetSpent == idx + 1 >= Max2(1, cfg.max_steps)
RetryLeftOnceMore == retries[Current.id] <= Max2(0, cfg.max_retries)
RetryLeft == retries[Current.id] < Max2(0, cfg.max_retries)

\* The decision: <<action, stop reason>>.
evaluate ==
    IF StepBudgetSpent THEN <<"BLOCK", "MAX_STEPS_REACHED">>
    ELSE IF outcome = "skipped" THEN <<"WAITING", "USER_DECISION_NEEDED">>
    ELSE IF NoProgress THEN <<"BLOCK", "NO_PROGRESS">>
    ELSE IF Succeeded
         THEN <<IF idx + 1 >= Total THEN "COMPLETED" ELSE "CONTINUE", "NONE">>
    ELSE IF RetryLeft THEN <<"CONTINUE", "NONE">>
    ELSE IF cfg.failure_escalation = "ask"
         THEN <<"WAITING", "USER_DECISION_NEEDED">>
    ELSE IF cfg.failure_escalation = "abort"
         THEN <<"BLOCK", "FAILURE_ABORT_POLICY">>
    ELSE IF ~can_replan THEN <<"BLOCK", "REPLAN_BUDGET_EXHAUSTED">>
    ELSE <<"REPLAN", "STEP_FAILED">>

\* Every attempt that had a receipt is recorded, the failed ones too.
append_success_only ==
    execs' = IF cfg.mode = "RECEIPT_MODE_ACTIVE" /\ Succeeded
             THEN Append(execs, [step |-> Current.id, ok |-> TRUE])
             ELSE execs
append_execution ==
    execs' = IF cfg.mode = "RECEIPT_MODE_ACTIVE"
             THEN Append(execs, [step |-> Current.id, ok |-> Succeeded])
             ELSE execs

\* What every decision writes back: artifacts, counters, executions.  The
\* step's result is used up.
Updates ==
    /\ outcome' = "skipped" /\ produced' = {}
    /\ artifacts' = artifacts \cup produced
    /\ toolCalls' = IF Started THEN CountUp(toolCalls) ELSE toolCalls
    /\ append_execution
    /\ IF StepBudgetSpent \/ outcome = "skipped"
       THEN sig' = NoSignature /\ np' = 0
       ELSE sig' = NextSignature /\ np' = NextNoProgress
    /\ retries' =
         IF StepBudgetSpent \/ outcome = "skipped" \/ NoProgress \/ Succeeded
         THEN NoRetries
         ELSE IF RetryLeft
         THEN [retries EXCEPT ![Current.id] = @ + 1]
         ELSE retries

append_completed ==
    completed' = IF \E i \in DOMAIN completed : completed[i] = Current.id
                 THEN completed
                 ELSE Append(completed, Current.id)

\* The composite follow-up planner appends one authorised step after the last
\* one succeeded with a structurally valid result, whatever reflection decided.
\* The pipeline stage binds it in receipt mode; the approve route does not.
ExpandPlan(f) ==
    /\ pc = "reflect" /\ Succeeded /\ idx + 1 = Total
    /\ cfg.mode = "RECEIPT_MODE_ACTIVE" /\ caller = "start"
    /\ structural[Len(structural)]
    /\ Authorised(f) /\ f.id \notin StepIdsOf(plan)
    /\ plan' = [plan EXCEPT !.steps = Append(@, f)]
    /\ TransitionTo("EXECUTING", "loop")
    /\ idx' = idx + 1 /\ pending' = NoStep
    /\ append_completed /\ Updates
    /\ UNCHANGED <<cfg, stop, replans, totalSteps, approved, caller,
                   structural, status, clock, history>>

AdvanceStep ==
    /\ pc = "reflect" /\ evaluate[1] = "CONTINUE" /\ Succeeded
    /\ TransitionTo("EXECUTING", "loop")
    /\ idx' = idx + 1 /\ pending' = NoStep
    /\ append_completed /\ Updates
    /\ UNCHANGED <<cfg, plan, stop, replans, totalSteps, approved,
                   caller, structural, status, clock, history>>

RetryStep ==
    /\ pc = "reflect" /\ evaluate[1] = "CONTINUE" /\ ~Succeeded
    /\ TransitionTo("EXECUTING", "loop")
    /\ pending' = Current.id
    /\ Updates
    /\ UNCHANGED <<cfg, plan, idx, stop, completed, replans, totalSteps,
                   approved, caller, structural, status, clock, history>>

WaitForUser ==
    /\ pc = "reflect" /\ evaluate[1] = "WAITING"
    /\ Return("WAITING", evaluate[2], Current.id, "WAITING")
    /\ Updates
    /\ UNCHANGED <<cfg, plan, idx, completed, replans, totalSteps,
                   approved, caller, structural, clock, history>>

BlockAfterStep ==
    /\ pc = "reflect" /\ evaluate[1] = "BLOCK"
    /\ Return("BLOCKED", evaluate[2], Current.id, "BLOCKED")
    /\ Updates
    /\ UNCHANGED <<cfg, plan, idx, completed, replans, totalSteps,
                   approved, caller, structural, clock, history>>

\* A result that comes back to run_with_replanning ends the approval.
KeepApproval == approved' = approved
ForgetApproval == approved' = NoStep

\* Mutant: the replan is not counted.
ReplanUncounted ==
    /\ pc = "reflect" /\ evaluate[1] = "REPLAN"
    /\ TransitionTo("REPLANNING", "replan")
    /\ pending' = Current.id /\ stop' = evaluate[2]
    /\ ForgetApproval
    /\ Updates
    /\ UNCHANGED <<cfg, plan, idx, completed, replans, totalSteps, caller,
                   structural, status, clock, history>>

ReplanAfterFailure ==
    /\ pc = "reflect" /\ evaluate[1] = "REPLAN"
    /\ TransitionTo("REPLANNING", "replan")
    /\ pending' = Current.id /\ stop' = evaluate[2]
    /\ replans' = replans + 1
    /\ ForgetApproval
    /\ Updates
    /\ UNCHANGED <<cfg, plan, idx, completed, totalSteps, caller,
                   structural, status, clock, history>>

AllStepsDone ==
    /\ pc = "reflect" /\ evaluate[1] = "COMPLETED"
    /\ TransitionTo("COMPLETED", "finalize")
    /\ idx' = idx + 1 /\ pending' = NoStep /\ stop' = "NONE"
    /\ append_completed /\ Updates
    /\ UNCHANGED <<cfg, plan, replans, totalSteps, approved, caller,
                   structural, status, clock, history>>

(***************************************************************************)
(* finalize_completion and outcome_evaluator.evaluate                      *)
(***************************************************************************)
unresolved_additional_evidence_tools ==
    {t \in plan.need : \A a \in artifacts : ~(a.tag = "tool_result" /\ a.tool = t)}

counts_for_required_evidence(a) == cfg.mode = "RECEIPT_MODE_ACTIVE" /\ a.valid

MissingEvidence(s) ==
    {t \in s.req : \A a \in artifacts :
                      ~(a.step = s.id /\ a.tag = t /\ counts_for_required_evidence(a))}

check_done_when(s) ==
    \E a \in artifacts : a.step = s.id /\ a.tag = s.done

evaluate_step(s) ==
    IF s.done = InvalidCriterion THEN <<"BLOCK", "OBJECTIVE_NOT_MET">>
    ELSE IF /\ MissingEvidence(s) # {}
            /\ available # {}
            /\ MissingEvidence(s) \cap available = {}
         THEN <<"BLOCK", "CAPABILITY_GAP">>
    ELSE IF \/ MissingEvidence(s) # {}
            \/ s.done # NoCriterion /\ ~check_done_when(s)
         THEN <<IF can_replan THEN "REPLAN" ELSE "BLOCK", "OBJECTIVE_NOT_MET">>
    ELSE <<"COMPLETE", "NONE">>

Unmet == {i \in DOMAIN plan.steps : evaluate_step(plan.steps[i])[1] # "COMPLETE"}

\* The first step whose criteria are not met decides.
outcome_evaluate ==
    IF Unmet = {} THEN <<"COMPLETE", "NONE">>
    ELSE evaluate_step(plan.steps[CHOOSE i \in Unmet : \A j \in Unmet : i <= j])

completion_decision ==
    IF unresolved_additional_evidence_tools # {}
    THEN IF can_replan THEN <<"REPLAN", "ADDITIONAL_EVIDENCE_REQUIRED">>
                       ELSE <<"BLOCK", "REPLAN_BUDGET_EXHAUSTED">>
    ELSE outcome_evaluate

LastCompleted == IF completed = << >> THEN NoStep ELSE completed[Len(completed)]

CompletionReached ==
    /\ pc = "finalize" /\ completion_decision[1] = "COMPLETE"
    /\ pc' = "returned" /\ status' = "COMPLETE"
    /\ UNCHANGED <<cfg, plan, control, record, progress, budget, result,
                   approved, caller, structural, clock, history>>

ReplanForObjective ==
    /\ pc = "finalize" /\ completion_decision[1] = "REPLAN"
    /\ TransitionTo("REPLANNING", "replan")
    /\ pending' = LastCompleted /\ stop' = completion_decision[2]
    /\ replans' = replans + 1
    /\ ForgetApproval
    /\ UNCHANGED <<cfg, plan, idx, record, progress, totalSteps, toolCalls,
                   result, caller, structural, status, clock, history>>

BlockAtCompletion ==
    /\ pc = "finalize" /\ completion_decision[1] = "BLOCK"
    /\ Return("BLOCKED", completion_decision[2], LastCompleted, "BLOCKED")
    /\ UNCHANGED <<cfg, plan, idx, record, progress, budget, result, approved,
                   caller, structural, clock, history>>

(***************************************************************************)
(* run_with_replanning: the replanner is called once per REPLANNING result.*)
(***************************************************************************)
ClearAllButIndex ==
    /\ idx' = idx /\ completed' = << >> /\ execs' = << >>
    /\ retries' = NoRetries /\ sig' = NoSignature /\ np' = 0
    /\ pending' = NoStep /\ stop' = "NONE"
    /\ structural' = << >>
    /\ granted' = {} /\ passed' = {} /\ calls' = [s \in StepIds |-> 0]

ClearPlanProgress ==
    /\ idx' = 0 /\ completed' = << >> /\ execs' = << >>
    /\ retries' = NoRetries /\ sig' = NoSignature /\ np' = 0
    /\ pending' = NoStep /\ stop' = "NONE"
    /\ structural' = << >>
    /\ granted' = {} /\ passed' = {} /\ calls' = [s \in StepIds |-> 0]

\* PlanContractViolation: blocked_replan_result.
ReplanRejected(p) ==
    /\ pc = "replan" /\ ~PlanContractAllows(p)
    /\ Return("BLOCKED", "CAPABILITY_GAP", pending, "INCOMPLETE")
    /\ UNCHANGED <<cfg, plan, idx, record, progress, budget, result, approved,
                   caller, structural, clock, history>>

\* The new plan needs no task loop: the task is completed without the gate.
ReplanToAnswer(p) ==
    /\ pc = "replan" /\ PlanContractAllows(p) /\ ~p.loop
    /\ TransitionTo("COMPLETED", "returned")
    /\ plan' = p /\ status' = "INCOMPLETE"
    /\ ClearPlanProgress
    /\ UNCHANGED <<cfg, artifacts, budget, result, approved, caller, clock>>

reset_with_fresh_budget(p) ==
    /\ pc = "replan" /\ PlanContractAllows(p) /\ p.loop
    /\ TransitionTo("EXECUTING", "loop")
    /\ plan' = p /\ totalSteps' = 0 /\ toolCalls' = 0
    /\ ClearPlanProgress
    /\ UNCHANGED <<cfg, artifacts, replans, result, approved, caller, status,
                   clock>>

reset_for_replanned_plan(p) ==
    /\ pc = "replan" /\ PlanContractAllows(p) /\ p.loop
    /\ TransitionTo("EXECUTING", "loop")
    /\ plan' = p
    /\ ClearPlanProgress
    /\ UNCHANGED <<cfg, artifacts, budget, result, approved, caller, status,
                   clock>>

\* Any other exception of the planner leaves the loop.
ReplannerRaises ==
    /\ pc = "replan"
    /\ pc' = "planner_error"
    /\ UNCHANGED <<cfg, plan, control, record, progress, budget, result,
                   approved, caller, structural, status, clock, history>>

(***************************************************************************)
(* continue_task_loop, as the approve and cancel routes call it.           *)
(***************************************************************************)
Waiting == pc = "returned" /\ state = "WAITING"

resume_after_gated_step == Min2(idx + 1, Total)
resume_index ==
    Min2(IF stop = "RISK_GATE_REQUIRED" THEN idx ELSE idx + 1, Total)

\* snapshot_from_dict: a stored snapshot with a limit below these is corrupt.
snapshot_from_dict ==
    cfg.max_steps >= 1 /\ cfg.max_retries >= 0 /\ cfg.threshold >= 2

\* The approve route refuses the request if the snapshot cannot be restored,
\* the plan is outside its contract or, in receipt mode, the current step has
\* no receipt.
ApproveAllows ==
    /\ snapshot_from_dict
    /\ DistinctIds(plan)
    /\ ToolsOf(plan) \subseteq KnownTools
    /\ ~ReceiptMissing

continue_task_loop ==
    /\ Waiting /\ ApproveAllows
    /\ TransitionTo("EXECUTING", "loop")
    /\ idx' = resume_index
    /\ approved' = IF stop = "RISK_GATE_REQUIRED" THEN pending ELSE NoStep
    /\ granted' = IF stop = "RISK_GATE_REQUIRED" THEN granted \cup {pending}
                                                 ELSE granted
    /\ passed' = IF stop = "RISK_GATE_REQUIRED" THEN passed
                                                ELSE passed \cup {pending}
    /\ pending' = NoStep /\ stop' = "NONE"
    /\ caller' = "continue" /\ structural' = << >>
    /\ status' = "INCOMPLETE"
    /\ UNCHANGED <<cfg, plan, record, progress, budget, result, clock, calls>>

CancelTask ==
    /\ Waiting
    /\ Return("CANCELLED", "USER_CANCELLED", pending, "INCOMPLETE")
    /\ UNCHANGED <<cfg, plan, idx, record, progress, budget, result, approved,
                   caller, structural, clock, history>>

DeadlinePasses ==
    /\ cfg.deadline /\ clock = "running"
    /\ clock' = "expired"
    /\ UNCHANGED <<cfg, plan, control, record, progress, budget, pc, result,
                   approved, caller, structural, status, history>>

-----------------------------------------------------------------------------
LoopHead == \/ RunPastEnd \/ receipt_blocked \/ WaitForApproval
            \/ StepGovernorBlocks \/ start_governed_step

execute_step ==
    \/ MissingTool \/ NotExecutableNow \/ ToolCallGovernorBlocks
    \/ \E e \in ToolErrors : ToolFails(e)
    \/ \E base \in Attached, v \in BOOLEAN : ToolSucceeds(base, v)

\* (Reflect and Replan repeat the guard of their actions: TLC then evaluates the
\* sets of records below where they are used.)
Reflect ==
    \/ pc = "reflect" /\ \E f \in FollowupSteps : ExpandPlan(f)
    \/ AdvanceStep \/ RetryStep \/ WaitForUser \/ BlockAfterStep
    \/ ReplanAfterFailure \/ AllStepsDone

finalize_completion ==
    CompletionReached \/ ReplanForObjective \/ BlockAtCompletion

Replan ==
    \/ /\ pc = "replan"
       /\ \E p \in Replanned : \/ ReplanRejected(p) \/ ReplanToAnswer(p)
                               \/ reset_for_replanned_plan(p)
    \/ ReplannerRaises

Code == LoopHead \/ execute_step \/ Reflect \/ finalize_completion \/ Replan

Next == Code \/ continue_task_loop \/ CancelTask \/ DeadlinePasses

\* The loop is straight-line code around calls that return: every tool call
\* has a timeout and the planner answers or raises.  Nothing is assumed of the
\* user or the clock.
Spec == Init /\ [][Next]_vars
FairSpec == Spec /\ WF_vars(Code)

-----------------------------------------------------------------------------
(***************************************************************************)
(* What the pipeline stage makes of the result (task_loop_stage): evidence *)
(* is handed to the output layer as validated only if the execution can be *)
(* attested step by step.                                                  *)
(***************************************************************************)
attest_completed_execution ==
    /\ cfg.mode = "RECEIPT_MODE_ACTIVE"
    /\ state = "COMPLETED" /\ status = "COMPLETE"
    /\ completed = Ids /\ Len(execs) = Total
    /\ \A i \in 1..Total : /\ execs[i] = [step |-> Ids[i], ok |-> TRUE]
                           /\ Authorised(plan.steps[i])

output_evidence_unprojected ==
    IF pc # "returned" \/ caller = "continue" \/ state # "COMPLETED" THEN "TASK_LOOP_INCOMPLETE"
    ELSE IF attest_completed_execution THEN "COMPLETE_WITH_VALIDATED_EVIDENCE"
    ELSE "COMPLETE_WITHOUT_VALIDATED_EVIDENCE"

output_evidence ==
    IF pc # "returned" \/ caller = "continue" \/ state # "COMPLETED" THEN "TASK_LOOP_INCOMPLETE"
    ELSE IF /\ attest_completed_execution
            /\ Len(structural) = Total
            /\ \A i \in DOMAIN structural : structural[i]
         THEN "COMPLETE_WITH_VALIDATED_EVIDENCE"
    ELSE "COMPLETE_WITHOUT_VALIDATED_EVIDENCE"

-----------------------------------------------------------------------------
(***************************************************************************)
(* Properties                                                              *)
(***************************************************************************)
ControlType ==
    /\ state \in TaskLoopState
    /\ pending \in StepIds \cup {NoStep}
    /\ stop \in StopReason
    /\ status \in CompletionStatus
    /\ pc \in {"loop", "execute", "reflect", "finalize", "replan", "returned",
              "raised", "planner_error"}
    /\ caller \in {"start", "continue"}
    /\ clock \in {"running", "expired"}
    /\ approved \in StepIds \cup {NoStep}

RecordType ==
    /\ completed \in Seq(StepIds)
    /\ execs \in Seq([step: StepIds, ok: BOOLEAN])
    /\ structural \in Seq(BOOLEAN)
    /\ artifacts \subseteq Artifact
    /\ produced \subseteq Artifact

ProgressType ==
    /\ outcome \in Outcomes
    /\ retries \in [StepIds -> Nat]
    /\ sig \in Signature
    /\ np \in Nat
    /\ replans \in Nat
    /\ totalSteps \in Nat
    /\ toolCalls \in Nat

HistoryType ==
    /\ granted \subseteq StepIds
    /\ passed \subseteq StepIds
    /\ calls \in [StepIds -> Nat]

PlanType ==
    /\ cfg \in Config
    /\ plan \in ThinkingPlan
    /\ idx \in 0..Total
    /\ pc \in {"execute", "reflect"} => idx < Total

\* Every variable has the type its Python counterpart has, and the step index
\* stays within the active plan.
TypeOK == ControlType /\ RecordType /\ ProgressType /\ HistoryType /\ PlanType

\* A tool the policy gates runs only for a step of the plan in force that the
\* user approved: an approval never survives a replan, although the planner
\* reuses step ids, and a retry needs no second one.
ApprovalGate ==
    pc = "execute" /\ requires_waiting(Current) => Current.id \in granted

\* The replanner is never asked more often than max_replans allows, whether a
\* failed step, missing evidence or an unmet objective asks for it, and
\* however often the task was resumed in between.
ReplanBudget == replans <= cfg.max_replans

\* Within one plan a tool is called at most max_retries_per_step + 1 times for
\* a step, across approvals and resumes.
RetryBudget == \A s \in StepIds : calls[s] <= Max2(0, cfg.max_retries) + 1

\* In receipt mode a step's tool is called at most once per plan: a failed
\* execution breaks the chain of receipts, so nothing is run twice.
AtMostOncePerReceipt ==
    cfg.mode = "RECEIPT_MODE_ACTIVE" => \A s \in StepIds : calls[s] <= 1

\* The run governor's limits hold for the whole task: replans and resumes do
\* not give steps or tool calls back.
RunGovernorLimits ==
    /\ cfg.max_total_steps # NoLimit => totalSteps <= cfg.max_total_steps
    /\ cfg.max_tool_calls # NoLimit => toolCalls <= cfg.max_tool_calls

\* Steps and tool calls are only ever counted up, through replans and resumes.
CountersNeverReset ==
    [][totalSteps' >= totalSteps /\ toolCalls' >= toolCalls /\ replans' >= replans]_vars

\* A COMPLETE result means that every step of the plan in force was run
\* successfully under that plan, or that the user chose to go on without it.
CompleteMeansExecuted ==
    pc = "returned" /\ status = "COMPLETE" =>
        \A i \in DOMAIN plan.steps :
            \/ plan.steps[i].id \in passed
            \/ \E a \in artifacts : /\ a.step = plan.steps[i].id
                                    /\ a.tool = plan.steps[i].tool
                                    /\ a.tag = "tool_result"
                                    /\ a.run = replans

\* Evidence handed to the output layer as validated comes from a plan whose
\* steps were each called exactly once, under this plan, and yielded the
\* evidence types the tools declare.
ValidatedHandoffIsEarned ==
    output_evidence = "COMPLETE_WITH_VALIDATED_EVIDENCE" =>
        \A i \in DOMAIN plan.steps :
            /\ calls[plan.steps[i].id] = 1
            /\ \A t \in Produces[plan.steps[i].tool] :
                   \E a \in artifacts : /\ a.step = plan.steps[i].id
                                       /\ a.tag = t /\ a.valid
                                       /\ a.run = replans

\* transition_to raises in one situation only: the user went on after the last
\* step of the plan had stopped with USER_DECISION_NEEDED.
RaisesOnlyPastLastStep ==
    pc = "raised" => caller = "continue" /\ idx = Total /\ plan.steps[Total].id \in passed

\* Every call of start_task_loop or continue_task_loop ends: retries, replans
\* and follow-ups cannot go on for ever.
LoopReturns ==
    pc = "loop" ~> pc \in {"returned", "raised", "planner_error"}

-----------------------------------------------------------------------------
(***************************************************************************)
(* What the repository says of the loop and the code does not do.          *)
(***************************************************************************)
\* core/task_loop/README.md: continue_task_loop() continues a WAITING snapshot
\* or sets CANCELLED; resuming does not fail.
ResumeNeverRaises == pc # "raised"

\* config/pipeline/loop_engine.py: TASK_LOOP_MAX_REPLANS = 0, its default, sets
\* no hard limit, so it cannot be the reason a task is blocked.
ZeroReplansIsNoLimit ==
    cfg.max_replans = 0 /\ ~DeadlinePassed => stop # "REPLAN_BUDGET_EXHAUSTED"

\* core/task_loop/README.md: a retry means that the same step is tried again.
RetriedStepRunsAgain == AtStep /\ retries[Current.id] > 0 => ~ReceiptMissing

\* core/task_loop/README.md: evidence no registered tool can produce blocks the
\* task with CAPABILITY_GAP instead of replanning for it.
CapabilityGapIsNotReplanned ==
    pc = "replan" /\ stop = "OBJECTIVE_NOT_MET" =>
        \A i \in DOMAIN plan.steps :
            \/ MissingEvidence(plan.steps[i]) = {}
            \/ \E t \in KnownTools :
                   MissingEvidence(plan.steps[i]) \cap Produces[t] # {}
=============================================================================
