----------------------------- MODULE MCTaskLoop -----------------------------
(***************************************************************************)
(* Small instances of TaskLoop.  Step ids s1 and s2 are those the planner  *)
(* gives to the first and second step of every plan, f1 the follow-up of a *)
(* last step.  Tool ta declares evidence e1, tb declares none, tx is not   *)
(* registered; no registered tool declares e2.                             *)
(***************************************************************************)
EXTENDS TaskLoop

CONSTANTS s1, s2, f1, ta, tb, tx, e1, e2

MCProduces == [t \in Tools |-> IF t = ta THEN {e1} ELSE {}]

S(id, tool, risky, req, done) ==
    [id |-> id, tool |-> tool, risky |-> risky, auth |-> TRUE, req |-> req,
     done |-> done]
Plain(id, tool) == S(id, tool, FALSE, {}, NoCriterion)
Risky(id, tool) == S(id, tool, TRUE, {}, NoCriterion)
Proves(id, risky, e) == S(id, ta, risky, {e}, e)
Plan(steps, need) == [steps |-> steps, need |-> need, loop |-> TRUE]

AnswerPlan == [steps |-> << >>, need |-> {}, loop |-> FALSE]

Base == [mode |-> "LEGACY_VALID", approval_mode |-> "risk_based",
         approval_required_tools |-> {}, failure_escalation |-> "replan",
         max_steps |-> 10, max_retries |-> 1, max_replans |-> 1,
         loop_detection |-> TRUE, threshold |-> 3,
         max_total_steps |-> NoLimit, max_tool_calls |-> NoLimit,
         deadline |-> FALSE]
Active == [Base EXCEPT !.mode = "RECEIPT_MODE_ACTIVE"]

\* Receipt mode: gates, replans that reuse ids, follow-ups, evidence.
ActiveConfigs ==
    {[Active EXCEPT !.max_replans = n] : n \in 0..2}
    \cup {[Active EXCEPT !.failure_escalation = x] : x \in {"ask", "abort"}}
    \cup {[Active EXCEPT !.approval_mode = "approval_first", !.max_retries = 0],
          [Active EXCEPT !.approval_mode = "permissive",
                         !.approval_required_tools = {tb}],
          [Active EXCEPT !.max_retries = 0, !.max_replans = 2],
          [Active EXCEPT !.max_steps = 2],
          [Active EXCEPT !.max_replans = 2, !.max_total_steps = 2],
          [Active EXCEPT !.max_replans = 2, !.max_tool_calls = 1],
          [Active EXCEPT !.deadline = TRUE],
          [Active EXCEPT !.mode = "INCONSISTENT_FAIL_CLOSED"]}

ActivePlans ==
    {Plan(<<Proves(s1, TRUE, e1)>>, {}),
     Plan(<<Proves(s1, FALSE, e1), Risky(s2, tb)>>, {}),
     Plan(<<Plain(s1, ta)>>, {}),
     Plan(<<Plain(s1, ta)>>, {tb}),
     Plan(<<Proves(s1, FALSE, e2)>>, {}),
     Plan(<<S(s1, ta, FALSE, {}, InvalidCriterion)>>, {}),
     Plan(<<Plain(s1, ta), [Plain(s2, tb) EXCEPT !.auth = FALSE]>>, {})}

\* An approved step that asks for evidence no registered tool declares.
GatedEvidencePlans == {Plan(<<Proves(s1, TRUE, e2)>>, {})}

ActiveReplans ==
    {Plan(<<Risky(s1, tb)>>, {}),
     Plan(<<Proves(s1, FALSE, e1)>>, {}),
     Plan(<<Proves(s1, TRUE, e1), Plain(s2, tb)>>, {}),
     Plan(<<Plain(s1, tx)>>, {}),
     Plan(<<Plain(s1, ta), Plain(s1, tb)>>, {}),
     AnswerPlan}

Followups == {S(f1, ta, FALSE, {e1}, NoCriterion)}

\* Legacy mode: retries, loop detection, the user's decisions, the governor.
LegacyConfigs ==
    {[Base EXCEPT !.failure_escalation = x, !.max_retries = r] :
        x \in {"replan", "ask", "abort"}, r \in {0, 3}}
    \cup {[Base EXCEPT !.max_retries = 3, !.loop_detection = FALSE],
          [Base EXCEPT !.max_retries = 3, !.threshold = 2],
          [Base EXCEPT !.max_steps = 1],
          [Base EXCEPT !.max_steps = 2, !.failure_escalation = "ask"],
          [Base EXCEPT !.max_retries = 3, !.max_total_steps = 2],
          [Base EXCEPT !.max_retries = 3, !.max_tool_calls = 1],
          [Base EXCEPT !.deadline = TRUE, !.failure_escalation = "ask"],
          [Base EXCEPT !.approval_mode = "approval_first", !.failure_escalation = "ask"]}

LegacyPlans ==
    {Plan(<<Risky(s1, ta), Plain(s2, tb)>>, {}),
     Plan(<<Plain(s1, NoTool), Risky(s2, tb)>>, {}),
     Plan(<<S(s1, ta, FALSE, {}, e1)>>, {tb}),
     Plan(<<Plain(s1, tx), Plain(s2, ta)>>, {})}

MCConfigs == ActiveConfigs \cup LegacyConfigs
MCPlans == ActivePlans \cup LegacyPlans
=============================================================================
