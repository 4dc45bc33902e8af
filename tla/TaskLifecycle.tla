--------------------------- MODULE TaskLifecycle ---------------------------
(***************************************************************************)
(* What the resume store promises of every waiting task, whatever requests *)
(* arrive, fail or are lost: it is claimed only while it waits, each claim *)
(* resumes the task loop at most once, an ended task stays as it ended,    *)
(* and a task that is lost never comes back.                               *)
(***************************************************************************)
EXTENDS Integers, FiniteSets

CONSTANTS Tasks, Results

VARIABLES
    status,  \* per task: "NONE" before it is registered, "GONE" after a loss
    claims,  \* claims made, per task
    resumes  \* continue_task_loop calls made, per task

vars == <<status, claims, resumes>>

Init ==
    /\ status = [t \in Tasks |-> "NONE"]
    /\ claims = [t \in Tasks |-> 0]
    /\ resumes = [t \in Tasks |-> 0]

\* Registering a task may push others out of the store, or the task itself.
Register(t, lost) ==
    /\ status[t] = "NONE"
    /\ \A u \in lost : u = t \/ status[u] # "NONE"
    /\ status' = [u \in Tasks |-> IF u \in lost THEN "GONE"
                                  ELSE IF u = t THEN "WAITING" ELSE status[u]]
    /\ UNCHANGED <<claims, resumes>>

Cancel(t) ==
    /\ status[t] = "WAITING"
    /\ status' = [status EXCEPT ![t] = "CANCELLED"]
    /\ UNCHANGED <<claims, resumes>>

Claim(t) ==
    /\ status[t] = "WAITING"
    /\ status' = [status EXCEPT ![t] = "EXECUTING"]
    /\ claims' = [claims EXCEPT ![t] = @ + 1]
    /\ UNCHANGED resumes

Resume(t) ==
    /\ status[t] \in {"EXECUTING", "GONE"}
    /\ resumes[t] < claims[t]
    /\ resumes' = [resumes EXCEPT ![t] = @ + 1]
    /\ UNCHANGED <<status, claims>>

Settle(t, s) ==
    /\ status[t] = "EXECUTING"
    /\ resumes[t] = claims[t]
    /\ status' = [status EXCEPT ![t] = s]
    /\ UNCHANGED <<claims, resumes>>

Next ==
    \E t \in Tasks :
        \/ \E lost \in SUBSET Tasks : Register(t, lost)
        \/ Cancel(t) \/ Claim(t) \/ Resume(t)
        \/ \E s \in Results : Settle(t, s)

Spec == Init /\ [][Next]_vars
=============================================================================
