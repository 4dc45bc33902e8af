------------------------ MODULE ContainerDeployProofs ------------------------
(***************************************************************************)
(* Safety of container deploys, for any approvals, containers and quota    *)
(* and any number of faults: the quota holds, and an approval starts one   *)
(* container at most.                                                      *)
(*                                                                         *)
(* The quota: once a sync has put the running containers in the table,     *)
(* every running container is in it but the one being checked              *)
(* (RunningKnown), so the test of reserve_quota() counts them all.  The    *)
(* recovery thread may grow the table between the test and the start, so   *)
(* what the test found is kept as a bound on the containers themselves     *)
(* (RoomForOne).                                                           *)
(*                                                                         *)
(* The approvals: what the file says beyond the memory is a decision that  *)
(* was not saved (FileFits), and whatever can still be approved has not    *)
(* been used or refused, or its decision was not saved (PendingIsFresh).   *)
(***************************************************************************)
EXTENDS ContainerDeploy, FiniteSetTheorems, TLAPS

(***************************************************************************)
(* The invariant.                                                          *)
(***************************************************************************)
\* What the place of the request says of reservation, container and approval.
RequestInPlace ==
    /\ reserved = IF pc \in {"run", "check"} THEN 1 ELSE 0
    /\ pc \in {"check", "tail"} => cont \in Containers
    /\ pc = "idle" => req = NoOne
    /\ \A a \in Approvals : pending[a] = "approved" <=> req = a

\* Only requested approvals leave a trace.
OnlyRequested ==
    /\ \A a \in Approvals : pending[a] # "none" => a \in known
    /\ refused \cup undone \subseteq known
    /\ \A c \in Containers : owner[c] \in Approvals => owner[c] \in known

\* The running containers are in the listing, and from then on in the table.
RunningKnown ==
    "docker" \notin faults.kinds =>
        /\ pc \in {"reserve", "run", "check", "tail"} => synced
        /\ pc = "apply" => running \subseteq seen
        /\ synced => running \subseteq active \cup (IF pc = "check" THEN {cont} ELSE {})

\* The quota, and the room reserve_quota() has found.
RoomForOne ==
    "docker" \notin faults.kinds =>
        /\ Cardinality(running) <= MaxContainers
        /\ pc = "run" => Cardinality(running) + 1 <= MaxContainers

\* The approval was neither refused nor used.
FreshApproval(a) == a \notin refused /\ \A c \in Containers : owner[c] # a

\* What can still start a container has not been decided, or its decision was
\* not saved.
PendingIsFresh ==
    \A a \in Approvals :
        \/ pending[a] = "pending"
        \/ pending[a] = "approved" /\ pc \in {"begin", "sync", "apply", "reserve", "run"}
        => FreshApproval(a) \/ a \in undone

\* What the file lists is pending, in progress, past its time, or undone.
FileFits ==
    \A a \in file :
        \/ a \in undone
        \/ pending[a] \in {"pending", "approved"}
        \/ pending[a] = "expired" /\ a \in late

IInv ==
    /\ TypeOK
    /\ RequestInPlace
    /\ OnlyRequested
    /\ RunningKnown
    /\ RoomForOne
    /\ PendingIsFresh
    /\ FileFits

\* The initial states satisfy the invariant.
LEMMA InvInit == Init => IInv
<1> SUFFICES ASSUME Init PROVE IInv
    OBVIOUS
<1>1. TypeOK
    BY DEF Init, TypeOK, Statuses
<1>2. RequestInPlace /\ OnlyRequested /\ FileFits
    BY DeployAssumption DEF Init, RequestInPlace, OnlyRequested, FileFits
<1>3. RunningKnown
    BY DEF Init, RunningKnown
<1>4. RoomForOne
    BY FS_EmptySet, DeployAssumption DEF Init, RoomForOne
<1>5. PendingIsFresh
    BY DEF Init, PendingIsFresh
<1> QED BY <1>1, <1>2, <1>3, <1>4, <1>5 DEF IInv

\* Every step keeps the types.
LEMMA TypeStep ==
  ASSUME TypeOK, RequestInPlace, OnlyRequested, FileFits, [Next]_vars
  PROVE  TypeOK'
<1>1. CASE get_pending
    BY <1>1, DeployAssumption DEF TypeOK, RequestInPlace, OnlyRequested, Statuses,
       get_pending, Fault, Saved, Synced, Cleaned, Expiring, PendingIn, requestVars,
       quotaVars, dockerVars, recoverVars
<1>2. ASSUME NEW a \in Approvals, get_approval(a)
      PROVE  TypeOK'
    BY <1>2, DeployAssumption DEF TypeOK, RequestInPlace, OnlyRequested, Statuses,
       get_approval, Synced, Expiring, PendingIn, requestVars, quotaVars,
       dockerVars, recoverVars
<1>3. CASE api_deploy_container
    BY <1>3, DeployAssumption DEF TypeOK, RequestInPlace, OnlyRequested, Statuses,
       api_deploy_container, storeVars, quotaVars, dockerVars, recoverVars
<1>4. ASSUME NEW a \in Approvals, approve(a)
      PROVE  TypeOK'
    BY <1>4, DeployAssumption DEF TypeOK, RequestInPlace, OnlyRequested, Statuses,
       approve, quotaVars, dockerVars, recoverVars
<1>5. ASSUME NEW a \in Approvals, ApproveExpired(a)
      PROVE  TypeOK'
    BY <1>5, DeployAssumption DEF TypeOK, RequestInPlace, OnlyRequested, Statuses,
       ApproveExpired, Fault, Saved, PendingIn, requestVars, quotaVars, dockerVars,
       recoverVars
<1>6. ASSUME NEW a \in Approvals, reject(a)
      PROVE  TypeOK'
    BY <1>6, DeployAssumption DEF TypeOK, RequestInPlace, OnlyRequested, Statuses,
       reject, Fault, Saved, PendingIn, requestVars, quotaVars, dockerVars,
       recoverVars
<1>7. ASSUME NEW a \in Approvals, RejectUnlogged(a)
      PROVE  TypeOK'
    BY <1>7, DeployAssumption DEF TypeOK, RequestInPlace, OnlyRequested, Statuses,
       RejectUnlogged, Fault, requestVars, quotaVars, dockerVars, recoverVars
<1>8. CASE Begin
  <2>0. /\ pc = "begin"
        /\ UNCHANGED <<late, reserved, active, armed, synced, running, owner, overdue, rec,
                       found, skipped>>
      BY <1>8 DEF Begin, quotaVars, dockerVars, recoverVars
  <2>1. CASE Unbound
      BY <2>0, <2>1, DeployAssumption DEF TypeOK, RequestInPlace, OnlyRequested,
         Statuses, Unbound, Ends, Saved, Fault, PendingIn
  <2>2. CASE enforce_trust_gates
      BY <2>0, <2>2, DeployAssumption DEF TypeOK, RequestInPlace, OnlyRequested,
         Statuses, enforce_trust_gates, EndsBy, Fault, PendingIn
  <2>3. ASSUME NEW a \in Approvals \ known, request_approval(a)
        PROVE  TypeOK'
      BY <2>0, <2>3, DeployAssumption DEF TypeOK, RequestInPlace, OnlyRequested,
         Statuses, request_approval, Saved, Cleaned, Expiring, Fault, PendingIn
  <2>4. CASE pc' = "sync" /\ UNCHANGED <<storeVars, req, cont, seen, faults>>
      BY <2>0, <2>4, DeployAssumption DEF TypeOK, RequestInPlace, OnlyRequested,
         Statuses, storeVars
  <2> QED BY <1>8, <2>1, <2>2, <2>3, <2>4 DEF Begin
<1>9. CASE SyncSkips
    BY <1>9, DeployAssumption DEF TypeOK, RequestInPlace, OnlyRequested, Statuses,
       SyncSkips, Fault, storeVars, quotaVars, dockerVars, recoverVars
<1>10. CASE SyncLists
    BY <1>10, DeployAssumption DEF TypeOK, RequestInPlace, OnlyRequested, Statuses,
       SyncLists, storeVars, quotaVars, dockerVars, recoverVars
<1>11. CASE SyncApplies
    BY <1>11, DeployAssumption DEF TypeOK, RequestInPlace, OnlyRequested, Statuses,
       SyncApplies, storeVars, dockerVars, recoverVars
<1>12. CASE Reserve
    BY <1>12, DeployAssumption DEF TypeOK, RequestInPlace, OnlyRequested, Statuses,
       Reserve, Fault, Saved, PendingIn, Ends, quotaVars, dockerVars, recoverVars
<1>13. CASE RunFails
    BY <1>13, DeployAssumption DEF TypeOK, RequestInPlace, OnlyRequested, Statuses,
       RunFails, Fault, PendingIn, EndsBy, quotaVars, dockerVars, recoverVars
<1>14. ASSUME NEW c \in Containers, Run(c)
      PROVE  TypeOK'
    BY <1>14, DeployAssumption DEF TypeOK, RequestInPlace, OnlyRequested, Statuses,
       Run, NextContainer, storeVars, quotaVars, recoverVars, Direct, Unused
<1>15. CASE CheckFails
    BY <1>15, DeployAssumption DEF TypeOK, RequestInPlace, OnlyRequested, Statuses,
       CheckFails, Fault, PendingIn, EndsBy, cleanup_failed_container_start,
       quotaVars, recoverVars
<1>16. CASE Commit
    BY <1>16, DeployAssumption DEF TypeOK, RequestInPlace, OnlyRequested, Statuses,
       Commit, storeVars, dockerVars, recoverVars
<1>17. CASE Tail
    BY <1>17, DeployAssumption DEF TypeOK, RequestInPlace, OnlyRequested, Statuses,
       Tail, Fault, Saved, PendingIn, Ends, dockerVars, recoverVars
<1>18. CASE RecoverLists
    BY <1>18, DeployAssumption DEF TypeOK, RequestInPlace, OnlyRequested, Statuses,
       RecoverLists, Fault, storeVars, requestVars, quotaVars, dockerVars
<1>19. ASSUME NEW c \in Containers, RecoverOne(c)
      PROVE  TypeOK'
    BY <1>19, DeployAssumption DEF TypeOK, RequestInPlace, OnlyRequested, Statuses,
       RecoverOne, Fault, storeVars, requestVars
<1>20. CASE RecoverEnds
    BY <1>20, DeployAssumption DEF TypeOK, RequestInPlace, OnlyRequested, Statuses,
       RecoverEnds, storeVars, requestVars, quotaVars, dockerVars
<1>21. ASSUME NEW c \in Containers, TimerFires(c)
      PROVE  TypeOK'
    BY <1>21, DeployAssumption DEF TypeOK, RequestInPlace, OnlyRequested, Statuses,
       TimerFires, Fault, storeVars, requestVars, recoverVars
<1>22. ASSUME NEW c \in Containers, ContainerExits(c)
      PROVE  TypeOK'
    BY <1>22, DeployAssumption DEF TypeOK, RequestInPlace, OnlyRequested, Statuses,
       ContainerExits, storeVars, requestVars, quotaVars, recoverVars
<1>23. ASSUME NEW c \in Containers, ContainerRestarted(c)
      PROVE  TypeOK'
    BY <1>23, DeployAssumption DEF TypeOK, RequestInPlace, OnlyRequested, Statuses,
       ContainerRestarted, Fault, storeVars, requestVars, quotaVars, recoverVars,
       Unused
<1>24. ASSUME NEW c \in Containers, ContainerOverdue(c)
      PROVE  TypeOK'
    BY <1>24, DeployAssumption DEF TypeOK, RequestInPlace, OnlyRequested, Statuses,
       ContainerOverdue, storeVars, requestVars, quotaVars, recoverVars
<1>25. ASSUME NEW a \in Approvals, ApprovalLate(a)
      PROVE  TypeOK'
    BY <1>25, DeployAssumption DEF TypeOK, RequestInPlace, OnlyRequested, Statuses,
       ApprovalLate, storeVars, requestVars, quotaVars, dockerVars, recoverVars
<1>26. CASE Crash
    BY <1>26, DeployAssumption DEF TypeOK, RequestInPlace, OnlyRequested, Statuses,
       Crash, Fault, PendingIn, dockerVars
<1>27. CASE UNCHANGED vars
    BY <1>27, DeployAssumption DEF TypeOK, RequestInPlace, OnlyRequested, Statuses,
       vars, storeVars, requestVars, quotaVars, dockerVars, recoverVars
<1> QED
    BY <1>1, <1>2, <1>3, <1>4, <1>5, <1>6, <1>7, <1>8, <1>9, <1>10, <1>11, <1>12,
       <1>13, <1>14, <1>15, <1>16, <1>17, <1>18, <1>19, <1>20, <1>21, <1>22, <1>23,
       <1>24, <1>25, <1>26, <1>27 DEF Next, RequestStep, RecoverStep

\* One request at a time, with its reservation and its approval.
LEMMA RequestInPlaceStep ==
  ASSUME TypeOK, RequestInPlace, [Next]_vars
  PROVE  RequestInPlace'
<1>1. CASE get_pending
    BY <1>1, DeployAssumption DEF TypeOK, RequestInPlace, get_pending, Fault, Saved,
       Synced, Cleaned, Expiring, PendingIn, requestVars, quotaVars, dockerVars,
       recoverVars
<1>2. ASSUME NEW a \in Approvals, get_approval(a)
      PROVE  RequestInPlace'
    BY <1>2, DeployAssumption DEF TypeOK, RequestInPlace, get_approval, Synced,
       Expiring, PendingIn, requestVars, quotaVars, dockerVars, recoverVars
<1>3. CASE api_deploy_container
    BY <1>3, DeployAssumption DEF TypeOK, RequestInPlace, api_deploy_container,
       storeVars, quotaVars, dockerVars, recoverVars
<1>4. ASSUME NEW a \in Approvals, approve(a)
      PROVE  RequestInPlace'
    BY <1>4, DeployAssumption DEF TypeOK, RequestInPlace, approve, quotaVars,
       dockerVars, recoverVars
<1>5. ASSUME NEW a \in Approvals, ApproveExpired(a)
      PROVE  RequestInPlace'
    BY <1>5, DeployAssumption DEF TypeOK, RequestInPlace, ApproveExpired, Fault,
       Saved, PendingIn, requestVars, quotaVars, dockerVars, recoverVars
<1>6. ASSUME NEW a \in Approvals, reject(a)
      PROVE  RequestInPlace'
    BY <1>6, DeployAssumption DEF TypeOK, RequestInPlace, reject, Fault, Saved,
       PendingIn, requestVars, quotaVars, dockerVars, recoverVars
<1>7. ASSUME NEW a \in Approvals, RejectUnlogged(a)
      PROVE  RequestInPlace'
    BY <1>7, DeployAssumption DEF TypeOK, RequestInPlace, RejectUnlogged, Fault,
       requestVars, quotaVars, dockerVars, recoverVars
<1>8. CASE Begin
  <2>0. /\ pc = "begin"
        /\ UNCHANGED <<late, reserved, active, armed, synced, running, owner, overdue, rec,
                       found, skipped>>
      BY <1>8 DEF Begin, quotaVars, dockerVars, recoverVars
  <2>1. CASE Unbound
      BY <2>0, <2>1, DeployAssumption DEF TypeOK, RequestInPlace, Unbound, Ends,
         Saved, Fault, PendingIn
  <2>2. CASE enforce_trust_gates
      BY <2>0, <2>2, DeployAssumption DEF TypeOK, RequestInPlace,
         enforce_trust_gates, EndsBy, Fault, PendingIn
  <2>3. ASSUME NEW a \in Approvals \ known, request_approval(a)
        PROVE  RequestInPlace'
      BY <2>0, <2>3, DeployAssumption DEF TypeOK, RequestInPlace, request_approval,
         Saved, Cleaned, Expiring, Fault, PendingIn
  <2>4. CASE pc' = "sync" /\ UNCHANGED <<storeVars, req, cont, seen, faults>>
      BY <2>0, <2>4, DeployAssumption DEF TypeOK, RequestInPlace, storeVars
  <2> QED BY <1>8, <2>1, <2>2, <2>3, <2>4 DEF Begin
<1>9. CASE SyncSkips
    BY <1>9, DeployAssumption DEF TypeOK, RequestInPlace, SyncSkips, Fault,
       storeVars, quotaVars, dockerVars, recoverVars
<1>10. CASE SyncLists
    BY <1>10, DeployAssumption DEF TypeOK, RequestInPlace, SyncLists, storeVars,
       quotaVars, dockerVars, recoverVars
<1>11. CASE SyncApplies
    BY <1>11, DeployAssumption DEF TypeOK, RequestInPlace, SyncApplies, storeVars,
       dockerVars, recoverVars
<1>12. CASE Reserve
    BY <1>12, DeployAssumption DEF TypeOK, RequestInPlace, Reserve, Fault, Saved,
       PendingIn, Ends, quotaVars, dockerVars, recoverVars
<1>13. CASE RunFails
    BY <1>13, DeployAssumption DEF TypeOK, RequestInPlace, RunFails, Fault,
       PendingIn, EndsBy, quotaVars, dockerVars, recoverVars
<1>14. ASSUME NEW c \in Containers, Run(c)
      PROVE  RequestInPlace'
    BY <1>14, DeployAssumption DEF TypeOK, RequestInPlace, Run, NextContainer,
       storeVars, quotaVars, recoverVars, Direct, Unused
<1>15. CASE CheckFails
    BY <1>15, DeployAssumption DEF TypeOK, RequestInPlace, CheckFails, Fault,
       PendingIn, EndsBy, cleanup_failed_container_start, quotaVars, recoverVars
<1>16. CASE Commit
    BY <1>16, DeployAssumption DEF TypeOK, RequestInPlace, Commit, storeVars,
       dockerVars, recoverVars
<1>17. CASE Tail
    BY <1>17, DeployAssumption DEF TypeOK, RequestInPlace, Tail, Fault, Saved,
       PendingIn, Ends, dockerVars, recoverVars
<1>18. CASE RecoverLists
    BY <1>18, DeployAssumption DEF TypeOK, RequestInPlace, RecoverLists, Fault,
       storeVars, requestVars, quotaVars, dockerVars
<1>19. ASSUME NEW c \in Containers, RecoverOne(c)
      PROVE  RequestInPlace'
    BY <1>19, DeployAssumption DEF TypeOK, RequestInPlace, RecoverOne, Fault,
       storeVars, requestVars
<1>20. CASE RecoverEnds
    BY <1>20, DeployAssumption DEF TypeOK, RequestInPlace, RecoverEnds, storeVars,
       requestVars, quotaVars, dockerVars
<1>21. ASSUME NEW c \in Containers, TimerFires(c)
      PROVE  RequestInPlace'
    BY <1>21, DeployAssumption DEF TypeOK, RequestInPlace, TimerFires, Fault,
       storeVars, requestVars, recoverVars
<1>22. ASSUME NEW c \in Containers, ContainerExits(c)
      PROVE  RequestInPlace'
    BY <1>22, DeployAssumption DEF TypeOK, RequestInPlace, ContainerExits,
       storeVars, requestVars, quotaVars, recoverVars
<1>23. ASSUME NEW c \in Containers, ContainerRestarted(c)
      PROVE  RequestInPlace'
    BY <1>23, DeployAssumption DEF TypeOK, RequestInPlace, ContainerRestarted,
       Fault, storeVars, requestVars, quotaVars, recoverVars, Unused
<1>24. ASSUME NEW c \in Containers, ContainerOverdue(c)
      PROVE  RequestInPlace'
    BY <1>24, DeployAssumption DEF TypeOK, RequestInPlace, ContainerOverdue,
       storeVars, requestVars, quotaVars, recoverVars
<1>25. ASSUME NEW a \in Approvals, ApprovalLate(a)
      PROVE  RequestInPlace'
    BY <1>25, DeployAssumption DEF TypeOK, RequestInPlace, ApprovalLate, storeVars,
       requestVars, quotaVars, dockerVars, recoverVars
<1>26. CASE Crash
    BY <1>26, DeployAssumption DEF TypeOK, RequestInPlace, Crash, Fault, PendingIn,
       dockerVars
<1>27. CASE UNCHANGED vars
    BY <1>27, DeployAssumption DEF TypeOK, RequestInPlace, vars, storeVars,
       requestVars, quotaVars, dockerVars, recoverVars
<1> QED
    BY <1>1, <1>2, <1>3, <1>4, <1>5, <1>6, <1>7, <1>8, <1>9, <1>10, <1>11, <1>12,
       <1>13, <1>14, <1>15, <1>16, <1>17, <1>18, <1>19, <1>20, <1>21, <1>22, <1>23,
       <1>24, <1>25, <1>26, <1>27 DEF Next, RequestStep, RecoverStep

\* No trace of an approval before its request.
LEMMA OnlyRequestedStep ==
  ASSUME TypeOK, RequestInPlace, OnlyRequested, [Next]_vars
  PROVE  OnlyRequested'
<1>1. CASE get_pending
    BY <1>1, DeployAssumption DEF TypeOK, RequestInPlace, OnlyRequested,
       get_pending, Fault, Saved, Synced, Cleaned, Expiring, PendingIn, requestVars,
       quotaVars, dockerVars, recoverVars
<1>2. ASSUME NEW a \in Approvals, get_approval(a)
      PROVE  OnlyRequested'
    BY <1>2, DeployAssumption DEF TypeOK, RequestInPlace, OnlyRequested,
       get_approval, Synced, Expiring, PendingIn, requestVars, quotaVars,
       dockerVars, recoverVars
<1>3. CASE api_deploy_container
    BY <1>3, DeployAssumption DEF TypeOK, RequestInPlace, OnlyRequested,
       api_deploy_container, storeVars, quotaVars, dockerVars, recoverVars
<1>4. ASSUME NEW a \in Approvals, approve(a)
      PROVE  OnlyRequested'
    BY <1>4, DeployAssumption DEF TypeOK, RequestInPlace, OnlyRequested, approve,
       quotaVars, dockerVars, recoverVars
<1>5. ASSUME NEW a \in Approvals, ApproveExpired(a)
      PROVE  OnlyRequested'
    BY <1>5, DeployAssumption DEF TypeOK, RequestInPlace, OnlyRequested,
       ApproveExpired, Fault, Saved, PendingIn, requestVars, quotaVars, dockerVars,
       recoverVars
<1>6. ASSUME NEW a \in Approvals, reject(a)
      PROVE  OnlyRequested'
    BY <1>6, DeployAssumption DEF TypeOK, RequestInPlace, OnlyRequested, reject,
       Fault, Saved, PendingIn, requestVars, quotaVars, dockerVars, recoverVars
<1>7. ASSUME NEW a \in Approvals, RejectUnlogged(a)
      PROVE  OnlyRequested'
    BY <1>7, DeployAssumption DEF TypeOK, RequestInPlace, OnlyRequested,
       RejectUnlogged, Fault, requestVars, quotaVars, dockerVars, recoverVars
<1>8. CASE Begin
    BY <1>8, DeployAssumption DEF TypeOK, RequestInPlace, OnlyRequested, Begin,
       Fault, Saved, Cleaned, Expiring, PendingIn, Ends, EndsBy, Unbound,
       enforce_trust_gates, request_approval, storeVars, quotaVars, dockerVars,
       recoverVars
<1>9. CASE SyncSkips
    BY <1>9, DeployAssumption DEF TypeOK, RequestInPlace, OnlyRequested, SyncSkips,
       Fault, storeVars, quotaVars, dockerVars, recoverVars
<1>10. CASE SyncLists
    BY <1>10, DeployAssumption DEF TypeOK, RequestInPlace, OnlyRequested, SyncLists,
       storeVars, quotaVars, dockerVars, recoverVars
<1>11. CASE SyncApplies
    BY <1>11, DeployAssumption DEF TypeOK, RequestInPlace, OnlyRequested,
       SyncApplies, storeVars, dockerVars, recoverVars
<1>12. CASE Reserve
    BY <1>12, DeployAssumption DEF TypeOK, RequestInPlace, OnlyRequested, Reserve,
       Fault, Saved, PendingIn, Ends, quotaVars, dockerVars, recoverVars
<1>13. CASE RunFails
    BY <1>13, DeployAssumption DEF TypeOK, RequestInPlace, OnlyRequested, RunFails,
       Fault, PendingIn, EndsBy, quotaVars, dockerVars, recoverVars
<1>14. ASSUME NEW c \in Containers, Run(c)
      PROVE  OnlyRequested'
    BY <1>14, DeployAssumption DEF TypeOK, RequestInPlace, OnlyRequested, Run,
       NextContainer, storeVars, quotaVars, recoverVars, Direct, Unused
<1>15. CASE CheckFails
    BY <1>15, DeployAssumption DEF TypeOK, RequestInPlace, OnlyRequested,
       CheckFails, Fault, PendingIn, EndsBy, cleanup_failed_container_start,
       quotaVars, recoverVars
<1>16. CASE Commit
    BY <1>16, DeployAssumption DEF TypeOK, RequestInPlace, OnlyRequested, Commit,
       storeVars, dockerVars, recoverVars
<1>17. CASE Tail
    BY <1>17, DeployAssumption DEF TypeOK, RequestInPlace, OnlyRequested, Tail,
       Fault, Saved, PendingIn, Ends, dockerVars, recoverVars
<1>18. CASE RecoverLists
    BY <1>18, DeployAssumption DEF TypeOK, RequestInPlace, OnlyRequested,
       RecoverLists, Fault, storeVars, requestVars, quotaVars, dockerVars
<1>19. ASSUME NEW c \in Containers, RecoverOne(c)
      PROVE  OnlyRequested'
    BY <1>19, DeployAssumption DEF TypeOK, RequestInPlace, OnlyRequested,
       RecoverOne, Fault, storeVars, requestVars
<1>20. CASE RecoverEnds
    BY <1>20, DeployAssumption DEF TypeOK, RequestInPlace, OnlyRequested,
       RecoverEnds, storeVars, requestVars, quotaVars, dockerVars
<1>21. ASSUME NEW c \in Containers, TimerFires(c)
      PROVE  OnlyRequested'
    BY <1>21, DeployAssumption DEF TypeOK, RequestInPlace, OnlyRequested,
       TimerFires, Fault, storeVars, requestVars, recoverVars
<1>22. ASSUME NEW c \in Containers, ContainerExits(c)
      PROVE  OnlyRequested'
    BY <1>22, DeployAssumption DEF TypeOK, RequestInPlace, OnlyRequested,
       ContainerExits, storeVars, requestVars, quotaVars, recoverVars
<1>23. ASSUME NEW c \in Containers, ContainerRestarted(c)
      PROVE  OnlyRequested'
    BY <1>23, DeployAssumption DEF TypeOK, RequestInPlace, OnlyRequested,
       ContainerRestarted, Fault, storeVars, requestVars, quotaVars, recoverVars,
       Unused
<1>24. ASSUME NEW c \in Containers, ContainerOverdue(c)
      PROVE  OnlyRequested'
    BY <1>24, DeployAssumption DEF TypeOK, RequestInPlace, OnlyRequested,
       ContainerOverdue, storeVars, requestVars, quotaVars, recoverVars
<1>25. ASSUME NEW a \in Approvals, ApprovalLate(a)
      PROVE  OnlyRequested'
    BY <1>25, DeployAssumption DEF TypeOK, RequestInPlace, OnlyRequested,
       ApprovalLate, storeVars, requestVars, quotaVars, dockerVars, recoverVars
<1>26. CASE Crash
    BY <1>26, DeployAssumption DEF TypeOK, RequestInPlace, OnlyRequested, Crash,
       Fault, PendingIn, dockerVars
<1>27. CASE UNCHANGED vars
    BY <1>27, DeployAssumption DEF TypeOK, RequestInPlace, OnlyRequested, vars,
       storeVars, requestVars, quotaVars, dockerVars, recoverVars
<1> QED
    BY <1>1, <1>2, <1>3, <1>4, <1>5, <1>6, <1>7, <1>8, <1>9, <1>10, <1>11, <1>12,
       <1>13, <1>14, <1>15, <1>16, <1>17, <1>18, <1>19, <1>20, <1>21, <1>22, <1>23,
       <1>24, <1>25, <1>26, <1>27 DEF Next, RequestStep, RecoverStep

\* A container is entered in the table, or removed, before the next request.
LEMMA RunningKnownStep ==
  ASSUME TypeOK, RequestInPlace, RunningKnown, [Next]_vars
  PROVE  RunningKnown'
<1>1. CASE get_pending
    BY <1>1, DeployAssumption DEF TypeOK, RequestInPlace, RunningKnown, get_pending,
       Fault, Saved, Synced, Cleaned, Expiring, PendingIn, requestVars, quotaVars,
       dockerVars, recoverVars
<1>2. ASSUME NEW a \in Approvals, get_approval(a)
      PROVE  RunningKnown'
    BY <1>2, DeployAssumption DEF TypeOK, RequestInPlace, RunningKnown,
       get_approval, Synced, Expiring, PendingIn, requestVars, quotaVars,
       dockerVars, recoverVars
<1>3. CASE api_deploy_container
    BY <1>3, DeployAssumption DEF TypeOK, RequestInPlace, RunningKnown,
       api_deploy_container, storeVars, quotaVars, dockerVars, recoverVars
<1>4. ASSUME NEW a \in Approvals, approve(a)
      PROVE  RunningKnown'
    BY <1>4, DeployAssumption DEF TypeOK, RequestInPlace, RunningKnown, approve,
       quotaVars, dockerVars, recoverVars
<1>5. ASSUME NEW a \in Approvals, ApproveExpired(a)
      PROVE  RunningKnown'
    BY <1>5, DeployAssumption DEF TypeOK, RequestInPlace, RunningKnown,
       ApproveExpired, Fault, Saved, PendingIn, requestVars, quotaVars, dockerVars,
       recoverVars
<1>6. ASSUME NEW a \in Approvals, reject(a)
      PROVE  RunningKnown'
    BY <1>6, DeployAssumption DEF TypeOK, RequestInPlace, RunningKnown, reject,
       Fault, Saved, PendingIn, requestVars, quotaVars, dockerVars, recoverVars
<1>7. ASSUME NEW a \in Approvals, RejectUnlogged(a)
      PROVE  RunningKnown'
    BY <1>7, DeployAssumption DEF TypeOK, RequestInPlace, RunningKnown,
       RejectUnlogged, Fault, requestVars, quotaVars, dockerVars, recoverVars
<1>8. CASE Begin
    BY <1>8, DeployAssumption DEF TypeOK, RequestInPlace, RunningKnown, Begin,
       Fault, Saved, Cleaned, Expiring, PendingIn, Ends, EndsBy, Unbound,
       enforce_trust_gates, request_approval, storeVars, quotaVars, dockerVars,
       recoverVars
<1>9. CASE SyncSkips
    BY <1>9, DeployAssumption DEF TypeOK, RequestInPlace, RunningKnown, SyncSkips,
       Fault, storeVars, quotaVars, dockerVars, recoverVars
<1>10. CASE SyncLists
    BY <1>10, DeployAssumption DEF TypeOK, RequestInPlace, RunningKnown, SyncLists,
       storeVars, quotaVars, dockerVars, recoverVars
<1>11. CASE SyncApplies
    BY <1>11, DeployAssumption DEF TypeOK, RequestInPlace, RunningKnown,
       SyncApplies, storeVars, dockerVars, recoverVars
<1>12. CASE Reserve
    BY <1>12, DeployAssumption DEF TypeOK, RequestInPlace, RunningKnown, Reserve,
       Fault, Saved, PendingIn, Ends, quotaVars, dockerVars, recoverVars
<1>13. CASE RunFails
    BY <1>13, DeployAssumption DEF TypeOK, RequestInPlace, RunningKnown, RunFails,
       Fault, PendingIn, EndsBy, quotaVars, dockerVars, recoverVars
<1>14. ASSUME NEW c \in Containers, Run(c)
      PROVE  RunningKnown'
    BY <1>14, DeployAssumption DEF TypeOK, RequestInPlace, RunningKnown, Run,
       NextContainer, storeVars, quotaVars, recoverVars, Direct, Unused
<1>15. CASE CheckFails
    BY <1>15, DeployAssumption DEF TypeOK, RequestInPlace, RunningKnown, CheckFails,
       Fault, PendingIn, EndsBy, cleanup_failed_container_start, quotaVars,
       recoverVars
<1>16. CASE Commit
    BY <1>16, DeployAssumption DEF TypeOK, RequestInPlace, RunningKnown, Commit,
       storeVars, dockerVars, recoverVars
<1>17. CASE Tail
    BY <1>17, DeployAssumption DEF TypeOK, RequestInPlace, RunningKnown, Tail,
       Fault, Saved, PendingIn, Ends, dockerVars, recoverVars
<1>18. CASE RecoverLists
    BY <1>18, DeployAssumption DEF TypeOK, RequestInPlace, RunningKnown,
       RecoverLists, Fault, storeVars, requestVars, quotaVars, dockerVars
<1>19. ASSUME NEW c \in Containers, RecoverOne(c)
      PROVE  RunningKnown'
    BY <1>19, DeployAssumption DEF TypeOK, RequestInPlace, RunningKnown, RecoverOne,
       Fault, storeVars, requestVars
<1>20. CASE RecoverEnds
    BY <1>20, DeployAssumption DEF TypeOK, RequestInPlace, RunningKnown,
       RecoverEnds, storeVars, requestVars, quotaVars, dockerVars
<1>21. ASSUME NEW c \in Containers, TimerFires(c)
      PROVE  RunningKnown'
    BY <1>21, DeployAssumption DEF TypeOK, RequestInPlace, RunningKnown, TimerFires,
       Fault, storeVars, requestVars, recoverVars
<1>22. ASSUME NEW c \in Containers, ContainerExits(c)
      PROVE  RunningKnown'
    BY <1>22, DeployAssumption DEF TypeOK, RequestInPlace, RunningKnown,
       ContainerExits, storeVars, requestVars, quotaVars, recoverVars
<1>23. ASSUME NEW c \in Containers, ContainerRestarted(c)
      PROVE  RunningKnown'
    BY <1>23, DeployAssumption DEF TypeOK, RequestInPlace, RunningKnown,
       ContainerRestarted, Fault, storeVars, requestVars, quotaVars, recoverVars,
       Unused
<1>24. ASSUME NEW c \in Containers, ContainerOverdue(c)
      PROVE  RunningKnown'
    BY <1>24, DeployAssumption DEF TypeOK, RequestInPlace, RunningKnown,
       ContainerOverdue, storeVars, requestVars, quotaVars, recoverVars
<1>25. ASSUME NEW a \in Approvals, ApprovalLate(a)
      PROVE  RunningKnown'
    BY <1>25, DeployAssumption DEF TypeOK, RequestInPlace, RunningKnown,
       ApprovalLate, storeVars, requestVars, quotaVars, dockerVars, recoverVars
<1>26. CASE Crash
    BY <1>26, DeployAssumption DEF TypeOK, RequestInPlace, RunningKnown, Crash,
       Fault, PendingIn, dockerVars
<1>27. CASE UNCHANGED vars
    BY <1>27, DeployAssumption DEF TypeOK, RequestInPlace, RunningKnown, vars,
       storeVars, requestVars, quotaVars, dockerVars, recoverVars
<1> QED
    BY <1>1, <1>2, <1>3, <1>4, <1>5, <1>6, <1>7, <1>8, <1>9, <1>10, <1>11, <1>12,
       <1>13, <1>14, <1>15, <1>16, <1>17, <1>18, <1>19, <1>20, <1>21, <1>22, <1>23,
       <1>24, <1>25, <1>26, <1>27 DEF Next, RequestStep, RecoverStep

\* Fewer containers count for less.
LEMMA FewerRunning ==
  ASSUME TypeOK, NEW S \in SUBSET running
  PROVE  /\ Cardinality(S) \in Nat
         /\ Cardinality(running) \in Nat
         /\ Cardinality(S) <= Cardinality(running)
<1>1. IsFiniteSet(running)
    BY DeployAssumption, FS_Subset DEF TypeOK
<1>2. IsFiniteSet(S)
    BY <1>1, FS_Subset
<1> QED BY <1>1, <1>2, FS_Subset, FS_CardinalityType

\* Only the start of a container that was counted adds to the running ones.
LEMMA RoomForOneStep ==
  ASSUME TypeOK, RequestInPlace, RunningKnown, RoomForOne, [Next]_vars
  PROVE  RoomForOne'
<1>1. CASE get_pending
    BY <1>1, DeployAssumption DEF TypeOK, RequestInPlace, RoomForOne, get_pending,
       Fault, Saved, Synced, Cleaned, Expiring, PendingIn, requestVars, quotaVars,
       dockerVars, recoverVars
<1>2. ASSUME NEW a \in Approvals, get_approval(a)
      PROVE  RoomForOne'
    BY <1>2, DeployAssumption DEF TypeOK, RequestInPlace, RoomForOne, get_approval,
       Synced, Expiring, PendingIn, requestVars, quotaVars, dockerVars, recoverVars
<1>3. CASE api_deploy_container
    BY <1>3, DeployAssumption DEF TypeOK, RequestInPlace, RoomForOne,
       api_deploy_container, storeVars, quotaVars, dockerVars, recoverVars
<1>4. ASSUME NEW a \in Approvals, approve(a)
      PROVE  RoomForOne'
    BY <1>4, DeployAssumption DEF TypeOK, RequestInPlace, RoomForOne, approve,
       quotaVars, dockerVars, recoverVars
<1>5. ASSUME NEW a \in Approvals, ApproveExpired(a)
      PROVE  RoomForOne'
    BY <1>5, DeployAssumption DEF TypeOK, RequestInPlace, RoomForOne,
       ApproveExpired, Fault, Saved, PendingIn, requestVars, quotaVars, dockerVars,
       recoverVars
<1>6. ASSUME NEW a \in Approvals, reject(a)
      PROVE  RoomForOne'
    BY <1>6, DeployAssumption DEF TypeOK, RequestInPlace, RoomForOne, reject, Fault,
       Saved, PendingIn, requestVars, quotaVars, dockerVars, recoverVars
<1>7. ASSUME NEW a \in Approvals, RejectUnlogged(a)
      PROVE  RoomForOne'
    BY <1>7, DeployAssumption DEF TypeOK, RequestInPlace, RoomForOne,
       RejectUnlogged, Fault, requestVars, quotaVars, dockerVars, recoverVars
<1>8. CASE Begin
    BY <1>8, DeployAssumption DEF TypeOK, RequestInPlace, RoomForOne, Begin, Fault,
       Saved, Cleaned, Expiring, PendingIn, Ends, EndsBy, Unbound,
       enforce_trust_gates, request_approval, storeVars, quotaVars, dockerVars,
       recoverVars
<1>9. CASE SyncSkips
    BY <1>9, DeployAssumption DEF TypeOK, RequestInPlace, RoomForOne, SyncSkips,
       Fault, storeVars, quotaVars, dockerVars, recoverVars
<1>10. CASE SyncLists
    BY <1>10, DeployAssumption DEF TypeOK, RequestInPlace, RoomForOne, SyncLists,
       storeVars, quotaVars, dockerVars, recoverVars
<1>11. CASE SyncApplies
    BY <1>11, DeployAssumption DEF TypeOK, RequestInPlace, RoomForOne, SyncApplies,
       storeVars, dockerVars, recoverVars
<1>12. CASE Reserve
  <2>1. UNCHANGED running
      BY <1>12 DEF Reserve, dockerVars
  <2>2. "docker" \notin faults'.kinds => "docker" \notin faults.kinds
      BY <1>12 DEF Reserve, Ends, Saved, Fault
  <2>3. CASE pc' = "idle"
      BY <2>1, <2>2, <2>3 DEF RoomForOne
  <2>4. CASE "docker" \notin faults.kinds /\ Cardinality(active) + reserved < MaxContainers
    <3>1. running \subseteq active
        BY <1>12, <2>4 DEF Reserve, RunningKnown
    <3>2. IsFiniteSet(active)
        BY DeployAssumption, FS_Subset DEF TypeOK
    <3>3. Cardinality(running) <= Cardinality(active)
        BY <3>1, <3>2, FS_Subset
    <3>4. Cardinality(running) \in Nat /\ Cardinality(active) \in Nat
        BY <3>2, FewerRunning, FS_CardinalityType
    <3>5. reserved = 0
        BY <1>12 DEF Reserve, RequestInPlace
    <3> QED BY <2>1, <2>2, <2>4, <3>3, <3>4, <3>5, DeployAssumption DEF RoomForOne
  <2>5. CASE "docker" \in faults.kinds
      BY <2>2, <2>5 DEF RoomForOne
  <2>6. Cardinality(active) \in Nat
      BY DeployAssumption, FS_Subset, FS_CardinalityType DEF TypeOK
  <2> QED BY <1>12, <2>3, <2>4, <2>5, <2>6, DeployAssumption DEF Reserve, Ends, TypeOK
<1>13. CASE RunFails
    BY <1>13, DeployAssumption DEF TypeOK, RequestInPlace, RoomForOne, RunFails,
       Fault, PendingIn, EndsBy, quotaVars, dockerVars, recoverVars
<1>14. ASSUME NEW c \in Containers, Run(c)
      PROVE  RoomForOne'
  <2>1. IsFiniteSet(running)
      BY DeployAssumption, FS_Subset DEF TypeOK
  <2>2. Cardinality(running \cup {c}) <= Cardinality(running) + 1
    <3>1. CASE c \in running
      <4>1. running \cup {c} = running
          BY <3>1
      <4> QED BY <4>1, FewerRunning
    <3>2. CASE c \notin running
      <4>1. Cardinality(running \cup {c}) = Cardinality(running) + 1
          BY <2>1, <3>2, FS_AddElement
      <4> QED BY <2>1, <4>1, FS_CardinalityType
    <3> QED BY <3>1, <3>2
  <2>3. Cardinality(running) \in Nat /\ Cardinality(running \cup {c}) \in Nat
      BY <2>1, FS_AddElement, FS_CardinalityType
  <2> QED BY <1>14, <2>2, <2>3, DeployAssumption DEF RoomForOne, Run
<1>15. CASE CheckFails
  <2>1. running' \subseteq running
      BY <1>15 DEF CheckFails, cleanup_failed_container_start, EndsBy
  <2>2. Cardinality(running') <= Cardinality(running)
      BY <2>1, FewerRunning
  <2>3. Cardinality(running) \in Nat /\ Cardinality(running') \in Nat
      BY <2>1, FewerRunning
  <2>4. "docker" \notin faults'.kinds => "docker" \notin faults.kinds
      BY <1>15 DEF CheckFails, cleanup_failed_container_start, EndsBy, Fault
  <2>5. pc' = "run" => pc = "run"
      BY <1>15 DEF CheckFails, cleanup_failed_container_start, EndsBy, requestVars
  <2> QED BY <2>2, <2>3, <2>4, <2>5, DeployAssumption DEF RoomForOne
<1>16. CASE Commit
    BY <1>16, DeployAssumption DEF TypeOK, RequestInPlace, RoomForOne, Commit,
       storeVars, dockerVars, recoverVars
<1>17. CASE Tail
    BY <1>17, DeployAssumption DEF TypeOK, RequestInPlace, RoomForOne, Tail, Fault,
       Saved, PendingIn, Ends, dockerVars, recoverVars
<1>18. CASE RecoverLists
    BY <1>18, DeployAssumption DEF TypeOK, RequestInPlace, RoomForOne, RecoverLists,
       Fault, storeVars, requestVars, quotaVars, dockerVars
<1>19. ASSUME NEW c \in Containers, RecoverOne(c)
      PROVE  RoomForOne'
  <2>1. running' \subseteq running
      BY <1>19 DEF RecoverOne
  <2>2. Cardinality(running') <= Cardinality(running)
      BY <2>1, FewerRunning
  <2>3. Cardinality(running) \in Nat /\ Cardinality(running') \in Nat
      BY <2>1, FewerRunning
  <2>4. "docker" \notin faults'.kinds => "docker" \notin faults.kinds
      BY <1>19 DEF RecoverOne, Fault
  <2>5. pc' = "run" => pc = "run"
      BY <1>19 DEF RecoverOne, requestVars
  <2> QED BY <2>2, <2>3, <2>4, <2>5, DeployAssumption DEF RoomForOne
<1>20. CASE RecoverEnds
    BY <1>20, DeployAssumption DEF TypeOK, RequestInPlace, RoomForOne, RecoverEnds,
       storeVars, requestVars, quotaVars, dockerVars
<1>21. ASSUME NEW c \in Containers, TimerFires(c)
      PROVE  RoomForOne'
  <2>1. running' \subseteq running
      BY <1>21 DEF TimerFires
  <2>2. Cardinality(running') <= Cardinality(running)
      BY <2>1, FewerRunning
  <2>3. Cardinality(running) \in Nat /\ Cardinality(running') \in Nat
      BY <2>1, FewerRunning
  <2>4. "docker" \notin faults'.kinds => "docker" \notin faults.kinds
      BY <1>21 DEF TimerFires, Fault
  <2>5. pc' = "run" => pc = "run"
      BY <1>21 DEF TimerFires, requestVars
  <2> QED BY <2>2, <2>3, <2>4, <2>5, DeployAssumption DEF RoomForOne
<1>22. ASSUME NEW c \in Containers, ContainerExits(c)
      PROVE  RoomForOne'
  <2>1. running' \subseteq running
      BY <1>22 DEF ContainerExits
  <2>2. Cardinality(running') <= Cardinality(running)
      BY <2>1, FewerRunning
  <2>3. Cardinality(running) \in Nat /\ Cardinality(running') \in Nat
      BY <2>1, FewerRunning
  <2>4. "docker" \notin faults'.kinds => "docker" \notin faults.kinds
      BY <1>22 DEF ContainerExits, Fault
  <2>5. pc' = "run" => pc = "run"
      BY <1>22 DEF ContainerExits, requestVars
  <2> QED BY <2>2, <2>3, <2>4, <2>5, DeployAssumption DEF RoomForOne
<1>23. ASSUME NEW c \in Containers, ContainerRestarted(c)
      PROVE  RoomForOne'
    BY <1>23, DeployAssumption DEF TypeOK, RequestInPlace, RoomForOne,
       ContainerRestarted, Fault, storeVars, requestVars, quotaVars, recoverVars,
       Unused
<1>24. ASSUME NEW c \in Containers, ContainerOverdue(c)
      PROVE  RoomForOne'
    BY <1>24, DeployAssumption DEF TypeOK, RequestInPlace, RoomForOne,
       ContainerOverdue, storeVars, requestVars, quotaVars, recoverVars
<1>25. ASSUME NEW a \in Approvals, ApprovalLate(a)
      PROVE  RoomForOne'
    BY <1>25, DeployAssumption DEF TypeOK, RequestInPlace, RoomForOne, ApprovalLate,
       storeVars, requestVars, quotaVars, dockerVars, recoverVars
<1>26. CASE Crash
    BY <1>26, DeployAssumption DEF TypeOK, RequestInPlace, RoomForOne, Crash, Fault,
       PendingIn, dockerVars
<1>27. CASE UNCHANGED vars
    BY <1>27, DeployAssumption DEF TypeOK, RequestInPlace, RoomForOne, vars,
       storeVars, requestVars, quotaVars, dockerVars, recoverVars
<1> QED
    BY <1>1, <1>2, <1>3, <1>4, <1>5, <1>6, <1>7, <1>8, <1>9, <1>10, <1>11, <1>12,
       <1>13, <1>14, <1>15, <1>16, <1>17, <1>18, <1>19, <1>20, <1>21, <1>22, <1>23,
       <1>24, <1>25, <1>26, <1>27 DEF Next, RequestStep, RecoverStep

\* An entry comes back only when its decision was not saved.
LEMMA PendingIsFreshStep ==
  ASSUME TypeOK, RequestInPlace, OnlyRequested, PendingIsFresh, FileFits,
     [Next]_vars
  PROVE  PendingIsFresh'
<1>1. CASE get_pending
    BY <1>1, DeployAssumption DEF TypeOK, RequestInPlace, OnlyRequested,
       PendingIsFresh, FreshApproval, FileFits, get_pending, Fault, Saved, Synced,
       Cleaned, Expiring, PendingIn, requestVars, quotaVars, dockerVars, recoverVars
<1>2. ASSUME NEW a \in Approvals, get_approval(a)
      PROVE  PendingIsFresh'
    BY <1>2, DeployAssumption DEF TypeOK, RequestInPlace, OnlyRequested,
       PendingIsFresh, FreshApproval, FileFits, get_approval, Synced, Expiring,
       PendingIn, requestVars, quotaVars, dockerVars, recoverVars
<1>3. CASE api_deploy_container
    BY <1>3, DeployAssumption DEF TypeOK, RequestInPlace, OnlyRequested,
       PendingIsFresh, FreshApproval, FileFits, api_deploy_container, storeVars,
       quotaVars, dockerVars, recoverVars
<1>4. ASSUME NEW a \in Approvals, approve(a)
      PROVE  PendingIsFresh'
    BY <1>4, DeployAssumption DEF TypeOK, RequestInPlace, OnlyRequested,
       PendingIsFresh, FreshApproval, FileFits, approve, quotaVars, dockerVars,
       recoverVars
<1>5. ASSUME NEW a \in Approvals, ApproveExpired(a)
      PROVE  PendingIsFresh'
    BY <1>5, DeployAssumption DEF TypeOK, RequestInPlace, OnlyRequested,
       PendingIsFresh, FreshApproval, FileFits, ApproveExpired, Fault, Saved,
       PendingIn, requestVars, quotaVars, dockerVars, recoverVars
<1>6. ASSUME NEW a \in Approvals, reject(a)
      PROVE  PendingIsFresh'
    BY <1>6, DeployAssumption DEF TypeOK, RequestInPlace, OnlyRequested,
       PendingIsFresh, FreshApproval, FileFits, reject, Fault, Saved, PendingIn,
       requestVars, quotaVars, dockerVars, recoverVars
<1>7. ASSUME NEW a \in Approvals, RejectUnlogged(a)
      PROVE  PendingIsFresh'
    BY <1>7, DeployAssumption DEF TypeOK, RequestInPlace, OnlyRequested,
       PendingIsFresh, FreshApproval, FileFits, RejectUnlogged, Fault, requestVars,
       quotaVars, dockerVars, recoverVars
<1>8. CASE Begin
  <2>0. /\ pc = "begin"
        /\ UNCHANGED <<late, reserved, active, armed, synced, running, owner, overdue, rec,
                       found, skipped>>
      BY <1>8 DEF Begin, quotaVars, dockerVars, recoverVars
  <2>1. CASE Unbound
      BY <2>0, <2>1, DeployAssumption DEF TypeOK, RequestInPlace, OnlyRequested,
         PendingIsFresh, FreshApproval, FileFits, Unbound, Ends, Saved, Fault,
         PendingIn
  <2>2. CASE enforce_trust_gates
      BY <2>0, <2>2, DeployAssumption DEF TypeOK, RequestInPlace, OnlyRequested,
         PendingIsFresh, FreshApproval, FileFits, enforce_trust_gates, EndsBy,
         Fault, PendingIn
  <2>3. ASSUME NEW a \in Approvals \ known, request_approval(a)
        PROVE  PendingIsFresh'
      BY <2>0, <2>3, DeployAssumption DEF TypeOK, RequestInPlace, OnlyRequested,
         PendingIsFresh, FreshApproval, FileFits, request_approval, Saved, Cleaned,
         Expiring, Fault, PendingIn
  <2>4. CASE pc' = "sync" /\ UNCHANGED <<storeVars, req, cont, seen, faults>>
      BY <2>0, <2>4, DeployAssumption DEF TypeOK, RequestInPlace, OnlyRequested,
         PendingIsFresh, FreshApproval, FileFits, storeVars
  <2> QED BY <1>8, <2>1, <2>2, <2>3, <2>4 DEF Begin
<1>9. CASE SyncSkips
    BY <1>9, DeployAssumption DEF TypeOK, RequestInPlace, OnlyRequested,
       PendingIsFresh, FreshApproval, FileFits, SyncSkips, Fault, storeVars,
       quotaVars, dockerVars, recoverVars
<1>10. CASE SyncLists
    BY <1>10, DeployAssumption DEF TypeOK, RequestInPlace, OnlyRequested,
       PendingIsFresh, FreshApproval, FileFits, SyncLists, storeVars, quotaVars,
       dockerVars, recoverVars
<1>11. CASE SyncApplies
    BY <1>11, DeployAssumption DEF TypeOK, RequestInPlace, OnlyRequested,
       PendingIsFresh, FreshApproval, FileFits, SyncApplies, storeVars, dockerVars,
       recoverVars
<1>12. CASE Reserve
    BY <1>12, DeployAssumption DEF TypeOK, RequestInPlace, OnlyRequested,
       PendingIsFresh, FreshApproval, FileFits, Reserve, Fault, Saved, PendingIn,
       Ends, quotaVars, dockerVars, recoverVars
<1>13. CASE RunFails
    BY <1>13, DeployAssumption DEF TypeOK, RequestInPlace, OnlyRequested,
       PendingIsFresh, FreshApproval, FileFits, RunFails, Fault, PendingIn, EndsBy,
       quotaVars, dockerVars, recoverVars
<1>14. ASSUME NEW c \in Containers, Run(c)
      PROVE  PendingIsFresh'
    BY <1>14, DeployAssumption DEF TypeOK, RequestInPlace, OnlyRequested,
       PendingIsFresh, FreshApproval, FileFits, Run, NextContainer, storeVars,
       quotaVars, recoverVars, Direct, Unused
<1>15. CASE CheckFails
    BY <1>15, DeployAssumption DEF TypeOK, RequestInPlace, OnlyRequested,
       PendingIsFresh, FreshApproval, FileFits, CheckFails, Fault, PendingIn,
       EndsBy, cleanup_failed_container_start, quotaVars, recoverVars
<1>16. CASE Commit
    BY <1>16, DeployAssumption DEF TypeOK, RequestInPlace, OnlyRequested,
       PendingIsFresh, FreshApproval, FileFits, Commit, storeVars, dockerVars,
       recoverVars
<1>17. CASE Tail
    BY <1>17, DeployAssumption DEF TypeOK, RequestInPlace, OnlyRequested,
       PendingIsFresh, FreshApproval, FileFits, Tail, Fault, Saved, PendingIn, Ends,
       dockerVars, recoverVars
<1>18. CASE RecoverLists
    BY <1>18, DeployAssumption DEF TypeOK, RequestInPlace, OnlyRequested,
       PendingIsFresh, FreshApproval, FileFits, RecoverLists, Fault, storeVars,
       requestVars, quotaVars, dockerVars
<1>19. ASSUME NEW c \in Containers, RecoverOne(c)
      PROVE  PendingIsFresh'
    BY <1>19, DeployAssumption DEF TypeOK, RequestInPlace, OnlyRequested,
       PendingIsFresh, FreshApproval, FileFits, RecoverOne, Fault, storeVars,
       requestVars
<1>20. CASE RecoverEnds
    BY <1>20, DeployAssumption DEF TypeOK, RequestInPlace, OnlyRequested,
       PendingIsFresh, FreshApproval, FileFits, RecoverEnds, storeVars, requestVars,
       quotaVars, dockerVars
<1>21. ASSUME NEW c \in Containers, TimerFires(c)
      PROVE  PendingIsFresh'
    BY <1>21, DeployAssumption DEF TypeOK, RequestInPlace, OnlyRequested,
       PendingIsFresh, FreshApproval, FileFits, TimerFires, Fault, storeVars,
       requestVars, recoverVars
<1>22. ASSUME NEW c \in Containers, ContainerExits(c)
      PROVE  PendingIsFresh'
    BY <1>22, DeployAssumption DEF TypeOK, RequestInPlace, OnlyRequested,
       PendingIsFresh, FreshApproval, FileFits, ContainerExits, storeVars,
       requestVars, quotaVars, recoverVars
<1>23. ASSUME NEW c \in Containers, ContainerRestarted(c)
      PROVE  PendingIsFresh'
    BY <1>23, DeployAssumption DEF TypeOK, RequestInPlace, OnlyRequested,
       PendingIsFresh, FreshApproval, FileFits, ContainerRestarted, Fault,
       storeVars, requestVars, quotaVars, recoverVars, Unused
<1>24. ASSUME NEW c \in Containers, ContainerOverdue(c)
      PROVE  PendingIsFresh'
    BY <1>24, DeployAssumption DEF TypeOK, RequestInPlace, OnlyRequested,
       PendingIsFresh, FreshApproval, FileFits, ContainerOverdue, storeVars,
       requestVars, quotaVars, recoverVars
<1>25. ASSUME NEW a \in Approvals, ApprovalLate(a)
      PROVE  PendingIsFresh'
    BY <1>25, DeployAssumption DEF TypeOK, RequestInPlace, OnlyRequested,
       PendingIsFresh, FreshApproval, FileFits, ApprovalLate, storeVars,
       requestVars, quotaVars, dockerVars, recoverVars
<1>26. CASE Crash
    BY <1>26, DeployAssumption DEF TypeOK, RequestInPlace, OnlyRequested,
       PendingIsFresh, FreshApproval, FileFits, Crash, Fault, PendingIn, dockerVars
<1>27. CASE UNCHANGED vars
    BY <1>27, DeployAssumption DEF TypeOK, RequestInPlace, OnlyRequested,
       PendingIsFresh, FreshApproval, FileFits, vars, storeVars, requestVars,
       quotaVars, dockerVars, recoverVars
<1> QED
    BY <1>1, <1>2, <1>3, <1>4, <1>5, <1>6, <1>7, <1>8, <1>9, <1>10, <1>11, <1>12,
       <1>13, <1>14, <1>15, <1>16, <1>17, <1>18, <1>19, <1>20, <1>21, <1>22, <1>23,
       <1>24, <1>25, <1>26, <1>27 DEF Next, RequestStep, RecoverStep

\* A save brings the file up to date, and a failed one is remembered.
LEMMA FileFitsStep ==
  ASSUME TypeOK, RequestInPlace, OnlyRequested, FileFits, [Next]_vars
  PROVE  FileFits'
<1>1. CASE get_pending
  <2>1. CASE Expiring(Synced) = {}
      BY <1>1, <2>1 DEF get_pending, FileFits, Synced, Cleaned, TypeOK
  <2>2. CASE Saved(pending')
      BY <1>1, <2>2 DEF get_pending, Saved, PendingIn, FileFits, TypeOK
  <2> QED BY <1>1, <2>1, <2>2 DEF get_pending
<1>2. ASSUME NEW a \in Approvals, get_approval(a)
      PROVE  FileFits'
    BY <1>2, DeployAssumption DEF TypeOK, RequestInPlace, OnlyRequested, FileFits,
       get_approval, Synced, Expiring, PendingIn, requestVars, quotaVars,
       dockerVars, recoverVars
<1>3. CASE api_deploy_container
    BY <1>3, DeployAssumption DEF TypeOK, RequestInPlace, OnlyRequested, FileFits,
       api_deploy_container, storeVars, quotaVars, dockerVars, recoverVars
<1>4. ASSUME NEW a \in Approvals, approve(a)
      PROVE  FileFits'
    BY <1>4, DeployAssumption DEF TypeOK, RequestInPlace, OnlyRequested, FileFits,
       approve, quotaVars, dockerVars, recoverVars
<1>5. ASSUME NEW a \in Approvals, ApproveExpired(a)
      PROVE  FileFits'
    BY <1>5, DeployAssumption DEF TypeOK, RequestInPlace, OnlyRequested, FileFits,
       ApproveExpired, Fault, Saved, PendingIn, requestVars, quotaVars, dockerVars,
       recoverVars
<1>6. ASSUME NEW a \in Approvals, reject(a)
      PROVE  FileFits'
    BY <1>6, DeployAssumption DEF TypeOK, RequestInPlace, OnlyRequested, FileFits,
       reject, Fault, Saved, PendingIn, requestVars, quotaVars, dockerVars,
       recoverVars
<1>7. ASSUME NEW a \in Approvals, RejectUnlogged(a)
      PROVE  FileFits'
    BY <1>7, DeployAssumption DEF TypeOK, RequestInPlace, OnlyRequested, FileFits,
       RejectUnlogged, Fault, requestVars, quotaVars, dockerVars, recoverVars
<1>8. CASE Begin
    BY <1>8, DeployAssumption DEF TypeOK, RequestInPlace, OnlyRequested, FileFits,
       Begin, Fault, Saved, Cleaned, Expiring, PendingIn, Ends, EndsBy, Unbound,
       enforce_trust_gates, request_approval, storeVars, quotaVars, dockerVars,
       recoverVars
<1>9. CASE SyncSkips
    BY <1>9, DeployAssumption DEF TypeOK, RequestInPlace, OnlyRequested, FileFits,
       SyncSkips, Fault, storeVars, quotaVars, dockerVars, recoverVars
<1>10. CASE SyncLists
    BY <1>10, DeployAssumption DEF TypeOK, RequestInPlace, OnlyRequested, FileFits,
       SyncLists, storeVars, quotaVars, dockerVars, recoverVars
<1>11. CASE SyncApplies
    BY <1>11, DeployAssumption DEF TypeOK, RequestInPlace, OnlyRequested, FileFits,
       SyncApplies, storeVars, dockerVars, recoverVars
<1>12. CASE Reserve
    BY <1>12, DeployAssumption DEF TypeOK, RequestInPlace, OnlyRequested, FileFits,
       Reserve, Fault, Saved, PendingIn, Ends, quotaVars, dockerVars, recoverVars
<1>13. CASE RunFails
    BY <1>13, DeployAssumption DEF TypeOK, RequestInPlace, OnlyRequested, FileFits,
       RunFails, Fault, PendingIn, EndsBy, quotaVars, dockerVars, recoverVars
<1>14. ASSUME NEW c \in Containers, Run(c)
      PROVE  FileFits'
    BY <1>14, DeployAssumption DEF TypeOK, RequestInPlace, OnlyRequested, FileFits,
       Run, NextContainer, storeVars, quotaVars, recoverVars, Direct, Unused
<1>15. CASE CheckFails
    BY <1>15, DeployAssumption DEF TypeOK, RequestInPlace, OnlyRequested, FileFits,
       CheckFails, Fault, PendingIn, EndsBy, cleanup_failed_container_start,
       quotaVars, recoverVars
<1>16. CASE Commit
    BY <1>16, DeployAssumption DEF TypeOK, RequestInPlace, OnlyRequested, FileFits,
       Commit, storeVars, dockerVars, recoverVars
<1>17. CASE Tail
    BY <1>17, DeployAssumption DEF TypeOK, RequestInPlace, OnlyRequested, FileFits,
       Tail, Fault, Saved, PendingIn, Ends, dockerVars, recoverVars
<1>18. CASE RecoverLists
    BY <1>18, DeployAssumption DEF TypeOK, RequestInPlace, OnlyRequested, FileFits,
       RecoverLists, Fault, storeVars, requestVars, quotaVars, dockerVars
<1>19. ASSUME NEW c \in Containers, RecoverOne(c)
      PROVE  FileFits'
    BY <1>19, DeployAssumption DEF TypeOK, RequestInPlace, OnlyRequested, FileFits,
       RecoverOne, Fault, storeVars, requestVars
<1>20. CASE RecoverEnds
    BY <1>20, DeployAssumption DEF TypeOK, RequestInPlace, OnlyRequested, FileFits,
       RecoverEnds, storeVars, requestVars, quotaVars, dockerVars
<1>21. ASSUME NEW c \in Containers, TimerFires(c)
      PROVE  FileFits'
    BY <1>21, DeployAssumption DEF TypeOK, RequestInPlace, OnlyRequested, FileFits,
       TimerFires, Fault, storeVars, requestVars, recoverVars
<1>22. ASSUME NEW c \in Containers, ContainerExits(c)
      PROVE  FileFits'
    BY <1>22, DeployAssumption DEF TypeOK, RequestInPlace, OnlyRequested, FileFits,
       ContainerExits, storeVars, requestVars, quotaVars, recoverVars
<1>23. ASSUME NEW c \in Containers, ContainerRestarted(c)
      PROVE  FileFits'
    BY <1>23, DeployAssumption DEF TypeOK, RequestInPlace, OnlyRequested, FileFits,
       ContainerRestarted, Fault, storeVars, requestVars, quotaVars, recoverVars,
       Unused
<1>24. ASSUME NEW c \in Containers, ContainerOverdue(c)
      PROVE  FileFits'
    BY <1>24, DeployAssumption DEF TypeOK, RequestInPlace, OnlyRequested, FileFits,
       ContainerOverdue, storeVars, requestVars, quotaVars, recoverVars
<1>25. ASSUME NEW a \in Approvals, ApprovalLate(a)
      PROVE  FileFits'
    BY <1>25, DeployAssumption DEF TypeOK, RequestInPlace, OnlyRequested, FileFits,
       ApprovalLate, storeVars, requestVars, quotaVars, dockerVars, recoverVars
<1>26. CASE Crash
    BY <1>26, DeployAssumption DEF TypeOK, RequestInPlace, OnlyRequested, FileFits,
       Crash, Fault, PendingIn, dockerVars
<1>27. CASE UNCHANGED vars
    BY <1>27, DeployAssumption DEF TypeOK, RequestInPlace, OnlyRequested, FileFits,
       vars, storeVars, requestVars, quotaVars, dockerVars, recoverVars
<1> QED
    BY <1>1, <1>2, <1>3, <1>4, <1>5, <1>6, <1>7, <1>8, <1>9, <1>10, <1>11, <1>12,
       <1>13, <1>14, <1>15, <1>16, <1>17, <1>18, <1>19, <1>20, <1>21, <1>22, <1>23,
       <1>24, <1>25, <1>26, <1>27 DEF Next, RequestStep, RecoverStep

(***************************************************************************)
(* The theorems.                                                           *)
(***************************************************************************)
\* Every behaviour of the specification satisfies the invariant.
THEOREM DeployInvariant == Spec => []IInv
<1>1. IInv /\ [Next]_vars => IInv'
  <2> SUFFICES ASSUME IInv, [Next]_vars
               PROVE  IInv'
      OBVIOUS
  <2>1. TypeOK' /\ RequestInPlace' /\ OnlyRequested'
      BY TypeStep, RequestInPlaceStep, OnlyRequestedStep DEF IInv
  <2>2. RunningKnown' /\ RoomForOne'
      BY RunningKnownStep, RoomForOneStep DEF IInv
  <2>3. PendingIsFresh' /\ FileFits'
      BY PendingIsFreshStep, FileFitsStep DEF IInv
  <2> QED BY <2>1, <2>2, <2>3 DEF IInv
<1> QED BY InvInit, <1>1, PTL DEF Spec

\* reserve_quota() keeps the running containers within the quota, over
\* restarts, failed starts and exits, and every reservation is returned, unless
\* Docker did not answer or a container was started past the API.
THEOREM QuotaHoldsAlways == Spec => []QuotaHolds
<1>1. IInv => QuotaHolds
    BY DEF IInv, QuotaHolds, RoomForOne, RequestInPlace
<1> QED BY <1>1, DeployInvariant, PTL

\* An approval starts at most one container, and none after it was rejected or
\* has expired, unless its decision never reached the file.
THEOREM ApprovalUsedOnceHolds == Spec => ApprovalUsedOnce
<1>1. IInv /\ [Next]_vars =>
          [\A c \in Containers :
              LET a == owner'[c]
              IN owner[c] = Unused /\ a \in Approvals
                 => \/ a \notin refused /\ \A d \in Containers : owner[d] # a
                    \/ a \in undone]_vars
  <2> SUFFICES ASSUME IInv, Next, NEW c \in Containers,
                      owner[c] = Unused, owner'[c] \in Approvals
               PROVE  \/ /\ owner'[c] \notin refused
                         /\ \A d \in Containers : owner[d] # owner'[c]
                      \/ owner'[c] \in undone
      OBVIOUS
  <2>1. owner' # owner
      BY DeployAssumption
  <2>2. PICK d \in Containers : Run(d)
      BY <2>1 DEF Next, RequestStep, RecoverStep, get_pending, get_approval,
         api_deploy_container, approve, ApproveExpired, reject, RejectUnlogged, Begin,
         SyncSkips, SyncLists, SyncApplies, Reserve, RunFails, CheckFails, Commit, Tail,
         RecoverLists, RecoverOne, RecoverEnds, TimerFires, ContainerExits,
         ContainerRestarted, ContainerOverdue, ApprovalLate, Crash, dockerVars
  <2>3. owner'[c] = req
      BY <2>2, DeployAssumption DEF Run, IInv, TypeOK
  <2>4. pc = "run" /\ pending[req] = "approved"
      BY <2>2, <2>3 DEF Run, IInv, RequestInPlace
  <2> QED BY <2>3, <2>4 DEF IInv, PendingIsFresh, FreshApproval
<1> QED BY <1>1, DeployInvariant, PTL DEF Spec, ApprovalUsedOnce

=============================================================================
