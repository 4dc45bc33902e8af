CONSTANTS
    s1 = s1  s2 = s2  f1 = f1
    ta = ta  tb = tb  tx = tx
    e1 = e1  e2 = e2
    StepIds = {s1, s2, f1}
    Tools = {ta, tb, tx}
    KnownTools = {ta, tb}
    Evidence = {e1, e2}
    Produces <- MCProduces
    NoStep = NoStep
    NoTool = NoTool
    NoLimit = NoLimit
    MaxCount = 4
    NoCriterion = NoCriterion
    InvalidCriterion = InvalidCriterion
    Replanned <- ActiveReplans
    FollowupSteps <- Followups
    Attached = {{}}
    ToolErrors = {"failed"}
    Configs <- ActiveConfigs
    InitialPlans <- ActivePlans
SPECIFICATION Spec
CHECK_DEADLOCK FALSE
INVARIANT ZeroReplansIsNoLimit
