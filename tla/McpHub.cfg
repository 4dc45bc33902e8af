\* Two callers, one reload after the first catalog, one shutdown.
SPECIFICATION Spec
CONSTANTS
    Callers = {c1, c2}
    Loop = loop
    Shut = shut
    NoOne = none
    MaxGen = 2
    MaxLate = 1
    MaxQueue = 1
INVARIANTS
    NoCallOnRetired
    NoForgottenTransport
    ShutdownLeavesOne
    CallsOnlyNegotiated
    MixedOnlyIfDisturbed
PROPERTIES
    ReloadEnds
    ShutdownEnds
