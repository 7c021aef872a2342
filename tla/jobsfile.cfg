SPECIFICATION Spec
CONSTANTS
    Callers = {c1, c2, c3}
    Jobs = {j1, j2}
    NoCaller = NoCaller
    Orphan = Orphan
    FirstAlone = TRUE
    MaxOps = 4
    MaxCrashes = 1
INVARIANT LockProtectsFile
INVARIANT NoLostUpdate
PROPERTY ActsAtomically
CHECK_DEADLOCK FALSE
