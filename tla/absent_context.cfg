\* A save/restore for a state never bound on the core.
CONSTANTS
    c1 = c1  c2 = c2  v1 = v1  v2 = v2
    Cores <- OneCore
    Vals <- OneVal
    Builds = {"MONITOR"}
    RunInCurrent = FALSE
    AArch32Regs = FALSE
    SEL2Present = TRUE
    RuntimeRebind = TRUE
SPECIFICATION Spec
INVARIANT AbsentContextHalts
CHECK_DEADLOCK FALSE
