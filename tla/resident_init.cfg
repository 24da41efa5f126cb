\* All three builds staying at their own level (ENABLE_RUN_IN_CURRENT), one
\* core, no AArch32 context (so the line-75 panic is not the reason).
CONSTANTS
    c1 = c1  c2 = c2  v1 = v1  v2 = v2
    Cores <- OneCore
    Vals <- OneVal
    Builds <- AllBuilds
    RunInCurrent = TRUE
    AArch32Regs = FALSE
    SEL2Present = TRUE
    RuntimeRebind = FALSE
SPECIFICATION Spec
PROPERTY InitCompletes
CHECK_DEADLOCK FALSE
