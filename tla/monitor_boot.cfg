\* The EL3 monitor build descending to the Secure EL1 image, one core.
CONSTANTS
    c1 = c1  c2 = c2  v1 = v1  v2 = v2
    Cores <- OneCore
    Vals <- OneVal
    Builds = {"MONITOR"}
    RunInCurrent = FALSE
    AArch32Regs = FALSE
    SEL2Present = TRUE
    RuntimeRebind = TRUE
SPECIFICATION Spec
INVARIANT TypeOK
INVARIANT ContextHoldsLastSave
PROPERTY InitCompletes
CHECK_DEADLOCK FALSE
