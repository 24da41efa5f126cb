\* Two cores share kernel_pcpu_context[]: one core's save is overwritten.
CONSTANTS
    c1 = c1  c2 = c2  v1 = v1  v2 = v2
    Cores <- TwoCores
    Vals <- OneVal
    Builds = {"MONITOR"}
    RunInCurrent = FALSE
    AArch32Regs = FALSE
    SEL2Present = TRUE
    RuntimeRebind = FALSE
SPECIFICATION Spec
INVARIANT ContextHoldsLastSave
CHECK_DEADLOCK FALSE
