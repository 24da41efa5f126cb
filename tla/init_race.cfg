\* Two cores run cpu_arch_setup() on the same perworld_data[].
CONSTANTS
    c1 = c1  c2 = c2  v1 = v1  v2 = v2
    Cores <- TwoCores
    Vals <- OneVal
    Builds = {"MONITOR"}
    RunInCurrent = FALSE
    AArch32Regs = FALSE
    SEL2Present = TRUE
    RuntimeRebind = FALSE
SPECIFICATION Spec
INVARIANT InitNeverAsserts
CHECK_DEADLOCK FALSE
