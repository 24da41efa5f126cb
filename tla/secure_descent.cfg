\* Monitor and hypervisor builds: the descent of each breaks the descent law.
CONSTANTS
    c1 = c1  c2 = c2  v1 = v1  v2 = v2
    Cores <- OneCore
    Vals <- OneVal
    Builds <- DescentBuilds
    RunInCurrent = FALSE
    AArch32Regs = FALSE
    SEL2Present = TRUE
    RuntimeRebind = FALSE
SPECIFICATION Spec
INVARIANT DescentLaw
CHECK_DEADLOCK FALSE
