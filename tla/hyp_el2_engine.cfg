\* EL2 hypervisor build: a runtime service saves or restores an EL2 context.
CONSTANTS
    c1 = c1  c2 = c2  v1 = v1  v2 = v2
    Cores <- OneCore
    Vals <- OneVal
    Builds = {"HYPERVISOR"}
    RunInCurrent = FALSE
    AArch32Regs = FALSE
    SEL2Present = FALSE
    RuntimeRebind = FALSE
SPECIFICATION Spec
PROPERTY SaveRestoreReturns
CHECK_DEADLOCK FALSE
