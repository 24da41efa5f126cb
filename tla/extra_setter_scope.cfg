\* The monitor build on two cores with the runtime setters on; software
\* writes no registers (no values), which no step of the property reads.
CONSTANTS
    c1 = c1  c2 = c2  v1 = v1  v2 = v2
    Cores <- TwoCores
    Vals <- NoVals
    Builds = {"MONITOR"}
    RunInCurrent = FALSE
    AArch32Regs = FALSE
    SEL2Present = TRUE
    RuntimeRebind = TRUE
SPECIFICATION Spec
PROPERTY ExtraSetterCallerOnly
CHECK_DEADLOCK FALSE
