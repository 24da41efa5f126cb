\* AArch32 Monitor build descending to SVC, two cores sharing the context.
CONSTANTS
    c1 = c1  c2 = c2
    Cores <- TwoCores
    Builds = {"MONITOR"}
SPECIFICATION Spec
INVARIANT HsctlrFromContext
CHECK_DEADLOCK FALSE
