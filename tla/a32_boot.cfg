\* The AArch32 Monitor, Hyp and SVC builds, one core, with and without
\* ENABLE_RUN_IN_CURRENT and the virtualization extensions.
CONSTANTS
    c1 = c1  c2 = c2
    Cores <- OneCore
    Builds <- AllBuilds
SPECIFICATION Spec
INVARIANT TypeOK
INVARIANT HsctlrFromContext
CHECK_DEADLOCK FALSE
