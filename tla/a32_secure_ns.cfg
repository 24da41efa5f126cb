\* AArch32 Monitor build setting up the Secure SVC image, one core.
CONSTANTS
    c1 = c1  c2 = c2
    Cores <- OneCore
    Builds = {"MONITOR"}
SPECIFICATION Spec
INVARIANT SecureWorldEntersSecure
CHECK_DEADLOCK FALSE
