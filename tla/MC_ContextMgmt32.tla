--------------------------- MODULE MC_ContextMgmt32 ---------------------------
(***************************************************************************)
(* Model values for checking ContextMgmt32 with TLC.                       *)
(***************************************************************************)
EXTENDS ContextMgmt32, TLC

CONSTANTS c1, c2

OneCore == {c1}
TwoCores == {c1, c2}
AllBuilds == {"MONITOR", "HYPERVISOR", "SUPERVISER"}
CoreSymmetry == Permutations(TwoCores)
=============================================================================
