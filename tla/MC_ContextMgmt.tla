-------------------------- MODULE MC_ContextMgmt --------------------------
(* Model-checking instances of ContextMgmt: core identities and written   *)
(* register values are model values, permutable where no property names  *)
(* one of them.                                                           *)
EXTENDS ContextMgmt, TLC

CONSTANTS c1, c2, v1, v2

OneCore == {c1}
TwoCores == {c1, c2}
OneVal == {v1}
TwoVals == {v1, v2}
NoVals == {}
DescentBuilds == {"MONITOR", "HYPERVISOR"}
AllBuilds == {"MONITOR", "HYPERVISOR", "SUPERVISER"}

CoreSymmetry == Permutations(TwoCores)
============================================================================
