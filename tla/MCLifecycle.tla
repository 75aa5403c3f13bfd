---------------------------- MODULE MCLifecycle ----------------------------
(* Instances of Lifecycle for TLC: two or three calls on one agent.        *)
EXTENDS Lifecycle, TLC

CONSTANTS o1, o2, o3
TwoOps == {o1, o2}
ThreeOps == {o1, o2, o3}
OpSymmetry == Permutations(Op)

AllKinds == Claiming \cup Locking
ButKill == AllKinds \ {"kill"}

NoFault == {}
HangsAndLapses == {"proxyError", "lapse"}
Exceptions == {"throw"}
=============================================================================
