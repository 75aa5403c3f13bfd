-------------------------- MODULE MCHealthMonitor --------------------------
(* Instances of HealthMonitor for TLC: a full poll beside a fast or quick  *)
(* one.                                                                    *)
EXTENDS HealthMonitor, TLC

CONSTANTS p1, p2
Polls == {p1, p2}
AllAndFast == p1 :> "all" @@ p2 :> "fast"
AllAndQuick == p1 :> "all" @@ p2 :> "quick"
=============================================================================
