---------------------------- MODULE MCDispatcher ----------------------------
(* Instances of Dispatcher for TLC.                                        *)
EXTENDS Dispatcher, TLC

CONSTANTS c1, c2

(* The intervals of the code, in ticks of 6 s, and the same shortened with *)
(* their order kept.                                                       *)
RealBackoff == <<5, 10, 20, 40, 80>>
ShortBackoff == <<2, 4, 8>>

Callers == {c1, c2}
Symmetry == Permutations(Callers)
=============================================================================
