-------------------------- MODULE MCFillRecorder ---------------------------
(* FillRecorder on small instances: one to four orders, one or two lots,   *)
(* one to three overlapping pushes.                                        *)
EXTENDS FillRecorder, TLC

MCBothLegs == {Legs}
MCTarget == {{"TARGET"}}
RecorderSymmetry == Permutations(Orders) \cup Permutations(Lots) \cup Permutations(Tasks)
=============================================================================
