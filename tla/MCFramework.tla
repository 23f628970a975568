---------------------------- MODULE MCFramework ----------------------------
(***************************************************************************)
(* Framework for TLC.  A path that has ended, and a module that has been   *)
(* unloaded, stutter.                                                      *)
(***************************************************************************)
EXTENDS Framework, TLC

SomeArgs == {-1, 0, 2, 47}

Ended == (path # "running" \/ phase = "unloaded") /\ UNCHANGED vars

MCNext == Next \/ Ended

MCSpec == Init /\ [][MCNext]_vars

Symmetry == Permutations(Cards)
=============================================================================
