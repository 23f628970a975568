----------------------------- MODULE MCEnterExit -----------------------------
(***************************************************************************)
(* EnterExit for TLC: a killed path stutters, so that a deadlock is always *)
(* a live path on which nobody can move.                                   *)
(***************************************************************************)
EXTENDS EnterExit

Killed == path # "running" /\ UNCHANGED vars

MCNext == Next \/ Killed

MCSpec == Init /\ [][MCNext]_vars

MCFairSpec == MCSpec /\ Fairness
=============================================================================
