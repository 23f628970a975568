--------------------------- MODULE MCRegistration ---------------------------
(***************************************************************************)
(* Registration for TLC: a path that has ended, a driver that is gone and  *)
(* one at fault, which may wait for itself, stutter.  Threads are          *)
(* interchangeable.                                                        *)
(***************************************************************************)
EXTENDS Registration, TLC

Ended ==
  /\ path # "running" \/ faults > 0 \/ (module = "gone" /\ \A t \in Threads : Outside(t))
  /\ UNCHANGED vars

MCNext == Next \/ Ended

MCSpec == Init /\ [][MCNext]_vars

(* The device sleeps only while the driver has made no illegal call.       *)
SleepsWell == kdev["pci"] \in {"suspending", "suspended", "resuming"} => faults = 0

Symmetry == Permutations(Threads)
=============================================================================
