------------------------- MODULE MCFunctionTracker -------------------------
(***************************************************************************)
(* FunctionTracker for TLC: two functions, one with a wrapper that names  *)
(* its check, and two purposes, one of which has no check of its own.  A   *)
(* path that has ended stutters; threads are interchangeable.              *)
(***************************************************************************)
EXTENDS FunctionTracker, TLC

CONSTANTS f1, Handler

Probe == <<"pci_driver", "probe">>
Resume == <<"pci_driver", "resume">>
TwoPurposes == {Probe, Resume}
SomeChecked == {Probe, Name(f1), Name(Handler)}

Ended == path # "running" /\ UNCHANGED vars

MCNext == Next \/ Ended

MCSpec == Init /\ [][MCNext]_vars

Symmetry == Permutations(Threads)
=============================================================================
