----------------------------- MODULE MCLockState -----------------------------
(***************************************************************************)
(* LockState for TLC: a killed path stutters.  Spin locks and mutexes are  *)
(* interchangeable among themselves, and so are threads.                   *)
(***************************************************************************)
EXTENDS EntryPoints, TLC

(* A set that leaves out what only the user context tells apart.           *)
PlainContexts == Range(pci_driver)

Killed == path # "running" /\ UNCHANGED vars

MCNext == Next \/ Killed

MCSpec == Init /\ [][MCNext]_vars

Symmetry == Permutations(Threads) \cup Permutations(SpinLocks) \cup Permutations(Mutexes)
=============================================================================
