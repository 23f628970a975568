-------------------------- MODULE MCObjectTracker --------------------------
(***************************************************************************)
(* ObjectTracker for TLC: a path that has ended stutters.  Threads are     *)
(* interchangeable, and so are addresses.                                  *)
(***************************************************************************)
EXTENDS ObjectTracker, TLC

(* An allocator of each way to record a size and to fail; two of them      *)
(* share an origin.                                                        *)
SomeAllocators ==
  {__kmalloc, __request_region, dev_alloc_skb, device_register, device_create_file}

Buffers == {"kmalloc", "vmalloc"}

Ended == path # "running" /\ UNCHANGED vars

MCNext == Next \/ Ended

MCSpec == Init /\ [][MCNext]_vars

(* Bound: one address is lost or the driver has made illegal calls, not    *)
(* both; the other address shows the tracker's work.                       *)
OneLost == lost = {} \/ (Cardinality(lost) = 1 /\ ~fault)

Symmetry == Permutations(Threads) \cup Permutations(Addresses)
=============================================================================
