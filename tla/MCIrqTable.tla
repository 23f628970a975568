------------------------------ MODULE MCIrqTable ------------------------------
(***************************************************************************)
(* IrqTable for TLC: a killed path stutters.                               *)
(***************************************************************************)
EXTENDS IrqTable, TLC, Functions

(* Every device has its own line, or all share one.                        *)
OwnLines == [d \in Devices |-> d]
SharedLine == [d \in Devices |-> 11]

Killed == path # "running" /\ UNCHANGED vars

MCNext == Next \/ Killed

MCSpec == Init /\ [][MCNext]_vars

(* Bounds where increments get lost: how far sym_irq_ongoing falls, how    *)
(* often the handlers of a line are called, and how many passes there are, *)
(* inside one another or side by side.                                     *)
Drift ==
  /\ sym_irq_ongoing >= -1
  /\ \A l \in Lines : calls[l] <= 2
  /\ SumFunction([t \in Threads |-> Len(pass[t])]) <= 2

Symmetry == Permutations(Threads) \cup Permutations(Devices)
=============================================================================
