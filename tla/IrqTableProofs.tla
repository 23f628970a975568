---------------------------- MODULE IrqTableProofs ----------------------------
(***************************************************************************)
(* Theorems about IrqTable, for any threads, devices, lines and table      *)
(* size.  However threads run: the types, and the table agrees with its    *)
(* own count and with the kernel.  On one CPU whose kernel is not          *)
(* preemptive: one pass at a time, the budget of a line, and, for devices  *)
(* that do not share a line, handlers only where they may run and no       *)
(* false alarm.                                                            *)
(***************************************************************************)
EXTENDS IrqTable, FiniteSetTheorems, SequenceTheorems, TLAPS

USE DEF table, counts, kernel, thread

(* The part of TypeOK that the table needs.                                *)
TableType ==
  /\ sym_irq \in [Slots -> Entry \cup {NONE}]
  /\ sym_num_requests \in Int
  /\ registered \subseteq Devices
  /\ pc \in [Threads -> {"run"} \cup InLoop \cup InCall]
  /\ call \in [Threads -> Devices \cup {NONE}]
  /\ \A t \in Threads : pc[t] \in InCall => call[t] \in Devices

(* The driver serialises its calls about one line.                         *)
LineExclusive ==
  \A t, u \in Threads :
    pc[t] \in InCall /\ pc[u] \in InCall /\ IrqOf[call[t]] = IrqOf[call[u]] => t = u

(* Between the kernel's function and its check, the device is the kernel's *)
(* and not in the table.                                                   *)
Between ==
  \A t \in Threads :
    /\ pc[t] = "requested" => call[t] \in registered
    /\ pc[t] \in {"requested", "freeing"} =>
         \A i \in Allocated : sym_irq[i].parameter # call[t]

(* The inductive invariant of the table.                                   *)
TableInv ==
  /\ TableType
  /\ LineExclusive
  /\ Between
  /\ TableWithinKernel
  /\ sym_num_requests = Cardinality(Allocated)

-----------------------------------------------------------------------------
(* The table is finite.                                                    *)
LEMMA AllocatedFinite == IsFiniteSet(Allocated) /\ Cardinality(Allocated) \in Nat
<1>1. IsFiniteSet(Slots)
  BY FS_Interval, LimitsAssumption DEF Slots
<1>2. Allocated \subseteq Slots
  BY DEF Allocated
<1> QED BY <1>1, <1>2, FS_Subset, FS_CardinalityType

(* The table starts empty.                                                 *)
LEMMA InitTable == Init => TableInv
<1> SUFFICES ASSUME Init PROVE TableInv
  OBVIOUS
<1>1. Allocated = {}
  BY DEF Init, Allocated
<1>2. sym_num_requests = Cardinality(Allocated)
  BY <1>1, FS_EmptySet DEF Init
<1>3. TableType /\ LineExclusive
  BY DEF Init, TableType, LineExclusive, InCall
<1>4. Between /\ TableWithinKernel
  BY <1>1 DEF Init, Between, TableWithinKernel
<1> QED BY <1>2, <1>3, <1>4 DEF TableInv

(* Steps that change neither table, registrations nor calls, except where  *)
(* a thread is outside calls.                                              *)
LEMMA TableAlone ==
  ASSUME TableInv, UNCHANGED <<table, registered, call>>,
         \/ UNCHANGED pc
         \/ \E t \in Threads, s \in {"run"} \cup InLoop :
              pc[t] \in {"run"} \cup InLoop /\ pc' = [pc EXCEPT ![t] = s]
  PROVE  TableInv'
<1>1. \A t \in Threads :
        /\ pc'[t] \in InCall <=> pc[t] \in InCall
        /\ pc[t] \in InCall => pc'[t] = pc[t]
  BY DEF TableInv, TableType, InCall, InLoop
<1>2. pc' \in [Threads -> {"run"} \cup InLoop \cup InCall]
  BY DEF TableInv, TableType
<1>3. TableType' /\ LineExclusive'
  BY <1>1, <1>2 DEF TableInv, TableType, LineExclusive
<1>4. Allocated' = Allocated
  BY DEF Allocated
<1>5. Between'
  BY <1>1, <1>4 DEF TableInv, Between, InCall
<1>6. TableWithinKernel' /\ (sym_num_requests = Cardinality(Allocated))'
  BY <1>4 DEF TableInv, TableWithinKernel
<1> QED BY <1>3, <1>5, <1>6 DEF TableInv

(* A thread starts a call about a line nobody is in a call about.          *)
LEMMA StartsExclusive ==
  ASSUME TableInv, NEW t \in Threads, NEW d \in Devices, NEW s \in InCall,
         LineIdle(d), Starts(t, d, s)
  PROVE  /\ LineExclusive'
         /\ pc' \in [Threads -> {"run"} \cup InLoop \cup InCall]
         /\ call' \in [Threads -> Devices \cup {NONE}]
         /\ \A u \in Threads : pc'[u] \in InCall => call'[u] \in Devices
         /\ pc'[t] = s /\ call'[t] = d
         /\ \A u \in Threads \ {t} : pc'[u] = pc[u] /\ call'[u] = call[u]
  BY DEF TableInv, TableType, LineExclusive, LineIdle, Starts

(* A thread returns from a call.                                           *)
LEMMA ReturnsExclusive ==
  ASSUME TableInv, NEW t \in Threads, Returns(t)
  PROVE  /\ LineExclusive'
         /\ pc' \in [Threads -> {"run"} \cup InLoop \cup InCall]
         /\ call' \in [Threads -> Devices \cup {NONE}]
         /\ \A u \in Threads : pc'[u] \in InCall => call'[u] \in Devices
         /\ pc'[t] = "run"
         /\ \A u \in Threads \ {t} : pc'[u] = pc[u] /\ call'[u] = call[u]
<1>1. "run" \notin InCall
  BY DEF InCall
<1> QED BY <1>1 DEF TableInv, TableType, LineExclusive, Returns

-----------------------------------------------------------------------------
(* The kernel registers a device that is in no call and not in the table.  *)
LEMMA RequestKept ==
  ASSUME TableInv, NEW t \in Threads, NEW d \in Devices, KernelRequest(t, d)
  PROVE  TableInv'
<1>1. /\ d \notin registered /\ registered' = registered \cup {d}
      /\ LineIdle(d) /\ Starts(t, d, "requested")
      /\ UNCHANGED <<sym_irq, sym_num_requests>>
  BY DEF KernelRequest
<1>2. "requested" \in InCall
  BY DEF InCall
<1>3. Allocated' = Allocated
  BY <1>1 DEF Allocated
<1>4. TableType' /\ LineExclusive'
  BY <1>1, <1>2, StartsExclusive DEF TableInv, TableType
<1>5. Between'
  <2>1. \A i \in Allocated : sym_irq[i].parameter # d
    BY <1>1 DEF TableInv, TableWithinKernel
  <2> QED BY <1>1, <1>2, <1>3, <2>1, StartsExclusive DEF TableInv, Between
<1>6. TableWithinKernel' /\ (sym_num_requests = Cardinality(Allocated))'
  BY <1>1, <1>3 DEF TableInv, TableWithinKernel
<1> QED BY <1>4, <1>5, <1>6 DEF TableInv

(* The check after a request enters the device into a free slot.           *)
LEMMA EnteredKept ==
  ASSUME TableInv, NEW t \in Threads, RequestPost(t), ~Kill
  PROVE  TableInv'
<1> DEFINE d == call[t]
           e == [number |-> IrqOf[d], parameter |-> d, enabled |-> TRUE]
<1>1. PICK i \in Slots \ Allocated :
        /\ sym_irq' = [sym_irq EXCEPT ![i] = e]
        /\ sym_num_requests' = sym_num_requests + 1
        /\ Returns(t)
        /\ UNCHANGED registered
  BY DEF RequestPost
<1>2. /\ pc[t] = "requested" /\ pc[t] \in InCall
      /\ d \in Devices /\ d \in registered
      /\ \A j \in Allocated : sym_irq[j].parameter # d
  BY DEF RequestPost, InCall, TableInv, TableType, Between
<1>3. e \in Entry /\ e # NONE /\ e.parameter = d
  <2>1. IrqOf[d] \in Numbers
    BY <1>2 DEF Numbers
  <2>2. e \in Entry /\ e.parameter = d
    BY <1>2, <2>1 DEF Entry
  <2> HIDE DEF e
  <2> QED BY <2>2, DevicesAssumption
<1> HIDE DEF e
<1>4. /\ sym_irq \in [Slots -> Entry \cup {NONE}]
      /\ sym_irq'[i] = e
      /\ \A j \in Slots \ {i} : sym_irq'[j] = sym_irq[j]
  BY <1>1 DEF TableInv, TableType
<1>5. Allocated' = Allocated \cup {i}
  BY <1>3, <1>4 DEF Allocated
<1>6. TableType' /\ LineExclusive'
  BY <1>1, <1>3, ReturnsExclusive DEF TableInv, TableType
<1>7. Between'
  <2> SUFFICES ASSUME NEW u \in Threads
               PROVE  /\ pc'[u] = "requested" => call'[u] \in registered'
                      /\ pc'[u] \in {"requested", "freeing"} =>
                           \A j \in Allocated' : sym_irq'[j].parameter # call'[u]
    BY DEF Between
  <2>1. CASE u = t
    BY <1>1, <2>1, ReturnsExclusive
  <2>2. CASE u # t
    <3>1. pc'[u] = pc[u] /\ call'[u] = call[u]
      BY <1>1, <2>2, ReturnsExclusive
    <3>2. pc[u] \in {"requested", "freeing"} => call[u] # d
      BY <1>2, <2>2 DEF TableInv, LineExclusive, InCall
    <3>3. /\ pc[u] = "requested" => call[u] \in registered
          /\ pc[u] \in {"requested", "freeing"} =>
               \A j \in Allocated : sym_irq[j].parameter # call[u]
      BY DEF TableInv, Between
    <3>4. Allocated \subseteq Slots \ {i}
      BY DEF Allocated
    <3> QED BY <1>1, <1>3, <1>4, <1>5, <3>1, <3>2, <3>3, <3>4
  <2> QED BY <2>1, <2>2
<1>8. TableWithinKernel'
  <2>1. Allocated \subseteq Slots \ {i}
    BY DEF Allocated
  <2>2. /\ \A j \in Allocated : sym_irq[j].parameter \in registered
        /\ \A j, k \in Allocated : sym_irq[j].parameter = sym_irq[k].parameter => j = k
    BY DEF TableInv, TableWithinKernel
  <2> QED BY <1>1, <1>2, <1>3, <1>4, <1>5, <2>1, <2>2 DEF TableWithinKernel
<1>9. (sym_num_requests = Cardinality(Allocated))'
  <2>1. Cardinality(Allocated') = Cardinality(Allocated) + 1
    BY <1>5, AllocatedFinite, FS_AddElement
  <2> QED BY <1>1, <2>1 DEF TableInv
<1> QED BY <1>6, <1>7, <1>8, <1>9 DEF TableInv

(* The check before a free removes the one entry of the device.            *)
LEMMA RemovedKept ==
  ASSUME TableInv, NEW t \in Threads, NEW d \in Devices, FreePre(t, d), ~Kill
  PROVE  TableInv'
<1>1. PICK i \in SlotsOf(IrqOf[d]) :
        /\ sym_irq[i].parameter = d
        /\ sym_irq' = [sym_irq EXCEPT ![i] = NONE]
        /\ sym_num_requests' = sym_num_requests - 1
        /\ Starts(t, d, "freeing")
        /\ LineIdle(d)
        /\ UNCHANGED registered
  BY DEF FreePre, IsFirst
<1>2. i \in Allocated /\ i \in Slots /\ "freeing" \in InCall /\ "freeing" # "requested"
  BY DEF SlotsOf, Allocated, InCall
<1>3. /\ sym_irq \in [Slots -> Entry \cup {NONE}]
      /\ sym_irq'[i] = NONE
      /\ \A j \in Slots \ {i} : sym_irq'[j] = sym_irq[j]
  BY <1>1, <1>2 DEF TableInv, TableType
<1>4. Allocated' = Allocated \ {i}
  BY <1>3 DEF Allocated
<1>5. TableType' /\ LineExclusive'
  BY <1>1, <1>2, StartsExclusive DEF TableInv, TableType
<1>6. \A j \in Allocated' : j \in Allocated /\ sym_irq'[j] = sym_irq[j]
  BY <1>3, <1>4 DEF Allocated
<1>7. \A j \in Allocated' : sym_irq'[j].parameter # d
  BY <1>1, <1>2, <1>4, <1>6 DEF TableInv, TableWithinKernel
<1>8. Between'
  BY <1>1, <1>2, <1>6, <1>7, StartsExclusive DEF TableInv, Between
<1>9. TableWithinKernel'
  BY <1>1, <1>6 DEF TableInv, TableWithinKernel
<1>10. (sym_num_requests = Cardinality(Allocated))'
  <2>1. Cardinality(Allocated') = Cardinality(Allocated) - 1
    BY <1>2, <1>4, AllocatedFinite, FS_RemoveElement
  <2> QED BY <1>1, <2>1 DEF TableInv
<1> QED BY <1>5, <1>8, <1>9, <1>10 DEF TableInv

(* The kernel drops a device that has left the table.                      *)
LEMMA FreeKept ==
  ASSUME TableInv, NEW t \in Threads, KernelFree(t)
  PROVE  TableInv'
<1> DEFINE d == call[t]
<1>1. /\ pc[t] = "freeing" /\ pc[t] \in InCall
      /\ registered' = registered \ {d} /\ Returns(t)
      /\ UNCHANGED <<sym_irq, sym_num_requests>>
  BY DEF KernelFree, InCall
<1>2. \A i \in Allocated : sym_irq[i].parameter # d
  BY <1>1 DEF TableInv, Between
<1>3. Allocated' = Allocated
  BY <1>1 DEF Allocated
<1>4. TableType' /\ LineExclusive'
  BY <1>1, ReturnsExclusive DEF TableInv, TableType
<1>5. Between'
  <2>1. \A u \in Threads \ {t} : pc[u] = "requested" => call[u] # d
    BY <1>1 DEF TableInv, LineExclusive, InCall
  <2> QED BY <1>1, <1>3, <2>1, ReturnsExclusive DEF TableInv, Between
<1>6. TableWithinKernel' /\ (sym_num_requests = Cardinality(Allocated))'
  BY <1>1, <1>2, <1>3 DEF TableInv, TableWithinKernel
<1> QED BY <1>4, <1>5, <1>6 DEF TableInv

(* disable_irq and enable_irq start.                                       *)
LEMMA SwitchStarts ==
  ASSUME TableInv, NEW t \in Threads, NEW d \in Devices, NEW s \in {"disabled", "enabled"},
         LineIdle(d), Starts(t, d, s), UNCHANGED <<sym_irq, sym_num_requests, registered>>
  PROVE  TableInv'
<1>1. s \in InCall /\ s \notin {"requested", "freeing"}
  BY DEF InCall
<1>2. Allocated' = Allocated
  BY DEF Allocated
<1>3. TableType' /\ LineExclusive'
  BY <1>1, StartsExclusive DEF TableInv, TableType
<1>4. Between'
  BY <1>1, <1>2, StartsExclusive DEF TableInv, Between
<1>5. TableWithinKernel' /\ (sym_num_requests = Cardinality(Allocated))'
  BY <1>2 DEF TableInv, TableWithinKernel
<1> QED BY <1>3, <1>4, <1>5 DEF TableInv

(* Their checks change an entry and keep its device.                       *)
LEMMA SwitchKept ==
  ASSUME TableInv, NEW t \in Threads, NEW b \in BOOLEAN, SetEnabled(t, b), ~Kill
  PROVE  TableInv'
<1>1. PICK i \in SlotsOf(IrqOf[call[t]]) :
        /\ sym_irq' = [sym_irq EXCEPT ![i].enabled = b]
        /\ Returns(t)
        /\ UNCHANGED <<sym_num_requests, registered>>
  BY DEF SetEnabled, IsFirst
<1>2. i \in Allocated /\ i \in Slots
  BY DEF SlotsOf, Allocated
<1>3. sym_irq \in [Slots -> Entry \cup {NONE}] /\ sym_irq[i] \in Entry
  BY <1>2 DEF TableInv, TableType, Allocated
<1>4. /\ [sym_irq[i] EXCEPT !.enabled = b] \in Entry
      /\ [sym_irq[i] EXCEPT !.enabled = b].parameter = sym_irq[i].parameter
  BY <1>3 DEF Entry
<1>5. /\ sym_irq' \in [Slots -> Entry \cup {NONE}]
      /\ sym_irq'[i] \in Entry /\ sym_irq'[i].parameter = sym_irq[i].parameter
      /\ \A j \in Slots \ {i} : sym_irq'[j] = sym_irq[j]
  BY <1>1, <1>2, <1>3, <1>4
<1>6. Allocated' = Allocated
  BY <1>2, <1>5, DevicesAssumption DEF Allocated
<1>7. \A j \in Allocated : sym_irq'[j].parameter = sym_irq[j].parameter
  BY <1>5 DEF Allocated
<1>8. TableType' /\ LineExclusive'
  BY <1>1, <1>5, ReturnsExclusive DEF TableInv, TableType
<1>9. Between'
  BY <1>1, <1>6, <1>7, ReturnsExclusive DEF TableInv, Between
<1>10. TableWithinKernel' /\ (sym_num_requests = Cardinality(Allocated))'
  BY <1>1, <1>6, <1>7 DEF TableInv, TableWithinKernel
<1> QED BY <1>8, <1>9, <1>10 DEF TableInv

(* What the steps of a pass have in common.                                *)
LEMMA PassSteps ==
  ASSUME NEW t \in Threads, PassNext(t), pc \in [Threads -> {"run"} \cup InLoop \cup InCall]
  PROVE  /\ UNCHANGED <<table, kernel, call>> /\ CanRun(t)
         /\ pc[t] \in {"run"} \cup InLoop
         /\ \E s \in {"run"} \cup InLoop : pc' = [pc EXCEPT ![t] = s]
<1> USE DEF InLoop, Becomes
<1>1. CASE ReadOngoing(t) \/ BeginPass(t) \/ LeaveLoop(t) \/ EndPass(t)
  BY <1>1 DEF ReadOngoing, BeginPass, LeaveLoop, EndPass
<1>2. CASE SkipSlot(t)
  <2>1. pc' = [pc EXCEPT ![t] = "test"]
    BY <1>2 DEF SkipSlot
  <2> QED BY <1>2, <2>1 DEF SkipSlot
<1>3. CASE EnabledSlot(t) \/ ReadCount(t) \/ StoreCount(t) \/ MayCall(t) \/ TooManyCalls(t)
  BY <1>3 DEF EnabledSlot, ReadCount, StoreCount, MayCall, TooManyCalls
<1>4. CASE KeepCount(t) \/ MustReset(t) \/ ResetCount(t) \/ HandlerReturns(t)
  BY <1>4 DEF KeepCount, MustReset, ResetCount, HandlerReturns
<1>5. CASE CallHandler(t)
  <2>1. pc[t] = "call" /\ (pc' = [pc EXCEPT ![t] = "call"] \/ pc' = [pc EXCEPT ![t] = "run"])
    BY <1>5 DEF CallHandler
  <2> QED BY <1>5, <2>1 DEF CallHandler
<1> QED BY <1>1, <1>2, <1>3, <1>4, <1>5 DEF PassNext

(* Every step preserves the invariant.                                     *)
LEMMA NextTable == TableInv /\ [Next]_vars => TableInv'
<1> SUFFICES ASSUME TableInv, [Next]_vars PROVE TableInv'
  OBVIOUS
<1>1. CASE UNCHANGED vars
  BY <1>1, TableAlone DEF vars
<1>2. CASE Kill
  BY <1>2, TableAlone DEF Kill
<1>3. ASSUME NEW t \in Threads, ThreadNext(t) PROVE TableInv'
  <2>1. CASE \E d \in Devices : KernelRequest(t, d)
    BY <2>1, RequestKept
  <2>2. CASE RequestPost(t)
    BY <1>2, <2>2, EnteredKept
  <2>3. CASE \E d \in Devices : FreePre(t, d)
    BY <1>2, <2>3, RemovedKept
  <2>4. CASE KernelFree(t)
    BY <2>4, FreeKept
  <2>5. CASE \E d \in Devices : KernelDisable(t, d) \/ KernelEnable(t, d)
    BY <2>5, SwitchStarts DEF KernelDisable, KernelEnable
  <2>6. CASE DisablePost(t) \/ EnablePost(t)
    BY <1>2, <2>6, SwitchKept DEF DisablePost, EnablePost
  <2>7. CASE \E l \in Lines : call_interrupt_handlers(t, l)
    BY <2>7, TableAlone DEF call_interrupt_handlers, InLoop
  <2>8. CASE PassNext(t)
    BY <2>8, PassSteps, TableAlone DEF TableInv, TableType
  <2> QED BY <1>3, <2>1, <2>2, <2>3, <2>4, <2>5, <2>6, <2>7, <2>8 DEF ThreadNext
<1> QED BY <1>1, <1>3 DEF Next

(* is_irq_allocated is right: sym_num_requests is the number of entries in *)
(* the table after any sequence of requests and frees on any threads.      *)
THEOREM CountIsRight == Spec => []RequestsCounted
<1>1. TableInv => RequestsCounted
  BY DEF TableInv, RequestsCounted
<1> QED BY <1>1, InitTable, NextTable, PTL DEF Spec

(* The framework never has a handler in its table that the kernel does not *)
(* have: what call_interrupt_handlers finds there may be called.           *)
THEOREM TableIsWithinKernel == Spec => []TableWithinKernel
<1>1. TableInv => TableWithinKernel
  BY DEF TableInv
<1> QED BY <1>1, InitTable, NextTable, PTL DEF Spec
-----------------------------------------------------------------------------
(* Types, however threads run.                                             *)

(* A pass that is not over has the index of an entry; only the innermost   *)
(* pass of a thread can stand past the last entry, about to end.           *)
PassOK(t) ==
  \A k \in 1 .. Len(pass[t]) :
    pass[t][k].i \in Slots \/ (k = Len(pass[t]) /\ pc[t] \in {"test", "leave"})

PassInv == TypeOK /\ \A t \in Threads : PassOK(t)

(* A pass begins at the first entry.                                       *)
LEMMA Push ==
  ASSUME PassInv, NEW t \in Threads, NEW l \in Lines,
         pc[t] = "run", pc' = [pc EXCEPT ![t] = "begin"],
         pass' = [pass EXCEPT ![t] = Append(@, [line |-> l, i |-> 0])]
  PROVE  /\ pass' \in [Threads -> Seq(Pass)]
         /\ pass'[t] # <<>> /\ Len(pass'[t]) = Len(pass[t]) + 1
         /\ \A u \in Threads \ {t} : pass'[u] = pass[u]
         /\ \A u \in Threads : PassOK(u)'
<1> DEFINE e == [line |-> l, i |-> 0]
<1>1. 0 \in Slots /\ 0 \in 0 .. MAX_IRQS
  BY LimitsAssumption DEF Slots
<1>2. e \in Pass /\ e.i \in Slots
  BY <1>1 DEF Pass
<1> HIDE DEF e
<1>3. /\ pc \in [Threads -> {"run"} \cup InLoop \cup InCall]
      /\ pass \in [Threads -> Seq(Pass)] /\ pass[t] \in Seq(Pass)
  BY DEF PassInv, TypeOK
<1>4. /\ Append(pass[t], e) \in Seq(Pass) /\ Append(pass[t], e) # <<>>
      /\ Len(Append(pass[t], e)) = Len(pass[t]) + 1
      /\ \A k \in 1 .. Len(pass[t]) : Append(pass[t], e)[k] = pass[t][k]
      /\ Append(pass[t], e)[Len(pass[t]) + 1] = e
      /\ Len(pass[t]) \in Nat
  BY <1>2, <1>3, AppendProperties, LenProperties
<1>5. /\ pass'[t] = Append(pass[t], e)
      /\ \A u \in Threads \ {t} : pass'[u] = pass[u] /\ pc'[u] = pc[u]
  BY <1>3 DEF e
<1>6. pass' \in [Threads -> Seq(Pass)]
  BY <1>3, <1>4 DEF e
<1>7. ASSUME NEW u \in Threads PROVE PassOK(u)'
  <2>1. CASE u # t
    BY <1>5, <2>1 DEF PassInv, PassOK
  <2>2. CASE u = t
    <3>1. \A k \in 1 .. Len(pass[t]) : pass[t][k].i \in Slots
      BY DEF PassInv, PassOK
    <3>2. ASSUME NEW k \in 1 .. Len(pass'[t]) PROVE pass'[t][k].i \in Slots
      <4>1. CASE k \in 1 .. Len(pass[t])
        BY <1>4, <1>5, <3>1, <4>1
      <4>2. CASE k \notin 1 .. Len(pass[t])
        <5>1. k = Len(pass[t]) + 1
          BY <1>4, <1>5, <4>2
        <5> QED BY <1>2, <1>4, <1>5, <5>1
      <4> QED BY <4>1, <4>2
    <3> QED BY <2>2, <3>2 DEF PassOK
  <2> QED BY <2>1, <2>2
<1> QED BY <1>4, <1>5, <1>6, <1>7

(* A pass goes on to the next entry, or past the last one.                 *)
LEMMA Bump ==
  ASSUME PassInv, NEW t \in Threads, pass[t] # <<>>, Top(t).i \in Slots, NextSlot(t),
         \/ UNCHANGED pc /\ pc[t] = "test"
         \/ pc' = [pc EXCEPT ![t] = "test"]
  PROVE  /\ pass' \in [Threads -> Seq(Pass)]
         /\ pass'[t] # <<>> /\ Len(pass'[t]) = Len(pass[t])
         /\ \A u \in Threads \ {t} : pass'[u] = pass[u]
         /\ \A u \in Threads : PassOK(u)'
<1> DEFINE n == Len(pass[t])
           e == [line |-> Top(t).line, i |-> Top(t).i + 1]
<1>1. /\ pc \in [Threads -> {"run"} \cup InLoop \cup InCall]
      /\ pass \in [Threads -> Seq(Pass)] /\ pass[t] \in Seq(Pass)
  BY DEF PassInv, TypeOK
<1>2. n \in Nat \ {0} /\ n \in 1 .. n /\ Top(t) \in Pass
  BY <1>1, EmptySeq, LenProperties, ElementOfSeq DEF Top
<1>3. e \in Pass
  BY <1>2, LimitsAssumption DEF Pass, Slots
<1>4. pass' = [pass EXCEPT ![t] = [pass[t] EXCEPT ![n] = e]]
  <2>1. [Top(t) EXCEPT !.i = @ + 1] = e
    BY <1>2 DEF Pass
  <2>2. pass' = [pass EXCEPT ![t] = [pass[t] EXCEPT ![n] = [Top(t) EXCEPT !.i = @ + 1]]]
    BY DEF NextSlot, Top
  <2> QED BY <2>1, <2>2
<1>5. pc'[t] = "test" /\ \A u \in Threads \ {t} : pc'[u] = pc[u]
  BY <1>1
<1> HIDE DEF e, n
<1>6. /\ [pass[t] EXCEPT ![n] = e] \in Seq(Pass)
      /\ Len([pass[t] EXCEPT ![n] = e]) = n
      /\ \A k \in 1 .. n : [pass[t] EXCEPT ![n] = e][k] = IF k = n THEN e ELSE pass[t][k]
  BY <1>1, <1>2, <1>3, ExceptSeq DEF n
<1>7. /\ pass'[t] = [pass[t] EXCEPT ![n] = e]
      /\ \A u \in Threads \ {t} : pass'[u] = pass[u]
      /\ pass' \in [Threads -> Seq(Pass)]
  BY <1>1, <1>4, <1>6
<1>8. pass'[t] # <<>>
  BY <1>2, <1>6, <1>7, EmptySeq DEF n
<1>9. ASSUME NEW u \in Threads PROVE PassOK(u)'
  <2>1. CASE u # t
    BY <1>5, <1>7, <2>1 DEF PassInv, PassOK
  <2>2. CASE u = t
    <3>1. ASSUME NEW k \in 1 .. n, k # n PROVE pass'[t][k].i \in Slots
      BY <1>6, <1>7, <3>1 DEF PassInv, PassOK, n
    <3> QED BY <1>5, <1>6, <1>7, <2>2, <3>1 DEF PassOK
  <2> QED BY <2>1, <2>2
<1> QED BY <1>6, <1>7, <1>8, <1>9 DEF n

(* A pass ends.                                                            *)
LEMMA Pop ==
  ASSUME PassInv, NEW t \in Threads, pass[t] # <<>>, pc' = [pc EXCEPT ![t] = "run"],
         pass' = [pass EXCEPT ![t] = SubSeq(@, 1, Len(@) - 1)]
  PROVE  /\ pass' \in [Threads -> Seq(Pass)]
         /\ Len(pass'[t]) = Len(pass[t]) - 1
         /\ Len(pass[t]) = 1 => pass'[t] = <<>>
         /\ \A u \in Threads \ {t} : pass'[u] = pass[u]
         /\ \A u \in Threads : PassOK(u)'
<1> DEFINE n == Len(pass[t])
           s == SubSeq(pass[t], 1, n - 1)
<1>1. /\ pc \in [Threads -> {"run"} \cup InLoop \cup InCall]
      /\ pass \in [Threads -> Seq(Pass)] /\ pass[t] \in Seq(Pass)
  BY DEF PassInv, TypeOK
<1>2. n \in Nat \ {0} /\ \A k \in 1 .. n : pass[t][k] \in Pass
  BY <1>1, EmptySeq, LenProperties, ElementOfSeq
<1>3. pass'[t] = s /\ \A u \in Threads \ {t} : pass'[u] = pass[u] /\ pc'[u] = pc[u]
  BY <1>1
<1> HIDE DEF n
<1>4. 1 \in Int /\ n - 1 \in Int /\ \A k \in 1 .. n - 1 : pass[t][k] \in Pass
  BY <1>2
<1>5. /\ s \in Seq(Pass)
      /\ Len(s) = IF 1 <= n - 1 THEN n - 1 - 1 + 1 ELSE 0
      /\ \A k \in 1 .. n - 1 - 1 + 1 : s[k] = pass[t][1 + k - 1]
  BY <1>4, SubSeqProperties
<1>6. Len(s) = n - 1 /\ \A k \in 1 .. n - 1 : s[k] = pass[t][k]
  BY <1>2, <1>5
<1>7. n = 1 => s = <<>>
  BY <1>5, <1>6, EmptySeq
<1> HIDE DEF s
<1>8. pass' \in [Threads -> Seq(Pass)]
  BY <1>1, <1>5 DEF s, n
<1>9. ASSUME NEW u \in Threads PROVE PassOK(u)'
  <2>1. CASE u # t
    BY <1>3, <2>1 DEF PassInv, PassOK
  <2>2. CASE u = t
    <3>1. \A k \in 1 .. n - 1 : pass[t][k].i \in Slots
      BY <1>2 DEF PassInv, PassOK, n
    <3> QED BY <1>3, <1>6, <2>2, <3>1 DEF PassOK
  <2> QED BY <2>1, <2>2
<1> QED BY <1>3, <1>6, <1>7, <1>8, <1>9 DEF n

(* The entry a handler was called for, or that was skipped, is in range.   *)
LEMMA TopInRange ==
  ASSUME PassInv, NEW t \in Threads, pass[t] # <<>>
  PROVE  Top(t) \in Pass /\ (pc[t] \notin {"test", "leave"} => Top(t).i \in Slots)
<1>1. pass[t] \in Seq(Pass)
  BY DEF PassInv, TypeOK
<1>2. Len(pass[t]) \in 1 .. Len(pass[t])
  BY <1>1, EmptySeq, LenProperties
<1> QED BY <1>1, <1>2, ElementOfSeq DEF Top, PassInv, PassOK

(* What TypeOK says besides TableType.                                     *)
PassType ==
  /\ pass \in [Threads -> Seq(Pass)]
  /\ \A t \in Threads : pc[t] \in InLoop => pass[t] # <<>>
  /\ \A t \in Threads : PassOK(t)

OtherType ==
  /\ sym_irq_ongoing \in Int
  /\ sym_irq_lines \in [Lines -> 0 .. 255]
  /\ disabled \subseteq Numbers
  /\ calls \in [Lines -> Nat] /\ resets \in [Lines -> Nat]
  /\ reg \in [Threads -> Int]
  /\ path \in {"running", "assert", "oops"}

(* TypeOK and the form of the passes, in three parts.                      *)
LEMMA TypeParts == PassInv <=> TableType /\ PassType /\ OtherType
  BY DEF PassInv, TypeOK, TableType, PassType, OtherType

(* What the steps outside a pass do.                                       *)
LEMMA CallSteps ==
  ASSUME NEW t \in Threads, ThreadNext(t), ~Kill, ~PassNext(t)
  PROVE  /\ UNCHANGED <<sym_irq_ongoing, counts, reg, path>> /\ CanRun(t)
         /\ disabled' \subseteq disabled \cup Numbers
         /\ \/ /\ UNCHANGED pass /\ pc[t] \notin InLoop
               /\ \E s \in InCall \cup {"run"} : pc' = [pc EXCEPT ![t] = s]
            \/ \E l \in Lines : call_interrupt_handlers(t, l)
<1> USE DEF InLoop, InCall
<1>1. CASE \E d \in Devices : KernelRequest(t, d) \/ KernelDisable(t, d) \/ KernelEnable(t, d)
  BY <1>1 DEF KernelRequest, KernelDisable, KernelEnable, Starts, Numbers
<1>2. CASE \E d \in Devices : FreePre(t, d)
  BY <1>2 DEF FreePre, Starts
<1>3. CASE RequestPost(t) \/ KernelFree(t)
  BY <1>3 DEF RequestPost, KernelFree, Returns
<1>4. CASE DisablePost(t) \/ EnablePost(t)
  BY <1>4 DEF DisablePost, EnablePost, SetEnabled, Returns
<1>5. CASE \E l \in Lines : call_interrupt_handlers(t, l)
  BY <1>5 DEF call_interrupt_handlers
<1> QED BY <1>1, <1>2, <1>3, <1>4, <1>5 DEF ThreadNext

(* The steps of a pass that stay at its entry.                             *)
StaySteps(t) ==
  \/ ReadOngoing(t) \/ BeginPass(t) \/ EnabledSlot(t) \/ ReadCount(t) \/ StoreCount(t)
  \/ MayCall(t) \/ TooManyCalls(t) \/ MustReset(t) \/ CallHandler(t) \/ LeaveLoop(t)

(* The steps of a pass that go on to the next entry.                       *)
MoveSteps(t) == SkipSlot(t) \/ KeepCount(t) \/ ResetCount(t) \/ HandlerReturns(t)

(* What they do to the passes.                                             *)
LEMMA StaySimple ==
  ASSUME PassInv, NEW t \in Threads, StaySteps(t)
  PROVE  /\ UNCHANGED pass /\ pass[t] # <<>> /\ pc[t] \in InLoop
         /\ \A u \in Threads \ {t} : pc'[u] = pc[u]
         /\ pc'[t] \in {"test", "leave"} \/ Top(t).i \in Slots
<1>1. /\ pc \in [Threads -> {"run"} \cup InLoop \cup InCall]
      /\ pc[t] \in InLoop => pass[t] # <<>>
  BY DEF PassInv, TypeOK
<1> USE DEF Becomes, InLoop
<1>2. CASE ReadOngoing(t) \/ BeginPass(t) \/ LeaveLoop(t)
  BY <1>1, <1>2, TopInRange DEF ReadOngoing, BeginPass, LeaveLoop
<1>3. CASE EnabledSlot(t)
  BY <1>1, <1>3 DEF EnabledSlot, Allocated
<1>4. CASE ReadCount(t) \/ StoreCount(t) \/ MayCall(t) \/ TooManyCalls(t) \/ MustReset(t)
  BY <1>1, <1>4, TopInRange DEF ReadCount, StoreCount, MayCall, TooManyCalls, MustReset
<1>5. CASE CallHandler(t)
  BY <1>1, <1>5, TopInRange DEF CallHandler
<1> QED BY <1>2, <1>3, <1>4, <1>5 DEF StaySteps

(* Those that move, move by one entry and go back to the loop's test.      *)
LEMMA MoveSimple ==
  ASSUME PassInv, NEW t \in Threads, MoveSteps(t)
  PROVE  /\ NextSlot(t) /\ pass[t] # <<>> /\ Top(t).i \in Slots
         /\ pc' = [pc EXCEPT ![t] = "test"]
<1>1. /\ pc \in [Threads -> {"run"} \cup InLoop \cup InCall]
      /\ pc[t] \in InLoop => pass[t] # <<>>
  BY DEF PassInv, TypeOK
<1> USE DEF Becomes, InLoop
<1>2. CASE SkipSlot(t)
  <2>1. pc[t] = "test" /\ UNCHANGED pc /\ NextSlot(t) /\ Top(t).i \in Slots
    BY <1>2 DEF SkipSlot
  <2> QED BY <1>1, <2>1
<1>3. CASE KeepCount(t) \/ ResetCount(t) \/ HandlerReturns(t)
  BY <1>1, <1>3, TopInRange DEF KeepCount, ResetCount, HandlerReturns
<1> QED BY <1>2, <1>3 DEF MoveSteps

(* Steps that leave the passes alone.                                      *)
LEMMA PassAlone ==
  ASSUME PassInv, UNCHANGED pass,
         \A u \in Threads : \/ pc'[u] = pc[u]
                            \/ pc[u] \notin InLoop /\ pc'[u] \notin InLoop
  PROVE  PassType'
<1>1. \A u \in Threads : pc'[u] \in InLoop => pass'[u] # <<>>
  BY DEF PassInv, TypeOK
<1>2. \A u \in Threads : PassOK(u)'
  BY DEF PassInv, PassOK, InLoop
<1>3. pass' \in [Threads -> Seq(Pass)]
  BY DEF PassInv, TypeOK
<1> QED BY <1>1, <1>2, <1>3 DEF PassType

(* Every step keeps the passes well formed.                                *)
LEMMA NextPass == ASSUME PassInv, [Next]_vars PROVE PassType'
<1>0. /\ pc \in [Threads -> {"run"} \cup InLoop \cup InCall] /\ pass \in [Threads -> Seq(Pass)]
      /\ \A u \in Threads : pc[u] \in InLoop => pass[u] # <<>>
  BY DEF PassInv, TypeOK
<1>1. CASE UNCHANGED vars \/ Kill
  BY <1>1, PassAlone DEF vars, Kill
<1>2. ASSUME NEW t \in Threads, ThreadNext(t), ~Kill PROVE PassType'
  <2>1. CASE ~PassNext(t) /\ UNCHANGED pass
    <3>1. \/ \E s \in InCall \cup {"run"} : pc' = [pc EXCEPT ![t] = s] /\ pc[t] \notin InLoop
          \/ \E l \in Lines : call_interrupt_handlers(t, l)
      BY <1>2, <2>1, CallSteps
    <3>2. ~(\E l \in Lines : call_interrupt_handlers(t, l))
      <4> SUFFICES ASSUME NEW l \in Lines, call_interrupt_handlers(t, l) PROVE FALSE
        OBVIOUS
      <4>1. Len(pass'[t]) = Len(pass[t]) + 1
        BY Push DEF call_interrupt_handlers
      <4> QED BY <1>0, <2>1, <4>1, LenProperties
    <3>3. \A u \in Threads : \/ pc'[u] = pc[u]
                             \/ pc[u] \notin InLoop /\ pc'[u] \notin InLoop
      BY <1>0, <3>1, <3>2 DEF InCall, InLoop
    <3> QED BY <2>1, <3>3, PassAlone
  <2>2. ASSUME NEW l \in Lines, call_interrupt_handlers(t, l) PROVE PassType'
    <3>1. /\ pass' \in [Threads -> Seq(Pass)] /\ pass'[t] # <<>>
          /\ \A u \in Threads \ {t} : pass'[u] = pass[u]
          /\ \A u \in Threads : PassOK(u)'
      BY <2>2, Push DEF call_interrupt_handlers
    <3>2. \A u \in Threads \ {t} : pc'[u] = pc[u]
      BY <1>0, <2>2 DEF call_interrupt_handlers
    <3> QED BY <1>0, <3>1, <3>2 DEF PassType
  <2>3. CASE StaySteps(t)
    <3>1. /\ UNCHANGED pass /\ pass[t] # <<>>
          /\ \A u \in Threads \ {t} : pc'[u] = pc[u]
          /\ pc'[t] \in {"test", "leave"} \/ Top(t).i \in Slots
      BY <2>3, StaySimple
    <3>2. ASSUME NEW u \in Threads PROVE PassOK(u)'
      <4>1. CASE u # t
        BY <3>1, <4>1 DEF PassInv, PassOK
      <4>2. CASE u = t
        BY <3>1, <4>2 DEF PassInv, PassOK, Top
      <4> QED BY <4>1, <4>2
    <3> QED BY <1>0, <3>1, <3>2 DEF PassType
  <2>4. CASE MoveSteps(t)
    <3>1. /\ NextSlot(t) /\ pass[t] # <<>> /\ Top(t).i \in Slots
          /\ pc' = [pc EXCEPT ![t] = "test"]
      BY <2>4, MoveSimple
    <3>2. /\ pass' \in [Threads -> Seq(Pass)] /\ pass'[t] # <<>>
          /\ \A u \in Threads \ {t} : pass'[u] = pass[u]
          /\ \A u \in Threads : PassOK(u)'
      BY <3>1, Bump
    <3>3. \A u \in Threads \ {t} : pc'[u] = pc[u]
      BY <1>0, <3>1
    <3> QED BY <1>0, <3>2, <3>3 DEF PassType
  <2>5. CASE EndPass(t)
    <3>1. pass[t] # <<>>
      BY <1>0, <2>5 DEF EndPass, InLoop
    <3>2. /\ pass' \in [Threads -> Seq(Pass)]
          /\ \A u \in Threads \ {t} : pass'[u] = pass[u]
          /\ \A u \in Threads : PassOK(u)'
      BY <2>5, <3>1, Pop DEF EndPass, Becomes
    <3>3. pc'[t] \notin InLoop /\ \A u \in Threads \ {t} : pc'[u] = pc[u]
      BY <1>0, <2>5 DEF EndPass, Becomes, InLoop
    <3> QED BY <1>0, <3>2, <3>3 DEF PassType
  <2>6. CASE PassNext(t)
    BY <2>3, <2>4, <2>5, <2>6 DEF PassNext, StaySteps, MoveSteps
  <2> QED BY <1>2, <2>1, <2>2, <2>6, CallSteps
<1> QED BY <1>1, <1>2 DEF Next

(* Every step keeps the other types.                                       *)
LEMMA NextOther == ASSUME PassInv, [Next]_vars PROVE OtherType'
<1>0. /\ sym_irq_lines \in [Lines -> 0 .. 255] /\ reg \in [Threads -> Int]
      /\ calls \in [Lines -> Nat] /\ resets \in [Lines -> Nat]
      /\ sym_irq_ongoing \in Int /\ path \in {"running", "assert", "oops"}
      /\ disabled \subseteq Numbers
      /\ pc \in [Threads -> {"run"} \cup InLoop \cup InCall]
      /\ \A u \in Threads : pc[u] \in InLoop => pass[u] # <<>>
  BY DEF PassInv, TypeOK
<1>1. CASE UNCHANGED vars \/ Kill
  BY <1>0, <1>1 DEF vars, Kill, OtherType
<1>2. ASSUME NEW t \in Threads, ThreadNext(t), ~Kill PROVE OtherType'
  <2>1. CASE ~PassNext(t)
    BY <1>0, <1>2, <2>1, CallSteps DEF OtherType
  <2>2. ASSUME pc[t] \in InLoop PROVE Top(t).line \in Lines
    BY <1>0, <2>2, TopInRange DEF Pass
  <2>3. CASE ReadOngoing(t) \/ BeginPass(t) \/ LeaveLoop(t) \/ EndPass(t)
    <3>1. /\ UNCHANGED <<counts, disabled, path>>
          /\ sym_irq_ongoing' \in Int /\ \E n \in Int : reg' = [reg EXCEPT ![t] = n]
      BY <1>0, <2>3 DEF ReadOngoing, BeginPass, LeaveLoop, EndPass
    <3> QED BY <1>0, <3>1 DEF OtherType
  <2>4. CASE SkipSlot(t) \/ EnabledSlot(t) \/ TooManyCalls(t) \/ HandlerReturns(t)
    BY <1>0, <2>4 DEF OtherType, SkipSlot, EnabledSlot, TooManyCalls, HandlerReturns
  <2>5. CASE MayCall(t) \/ KeepCount(t) \/ MustReset(t)
    <3>1. /\ UNCHANGED <<counts, sym_irq_ongoing, disabled, path>>
          /\ reg' = [reg EXCEPT ![t] = 0]
      BY <2>5 DEF MayCall, KeepCount, MustReset
    <3> QED BY <1>0, <3>1 DEF OtherType
  <2>6. CASE ReadCount(t)
    <3>1. pc[t] \in InLoop
      BY <2>6 DEF ReadCount, InLoop
    <3>2. Top(t).line \in Lines
      BY <2>2, <3>1
    <3>3. sym_irq_lines[Top(t).line] \in Int
      <4>1. \A l \in Lines : sym_irq_lines[l] \in Int
        <5>1. sym_irq_lines \in [Lines -> 0 .. 255]
          BY <1>0
        <5> QED BY <5>1
      <4> QED BY <3>2, <4>1
    <3>4. /\ UNCHANGED <<counts, sym_irq_ongoing, disabled, path>>
          /\ \E n \in Int : reg' = [reg EXCEPT ![t] = n]
      BY <2>6, <3>3 DEF ReadCount
    <3> QED BY <1>0, <3>4 DEF OtherType
  <2>7. CASE StoreCount(t)
    <3> DEFINE c == (reg[t] + 1) % 256
    <3>1. c \in 0 .. 255
      <4>1. \A n \in Int : (n + 1) % 256 \in 0 .. 255
        OBVIOUS
      <4> QED BY <1>0, <4>1
    <3>2. /\ sym_irq_lines' = [sym_irq_lines EXCEPT ![Top(t).line] = c]
          /\ reg' = [reg EXCEPT ![t] = c]
          /\ UNCHANGED <<sym_irq_ongoing, calls, resets, disabled, path>>
      BY <2>7 DEF StoreCount
    <3> HIDE DEF c
    <3>3. sym_irq_lines' \in [Lines -> 0 .. 255]
      <4>1. sym_irq_lines \in [Lines -> 0 .. 255]
        BY <1>0
      <4> QED BY <3>1, <3>2, <4>1
    <3>4. reg' \in [Threads -> Int]
      <4>1. c \in Int
        BY <3>1
      <4> QED BY <1>0, <3>2, <4>1
    <3> QED BY <1>0, <3>2, <3>3, <3>4 DEF OtherType
  <2>8. CASE ResetCount(t)
    <3>1. MAX_INTERRUPTS_PER_LINE - 1 \in 0 .. 255
      BY LimitsAssumption
    <3> QED BY <1>0, <2>2, <2>8, <3>1 DEF OtherType, ResetCount, InLoop
  <2>9. CASE CallHandler(t)
    BY <1>0, <2>2, <2>9 DEF OtherType, CallHandler, InLoop
  <2> QED BY <2>1, <2>3, <2>4, <2>5, <2>6, <2>7, <2>8, <2>9 DEF PassNext
<1> QED BY <1>1, <1>2 DEF Next

(* At the start no pass runs and nothing has been counted.                 *)
LEMMA InitTypes == Init => PassInv
<1> SUFFICES ASSUME Init PROVE PassInv
  OBVIOUS
<1>1. TableType
  BY InitTable DEF TableInv
<1>2. PassType
  BY EmptySeq DEF Init, PassType, PassOK, InLoop
<1>3. OtherType
  BY DEF Init, OtherType
<1> QED BY <1>1, <1>2, <1>3, TypeParts

(* Every step keeps all types.                                             *)
LEMMA NextTypes == TableInv /\ PassInv /\ [Next]_vars => PassInv'
<1> SUFFICES ASSUME TableInv, PassInv, [Next]_vars PROVE PassInv'
  OBVIOUS
<1>1. TableType'
  BY NextTable DEF TableInv
<1>2. PassInv' <=> TableType' /\ PassType' /\ OtherType'
  BY DEF PassInv, TypeOK, TableType, PassType, OtherType
<1> QED BY <1>1, <1>2, NextPass, NextOther

(* Every variable keeps its type: passes are over the table, of lines of   *)
(* the program, and the counts fit the array of unsigned char.             *)
THEOREM TypesHold == Spec => []TypeOK
<1>1. PassInv => TypeOK
  BY DEF PassInv
<1> QED BY <1>1, InitTable, NextTable, InitTypes, NextTypes, PTL DEF Spec

-----------------------------------------------------------------------------
(* One CPU whose kernel is not preemptive: a thread in a pass keeps the    *)
(* others from running.                                                    *)
OneInv == \A t, u \in Threads : pass[t] # <<>> /\ pass[u] # <<>> => t = u

(* What a thread in a pass has read of the counts is still so, and the     *)
(* entry it calls a handler for is still there and enabled.                *)
RegOK(t) ==
  /\ pc[t] \in {"add", "leave"} => reg[t] = sym_irq_ongoing
  /\ pc[t] \in {"store", "compare", "many"} => reg[t] = sym_irq_lines[Top(t).line]
  /\ pc[t] = "call" => sym_irq_lines[Top(t).line] <= MAX_INTERRUPTS_PER_LINE
  /\ pc[t] \in {"count", "store", "compare", "call"} =>
       Top(t).i \in Allocated /\ sym_irq[Top(t).i].enabled

RegInv == \A t \in Threads : RegOK(t)

(* Only thread t is in a pass, and it alone moves.                         *)
LEMMA OnlyMover ==
  ASSUME ~SMP, PassInv, NEW t \in Threads, ThreadNext(t), ~Kill
  PROVE  \A u \in Threads \ {t} :
           /\ pass[u] = <<>> /\ pass'[u] = <<>>
           /\ pc'[u] = pc[u] /\ pc[u] \notin InLoop
<1>1. /\ pc \in [Threads -> {"run"} \cup InLoop \cup InCall] /\ pass \in [Threads -> Seq(Pass)]
      /\ \A u \in Threads : pc[u] \in InLoop => pass[u] # <<>>
  BY DEF PassInv, TypeOK
<1>2. CanRun(t)
  BY <1>1, CallSteps, PassSteps
<1>3. \A u \in Threads \ {t} : pass[u] = <<>> /\ pc[u] \notin InLoop
  BY <1>1, <1>2 DEF CanRun
<1>4. \A u \in Threads \ {t} : pass'[u] = pass[u] /\ pc'[u] = pc[u]
  <2>1. CASE ~PassNext(t)
    BY <1>1, <2>1, CallSteps DEF call_interrupt_handlers
  <2>2. CASE StaySteps(t)
    BY <2>2, StaySimple
  <2>3. CASE MoveSteps(t)
    BY <1>1, <2>3, MoveSimple DEF NextSlot
  <2>4. CASE EndPass(t)
    BY <1>1, <2>4 DEF EndPass, Becomes
  <2> QED BY <2>1, <2>2, <2>3, <2>4 DEF PassNext, StaySteps, MoveSteps
<1> QED BY <1>3, <1>4

(* On one CPU only one thread is in a pass.                                *)
LEMMA NextOne ==
  ASSUME ~SMP, PassInv, OneInv, [Next]_vars
  PROVE  OneInv'
<1>1. CASE UNCHANGED vars \/ Kill
  BY <1>1 DEF vars, Kill, OneInv
<1>2. ASSUME NEW t \in Threads, ThreadNext(t), ~Kill PROVE OneInv'
  BY <1>2, OnlyMover DEF OneInv
<1> QED BY <1>1, <1>2 DEF Next

(* Nobody else changes what a thread in a pass has read.                   *)
LEMMA NextReg ==
  ASSUME ~SMP, PassInv, RegInv, [Next]_vars
  PROVE  RegInv'
<1>0. /\ pc \in [Threads -> {"run"} \cup InLoop \cup InCall] /\ reg \in [Threads -> Int]
      /\ \A u \in Threads : pc[u] \in InLoop => pass[u] # <<>>
  BY DEF PassInv, TypeOK
<1>l. sym_irq_lines \in [Lines -> 0 .. 255]
  BY DEF PassInv, TypeOK
<1>1. CASE UNCHANGED vars \/ Kill
  BY <1>1 DEF vars, Kill, RegInv, RegOK, Top, Allocated
<1>2. ASSUME NEW t \in Threads, ThreadNext(t), ~Kill PROVE RegInv'
  <2>1. \A u \in Threads \ {t} : RegOK(u)'
    BY <1>2, OnlyMover DEF RegOK, InLoop
  <2>2. RegOK(t)
    BY DEF RegInv
  <2>3. CASE pc'[t] \notin {"add", "leave", "count", "store", "compare", "many", "call"}
    BY <2>1, <2>3 DEF RegInv, RegOK
  <2>4. CASE ~PassNext(t)
    <3>1. pc'[t] \in InCall \cup {"run", "begin"}
      BY <1>0, <1>2, <2>4, CallSteps DEF call_interrupt_handlers
    <3> QED BY <2>3, <3>1 DEF InCall
  <2>5. CASE MoveSteps(t) \/ EndPass(t) \/ BeginPass(t) \/ MustReset(t)
    <3>1. pc'[t] \in {"test", "run", "reset"}
      BY <1>0, <2>5, MoveSimple DEF EndPass, BeginPass, MustReset, Becomes
    <3> QED BY <2>3, <3>1
  <2>6. CASE ReadOngoing(t) \/ LeaveLoop(t)
    <3>1. pc'[t] \in {"add", "leave"} /\ reg'[t] = sym_irq_ongoing'
      BY <1>0, <2>6 DEF ReadOngoing, LeaveLoop, Becomes
    <3> QED BY <2>1, <3>1 DEF RegInv, RegOK
  <2>7. CASE StaySteps(t) /\ ~CallHandler(t) /\ ~StoreCount(t)
    <3>1. UNCHANGED <<pass, sym_irq, sym_irq_lines>>
      BY <2>7 DEF StaySteps, ReadOngoing, BeginPass, EnabledSlot, ReadCount, MayCall,
                  TooManyCalls, MustReset, LeaveLoop
    <3>2. Top(t)' = Top(t) /\ Allocated' = Allocated
      BY <3>1 DEF Top, Allocated
    <3>3. CASE EnabledSlot(t)
      <4>1. /\ pc'[t] = "count" /\ Top(t).i \in Allocated /\ sym_irq[Top(t).i].enabled
        BY <1>0, <3>3 DEF EnabledSlot, Becomes
      <4>2. RegOK(t)'
        BY <3>1, <3>2, <4>1 DEF RegOK
      <4> QED BY <2>1, <4>2 DEF RegInv
    <3>4. CASE ReadCount(t)
      <4>1. pc[t] = "count" /\ pc'[t] = "store" /\ reg'[t] = sym_irq_lines[Top(t).line]
        BY <1>0, <3>4 DEF ReadCount, Becomes
      <4>2. RegOK(t)'
        BY <2>2, <3>1, <3>2, <4>1 DEF RegOK
      <4> QED BY <2>1, <4>2 DEF RegInv
    <3>5. CASE MayCall(t)
      <4>1. pc[t] = "compare" /\ pc'[t] = "call"
        BY <1>0, <3>5 DEF MayCall, Becomes
      <4>2. sym_irq_lines[Top(t).line] <= MAX_INTERRUPTS_PER_LINE
        BY <2>2, <3>5, <4>1 DEF MayCall, CountSeen, RegOK
      <4>3. RegOK(t)'
        BY <2>2, <3>1, <3>2, <4>1, <4>2 DEF RegOK
      <4> QED BY <2>1, <4>3 DEF RegInv
    <3>6. CASE TooManyCalls(t)
      <4>1. pc[t] = "compare" /\ pc'[t] = "many" /\ UNCHANGED reg
        BY <1>0, <3>6 DEF TooManyCalls, Becomes
      <4>2. RegOK(t)'
        BY <2>2, <3>1, <3>2, <4>1 DEF RegOK
      <4> QED BY <2>1, <4>2 DEF RegInv
    <3> QED BY <2>5, <2>6, <2>7, <3>3, <3>4, <3>5, <3>6 DEF StaySteps
  <2>8. CASE StoreCount(t)
    <3>1. PICK c : /\ sym_irq_lines' = [sym_irq_lines EXCEPT ![Top(t).line] = c]
                   /\ reg' = [reg EXCEPT ![t] = c]
                   /\ pc[t] = "store" /\ pc' = [pc EXCEPT ![t] = "compare"]
                   /\ UNCHANGED <<pass, sym_irq>>
      BY <2>8 DEF StoreCount, Becomes
    <3>2. Top(t)' = Top(t) /\ Allocated' = Allocated
      BY <3>1 DEF Top, Allocated
    <3>3. Top(t).line \in Lines
      BY <1>0, <3>1, TopInRange DEF InLoop, Pass
    <3>4. pc'[t] = "compare" /\ reg'[t] = c /\ sym_irq_lines'[Top(t).line] = c
      BY <1>0, <1>l, <3>1, <3>3
    <3>5. Top(t).i \in Allocated /\ sym_irq[Top(t).i].enabled
      BY <2>2, <3>1 DEF RegOK
    <3>6. RegOK(t)'
      BY <3>1, <3>2, <3>4, <3>5 DEF RegOK
    <3> QED BY <2>1, <3>6 DEF RegInv
  <2>9. CASE CallHandler(t)
    <3>1. /\ UNCHANGED <<pass, reg, sym_irq, sym_irq_lines>> /\ pc[t] = "call"
          /\ pc'[t] = "run" \/ UNCHANGED pc
      BY <1>0, <2>9 DEF CallHandler, Becomes
    <3>2. Top(t)' = Top(t) /\ Allocated' = Allocated
      BY <3>1 DEF Top, Allocated
    <3>3. RegOK(t)'
      BY <2>2, <3>1, <3>2 DEF RegOK
    <3> QED BY <2>1, <3>3 DEF RegInv
  <2> QED BY <2>4, <2>5, <2>7, <2>8, <2>9 DEF PassNext, StaySteps, MoveSteps
<1> QED BY <1>1, <1>2 DEF Next

-----------------------------------------------------------------------------
(* The budget of a line.                                                   *)

(* A thread has counted a call for the line and not made or refused it yet.*)
OwedBy(t, l) == pc[t] \in {"compare", "many", "reset", "call"} /\ Top(t).line = l

(* A line's count goes past the reset by one at most, so it does not wrap  *)
(* around; the handler calls are paid for by the count, up to the limit,   *)
(* and by the resets.                                                      *)
LineOK(l) ==
  /\ calls[l] <= resets[l] + sym_irq_lines[l]
  /\ calls[l] <= resets[l] + MAX_INTERRUPTS_PER_LINE
  /\ sym_irq_lines[l] <= ResetAbove \/ \E t \in Threads : OwedBy(t, l)
  /\ (\E t \in Threads : OwedBy(t, l)) => calls[l] + 1 <= resets[l] + sym_irq_lines[l]

BudgetInv == \A l \in Lines : LineOK(l)

(* What a step does to the counts of the lines.                            *)
LEMMA NextBudget ==
  ASSUME ~SMP, PassInv, RegInv, BudgetInv, [Next]_vars
  PROVE  BudgetInv'
<1> SUFFICES ASSUME NEW l \in Lines PROVE LineOK(l)'
  BY DEF BudgetInv
<1>0. /\ pc \in [Threads -> {"run"} \cup InLoop \cup InCall] /\ reg \in [Threads -> Int]
      /\ \A u \in Threads : pc[u] \in InLoop => pass[u] # <<>>
  BY DEF PassInv, TypeOK
<1>t. /\ sym_irq_lines \in [Lines -> 0 .. 255]
      /\ calls \in [Lines -> Nat] /\ resets \in [Lines -> Nat]
  BY DEF PassInv, TypeOK
<1>c. /\ MAX_INTERRUPTS_PER_LINE \in Nat \ {0} /\ ResetAbove \in Nat
      /\ MAX_INTERRUPTS_PER_LINE <= ResetAbove /\ ResetAbove < 255
  BY LimitsAssumption
<1>n. sym_irq_lines[l] \in 0 .. 255 /\ calls[l] \in Nat /\ resets[l] \in Nat
  BY <1>t
<1>i. sym_irq_lines[l] \in Int /\ calls[l] \in Int /\ resets[l] \in Int
  BY <1>n
<1>3. LineOK(l)
  BY DEF BudgetInv
<1>1. CASE UNCHANGED vars \/ Kill
  BY <1>1, <1>3 DEF vars, Kill, LineOK, OwedBy, Top
<1>2. ASSUME NEW t \in Threads, ThreadNext(t), ~Kill PROVE LineOK(l)'
  <2>1. /\ (\E u \in Threads : OwedBy(u, l)) <=> OwedBy(t, l)
        /\ (\E u \in Threads : OwedBy(u, l)') <=> OwedBy(t, l)'
    BY <1>2, OnlyMover DEF OwedBy, InLoop
  <2>2. RegOK(t)
    BY DEF RegInv
  <2>3. ASSUME sym_irq_lines'[l] = sym_irq_lines[l], calls'[l] = calls[l],
               resets'[l] = resets[l], OwedBy(t, l)' <=> OwedBy(t, l)
        PROVE  LineOK(l)'
    BY <1>3, <2>1, <2>3 DEF LineOK
  <2>4. CASE ~PassNext(t)
    <3>1. UNCHANGED counts
      BY <1>2, <2>4, CallSteps
    <3>2. ~OwedBy(t, l) /\ ~OwedBy(t, l)'
      BY <1>0, <1>2, <2>4, CallSteps DEF call_interrupt_handlers, OwedBy, InLoop, InCall
    <3> QED BY <2>3, <3>1, <3>2
  <2>5. CASE ReadOngoing(t) \/ BeginPass(t) \/ LeaveLoop(t) \/ EndPass(t)
    <3>1. UNCHANGED counts /\ ~OwedBy(t, l) /\ ~OwedBy(t, l)'
      BY <1>0, <2>5 DEF ReadOngoing, BeginPass, LeaveLoop, EndPass, Becomes, OwedBy
    <3> QED BY <2>3, <3>1
  <2>6. CASE SkipSlot(t) \/ EnabledSlot(t) \/ ReadCount(t) \/ HandlerReturns(t)
    <3>1. UNCHANGED counts /\ ~OwedBy(t, l) /\ ~OwedBy(t, l)'
      BY <1>0, <2>6 DEF SkipSlot, EnabledSlot, ReadCount, HandlerReturns, Becomes, OwedBy
    <3> QED BY <2>3, <3>1
  <2>7. CASE MayCall(t) \/ TooManyCalls(t) \/ MustReset(t)
    <3>1. UNCHANGED <<counts, pass>>
      BY <2>7 DEF MayCall, TooManyCalls, MustReset
    <3>2. pc[t] \in {"compare", "many"} /\ pc'[t] \in {"call", "many", "reset"}
      BY <1>0, <2>7 DEF MayCall, TooManyCalls, MustReset, Becomes
    <3>3. OwedBy(t, l)' <=> OwedBy(t, l)
      BY <3>1, <3>2 DEF OwedBy, Top
    <3> QED BY <2>3, <3>1, <3>3
  <2>8. CASE KeepCount(t)
    <3>1. UNCHANGED counts /\ pc[t] = "many" /\ ~OwedBy(t, l)'
      BY <1>0, <2>8 DEF KeepCount, Becomes, OwedBy
    <3>2. OwedBy(t, l) => sym_irq_lines[l] <= ResetAbove
      BY <2>2, <2>8, <3>1 DEF KeepCount, CountSeen, RegOK, OwedBy
    <3> QED BY <1>3, <2>1, <3>1, <3>2 DEF LineOK
  <2>9. CASE StoreCount(t)
    <3>1. /\ pc[t] = "store" /\ pc'[t] = "compare" /\ UNCHANGED <<calls, resets, pass>>
          /\ sym_irq_lines' = [sym_irq_lines EXCEPT ![Top(t).line] = (reg[t] + 1) % 256]
      BY <1>0, <2>9 DEF StoreCount, Becomes
    <3>2. reg[t] = sym_irq_lines[Top(t).line] /\ ~OwedBy(t, l)
      BY <2>2, <3>1 DEF RegOK, OwedBy
    <3>3. OwedBy(t, l)' <=> Top(t).line = l
      BY <3>1 DEF OwedBy, Top
    <3>4. CASE Top(t).line = l
      <4>1. sym_irq_lines[l] <= ResetAbove
        BY <1>3, <2>1, <3>2 DEF LineOK
      <4>2. (sym_irq_lines[l] + 1) % 256 = sym_irq_lines[l] + 1
        BY <1>c, <1>n, <4>1
      <4>3. sym_irq_lines'[l] = sym_irq_lines[l] + 1
        BY <1>t, <3>1, <3>2, <3>4, <4>2
      <4>4. calls'[l] = calls[l] /\ resets'[l] = resets[l]
        BY <3>1
      <4>5. \E u \in Threads : OwedBy(u, l)'
        BY <2>1, <3>3, <3>4
      <4>6. /\ calls[l] <= resets[l] + sym_irq_lines[l]
            /\ calls[l] <= resets[l] + MAX_INTERRUPTS_PER_LINE
        BY <1>3 DEF LineOK
      <4>7. /\ calls[l] <= resets[l] + (sym_irq_lines[l] + 1)
            /\ calls[l] + 1 <= resets[l] + (sym_irq_lines[l] + 1)
        BY <1>i, <4>6
      <4>8. /\ calls'[l] <= resets'[l] + sym_irq_lines'[l]
            /\ calls'[l] + 1 <= resets'[l] + sym_irq_lines'[l]
        BY <4>3, <4>4, <4>7
      <4>9. calls'[l] <= resets'[l] + MAX_INTERRUPTS_PER_LINE
        BY <4>4, <4>6
      <4> QED BY <4>5, <4>8, <4>9 DEF LineOK
    <3>5. CASE Top(t).line # l
      <4>1. sym_irq_lines'[l] = sym_irq_lines[l]
        BY <1>t, <3>1, <3>5
      <4> QED BY <2>3, <3>1, <3>2, <3>3, <3>5, <4>1
    <3> QED BY <3>4, <3>5
  <2>10. CASE ResetCount(t)
    <3>1. /\ pc[t] = "reset" /\ UNCHANGED calls /\ ~OwedBy(t, l)'
          /\ sym_irq_lines' = [sym_irq_lines EXCEPT ![Top(t).line] = MAX_INTERRUPTS_PER_LINE - 1]
          /\ resets' = [resets EXCEPT ![Top(t).line] = @ + 1]
      BY <1>0, <2>10 DEF ResetCount, Becomes, OwedBy
    <3>2. CASE Top(t).line = l
      <4>1. sym_irq_lines'[l] = MAX_INTERRUPTS_PER_LINE - 1 /\ resets'[l] = resets[l] + 1
        BY <1>t, <3>1, <3>2
      <4>2. ~\E u \in Threads : OwedBy(u, l)'
        BY <2>1, <3>1
      <4>3. calls[l] <= resets[l] + MAX_INTERRUPTS_PER_LINE /\ calls'[l] = calls[l]
        BY <1>3, <3>1 DEF LineOK
      <4>4. /\ calls'[l] <= resets'[l] + sym_irq_lines'[l]
            /\ calls'[l] <= resets'[l] + MAX_INTERRUPTS_PER_LINE
            /\ sym_irq_lines'[l] <= ResetAbove
        BY <1>n, <1>c, <4>1, <4>3
      <4> QED BY <4>2, <4>4 DEF LineOK
    <3>3. CASE Top(t).line # l
      <4>1. sym_irq_lines'[l] = sym_irq_lines[l] /\ resets'[l] = resets[l] /\ ~OwedBy(t, l)
        BY <1>t, <3>1, <3>3 DEF OwedBy
      <4> QED BY <2>3, <3>1, <4>1
    <3> QED BY <3>2, <3>3
  <2>11. CASE CallHandler(t)
    <3>1. Top(t).i \in Allocated /\ pc[t] = "call"
      BY <2>2, <2>11 DEF CallHandler, RegOK
    <3>2. /\ UNCHANGED <<sym_irq_lines, resets>> /\ ~OwedBy(t, l)'
          /\ calls' = [calls EXCEPT ![Top(t).line] = @ + 1]
      BY <1>0, <2>11, <3>1 DEF CallHandler, Becomes, OwedBy
    <3>3. CASE Top(t).line = l
      <4>1. calls'[l] = calls[l] + 1 /\ OwedBy(t, l)
        BY <1>t, <3>1, <3>2, <3>3 DEF OwedBy
      <4>2. sym_irq_lines[l] <= MAX_INTERRUPTS_PER_LINE
        BY <2>2, <3>1, <3>3 DEF RegOK
      <4>3. calls[l] + 1 <= resets[l] + sym_irq_lines[l]
        BY <1>3, <2>1, <4>1 DEF LineOK
      <4>4. ~\E u \in Threads : OwedBy(u, l)'
        BY <2>1, <3>2
      <4>5. /\ calls'[l] <= resets'[l] + sym_irq_lines'[l]
            /\ calls'[l] <= resets'[l] + MAX_INTERRUPTS_PER_LINE
            /\ sym_irq_lines'[l] <= ResetAbove
        BY <1>n, <1>c, <3>2, <4>1, <4>2, <4>3
      <4> QED BY <4>4, <4>5 DEF LineOK
    <3>4. CASE Top(t).line # l
      <4>1. calls'[l] = calls[l] /\ ~OwedBy(t, l)
        BY <1>t, <3>2, <3>4 DEF OwedBy
      <4> QED BY <2>3, <3>2, <4>1
    <3> QED BY <3>3, <3>4
  <2> QED BY <2>4, <2>5, <2>6, <2>7, <2>8, <2>9, <2>10, <2>11 DEF PassNext
<1> QED BY <1>1, <1>2 DEF Next

(* Nothing has been counted or read.                                       *)
LEMMA InitBudget == Init => OneInv /\ RegInv /\ BudgetInv
<1> SUFFICES ASSUME Init PROVE OneInv /\ RegInv /\ BudgetInv
  OBVIOUS
<1>1. OneInv /\ RegInv
  BY DEF Init, OneInv, RegInv, RegOK
<1>2. BudgetInv
  BY LimitsAssumption DEF Init, BudgetInv, LineOK, OwedBy
<1> QED BY <1>1, <1>2

(* A line of code from which handlers are called can exceed its budget of  *)
(* calls only by one for every reset of its count: on one CPU whose kernel *)
(* is not preemptive the count, an unsigned char, neither wraps around nor *)
(* is reset too low, over any number of passes.                            *)
THEOREM BudgetHolds == ASSUME ~SMP PROVE Spec => []LineBudget
<1>1. PassInv /\ BudgetInv => LineBudget
  <2> SUFFICES ASSUME PassInv, BudgetInv, NEW l \in Lines
               PROVE  calls[l] <= MAX_INTERRUPTS_PER_LINE + resets[l]
    BY DEF LineBudget
  <2>1. calls[l] \in Nat /\ resets[l] \in Nat
    BY DEF PassInv, TypeOK
  <2> QED BY <2>1, LimitsAssumption DEF BudgetInv, LineOK
<1> QED BY <1>1, InitTable, NextTable, InitTypes, NextTypes, InitBudget, NextReg, NextBudget,
           PTL DEF Spec

-----------------------------------------------------------------------------
(* One pass at a time.                                                     *)

(* sym_irq_ongoing is the number of threads in a pass, so a thread in a    *)
(* handler does not start another.                                         *)
Passing == {t \in Threads : InPass(t)}

OngoingInv ==
  /\ IsFiniteSet(Passing)
  /\ sym_irq_ongoing = Cardinality(Passing)
  /\ \A t \in Threads : Len(pass[t]) \in {0, 1}

(* Steps after which the same threads are in a pass.                       *)
LEMMA OngoingAlone ==
  ASSUME OngoingInv, UNCHANGED sym_irq_ongoing,
         \A u \in Threads :
           /\ Len(pass'[u]) = Len(pass[u])
           /\ pass'[u] = <<>> <=> pass[u] = <<>>
           /\ pc'[u] \in {"begin", "add"} <=> pc[u] \in {"begin", "add"}
  PROVE  OngoingInv'
<1>1. Passing' = Passing
  BY DEF Passing, InPass
<1> QED BY <1>1 DEF OngoingInv

(* sym_irq_ongoing is the number of threads in a pass.                     *)
LEMMA NextOngoing ==
  ASSUME ~SMP, PassInv, RegInv, OngoingInv, [Next]_vars
  PROVE  OngoingInv'
<1>0. /\ pc \in [Threads -> {"run"} \cup InLoop \cup InCall]
      /\ pass \in [Threads -> Seq(Pass)]
      /\ \A u \in Threads : pc[u] \in InLoop => pass[u] # <<>>
      /\ \A u \in Threads : Len(pass[u]) \in Nat /\ (pass[u] # <<>> => Len(pass[u]) \in Nat \ {0})
  BY EmptySeq, LenProperties DEF PassInv, TypeOK
<1>e. Len(<<>>) = 0
  BY EmptySeq
<1>1. CASE UNCHANGED vars \/ Kill
  BY <1>1, OngoingAlone DEF vars, Kill
<1>2. ASSUME NEW t \in Threads, ThreadNext(t), ~Kill PROVE OngoingInv'
  <2>0. RegOK(t)
    BY DEF RegInv
  <2>1. CASE ~PassNext(t) /\ ~(\E l \in Lines : call_interrupt_handlers(t, l))
    <3>1. UNCHANGED <<pass, sym_irq_ongoing>>
      BY <1>2, <2>1, CallSteps
    <3>2. \A u \in Threads : pc'[u] \in {"begin", "add"} <=> pc[u] \in {"begin", "add"}
      BY <1>0, <1>2, <2>1, CallSteps DEF InLoop, InCall
    <3> QED BY <3>1, <3>2, OngoingAlone
  <2>2. CASE \E l \in Lines : call_interrupt_handlers(t, l)
    <3>1. PICK l \in Lines : call_interrupt_handlers(t, l)
      BY <2>2
    <3>2. /\ sym_irq_ongoing <= 0 /\ UNCHANGED sym_irq_ongoing
          /\ pc[t] = "run" /\ pc'[t] = "begin"
          /\ \A u \in Threads \ {t} : pc'[u] = pc[u]
      BY <1>0, <3>1 DEF call_interrupt_handlers
    <3>3. Passing = {}
      <4>1. Cardinality(Passing) \in Nat
        BY FS_CardinalityType DEF OngoingInv
      <4>2. Cardinality(Passing) = 0
        BY <3>2, <4>1 DEF OngoingInv
      <4> QED BY <4>2, FS_EmptySet DEF OngoingInv
    <3>4. pass[t] = <<>>
      BY <3>2, <3>3 DEF Passing, InPass
    <3>5. Len(pass'[t]) = Len(pass[t]) + 1 /\ \A u \in Threads \ {t} : pass'[u] = pass[u]
      BY <3>1, Push DEF call_interrupt_handlers
    <3>6. Len(pass'[t]) = 1
      BY <1>e, <3>4, <3>5
    <3>7. \A u \in Threads : Len(pass'[u]) \in {0, 1}
      BY <3>5, <3>6 DEF OngoingInv
    <3>8. Passing' = {}
      BY <3>2, <3>3, <3>5 DEF Passing, InPass
    <3> QED BY <3>2, <3>3, <3>7, <3>8 DEF OngoingInv
  <2>3. CASE BeginPass(t)
    <3>1. /\ UNCHANGED pass /\ pc[t] = "add" /\ pc'[t] = "test" /\ pass[t] # <<>>
          /\ sym_irq_ongoing' = sym_irq_ongoing + 1
      BY <1>0, <2>0, <2>3 DEF BeginPass, RegOK, Becomes, InLoop
    <3>2. \A u \in Threads \ {t} : pc'[u] = pc[u]
      BY <1>0, <2>3 DEF BeginPass, Becomes
    <3>3. Passing' = Passing \cup {t} /\ t \notin Passing
      BY <3>1, <3>2 DEF Passing, InPass
    <3>4. IsFiniteSet(Passing') /\ Cardinality(Passing') = Cardinality(Passing) + 1
      BY <3>3, FS_AddElement DEF OngoingInv
    <3> QED BY <3>1, <3>4 DEF OngoingInv
  <2>4. CASE StaySteps(t) /\ ~BeginPass(t)
    <3>1. UNCHANGED pass /\ \A u \in Threads \ {t} : pc'[u] = pc[u]
      BY <2>4, StaySimple
    <3>2. /\ UNCHANGED sym_irq_ongoing
          /\ pc'[t] \in {"begin", "add"} <=> pc[t] \in {"begin", "add"}
      BY <1>0, <2>4 DEF StaySteps, ReadOngoing, EnabledSlot, ReadCount, StoreCount, MayCall,
                        TooManyCalls, MustReset, CallHandler, LeaveLoop, Becomes
    <3> QED BY <3>1, <3>2, OngoingAlone
  <2>5. CASE MoveSteps(t)
    <3>1. /\ NextSlot(t) /\ pass[t] # <<>> /\ Top(t).i \in Slots
          /\ pc' = [pc EXCEPT ![t] = "test"]
      BY <2>5, MoveSimple
    <3>2. pc[t] \notin {"begin", "add"} /\ UNCHANGED sym_irq_ongoing
      BY <2>5 DEF MoveSteps, SkipSlot, KeepCount, ResetCount, HandlerReturns
    <3>3. /\ pass'[t] # <<>> /\ Len(pass'[t]) = Len(pass[t])
          /\ \A u \in Threads \ {t} : pass'[u] = pass[u]
      BY <3>1, Bump
    <3> QED BY <1>0, <3>1, <3>2, <3>3, OngoingAlone
  <2>6. CASE EndPass(t)
    <3>1. /\ pc[t] = "leave" /\ pass[t] # <<>> /\ pc'[t] = "run"
          /\ sym_irq_ongoing' = sym_irq_ongoing - 1
      BY <1>0, <2>0, <2>6 DEF EndPass, RegOK, Becomes, InLoop
    <3>2. Len(pass[t]) = 1
      BY <1>0, <3>1 DEF OngoingInv
    <3>3. pass'[t] = <<>> /\ \A u \in Threads \ {t} : pass'[u] = pass[u]
      BY <2>6, <3>1, <3>2, Pop DEF EndPass, Becomes
    <3>4. \A u \in Threads \ {t} : pc'[u] = pc[u]
      BY <1>0, <2>6 DEF EndPass, Becomes
    <3>5. Passing' = Passing \ {t} /\ t \in Passing
      BY <3>1, <3>3, <3>4 DEF Passing, InPass
    <3>6. IsFiniteSet(Passing') /\ Cardinality(Passing') = Cardinality(Passing) - 1
      BY <3>5, FS_RemoveElement DEF OngoingInv
    <3>7. \A u \in Threads : Len(pass'[u]) \in {0, 1}
      BY <1>e, <3>3 DEF OngoingInv
    <3> QED BY <3>1, <3>6, <3>7 DEF OngoingInv
  <2> QED BY <2>1, <2>2, <2>3, <2>4, <2>5, <2>6 DEF PassNext, StaySteps, MoveSteps
<1> QED BY <1>1, <1>2 DEF Next

(* At the start no thread is in a pass.                                    *)
LEMMA InitOngoing == Init => OngoingInv
<1> SUFFICES ASSUME Init PROVE OngoingInv
  OBVIOUS
<1>1. \A t \in Threads : pass[t] = <<>>
  BY DEF Init
<1>2. \A t \in Threads : Len(pass[t]) \in {0, 1}
  BY <1>1, EmptySeq
<1>3. Passing = {}
  BY <1>1 DEF Passing, InPass
<1>4. IsFiniteSet(Passing) /\ sym_irq_ongoing = Cardinality(Passing)
  BY <1>3, FS_EmptySet DEF Init
<1> QED BY <1>2, <1>4 DEF OngoingInv

(* On one CPU whose kernel is not preemptive, sym_irq_ongoing does what    *)
(* its comment says: one pass over the table at a time, for any number of  *)
(* threads, and none inside a handler.                                     *)
THEOREM OnePass == ASSUME ~SMP PROVE Spec => []OnePassAtATime
<1>1. OngoingInv /\ OneInv => OnePassAtATime
  <2>1. \A n : n \in {0, 1} => n <= 1
    OBVIOUS
  <2>2. OngoingInv => \A t \in Threads : Len(pass[t]) <= 1
    BY <2>1, Zenon DEF OngoingInv
  <2> QED BY <2>2, Zenon DEF OneInv, OnePassAtATime, InPass
<1> QED BY <1>1, InitTable, NextTable, InitTypes, NextTypes, InitBudget, NextOne, NextReg,
           InitOngoing, NextOngoing, PTL DEF Spec

-----------------------------------------------------------------------------
(* Devices with lines of their own: table and kernel agree on what is      *)
(* disabled.                                                               *)

OwnLine == \A d, e \in Devices : IrqOf[d] = IrqOf[e] => d = e

(* No thread is in a call about the device.                                *)
Settled(d) == \A u \in Threads : pc[u] \in InCall => call[u] # d

(* The device is in the table, enabled or disabled.                        *)
EntryOn(d) == \E i \in Allocated : sym_irq[i].parameter = d /\ sym_irq[i].enabled
EntryOff(d) == \E i \in Allocated : sym_irq[i].parameter = d /\ ~sym_irq[i].enabled

NumbersOK == \A i \in Allocated : sym_irq[i].number = IrqOf[sym_irq[i].parameter]

DisabledOK == \A n \in disabled : \E d \in registered : IrqOf[d] = n

SettledOK ==
  \A d \in registered : Settled(d) =>
    /\ IrqOf[d] \in disabled => EntryOff(d)
    /\ IrqOf[d] \notin disabled => EntryOn(d)

(* Inside a call the kernel is ahead of the table.                         *)
CallOK(u) ==
  LET d == call[u] IN
  /\ pc[u] \in {"disabled", "enabled"} => d \in registered
  /\ pc[u] = "requested" => IrqOf[d] \notin disabled
  /\ pc[u] = "disabled" => IrqOf[d] \in disabled /\ EntryOn(d)
  /\ pc[u] = "enabled" => IrqOf[d] \notin disabled /\ EntryOff(d)

AgreeInv ==
  /\ disabled \subseteq Numbers
  /\ NumbersOK
  /\ DisabledOK
  /\ SettledOK
  /\ \A u \in Threads : CallOK(u)

Agrees(d) ==
  /\ IrqOf[d] \in disabled => EntryOff(d)
  /\ IrqOf[d] \notin disabled => EntryOn(d)

(* The agreement, device by device and call by call.                       *)
LEMMA AgreeParts ==
  AgreeInv <=> /\ disabled \subseteq Numbers /\ NumbersOK /\ DisabledOK
               /\ \A d \in registered : Settled(d) => Agrees(d)
               /\ \A u \in Threads : CallOK(u)
  BY DEF AgreeInv, SettledOK, Agrees

(* Steps that change neither table, kernel nor calls.                      *)
LEMMA AgreeAlone ==
  ASSUME AgreeInv, UNCHANGED <<table, kernel, call>>,
         \A u \in Threads :
           pc'[u] = pc[u] \/ (pc[u] \notin InCall /\ pc'[u] \notin InCall)
  PROVE  AgreeInv'
<1>1. Allocated' = Allocated
  BY DEF Allocated
<1>2. \A d : (EntryOn(d)' <=> EntryOn(d)) /\ (EntryOff(d)' <=> EntryOff(d))
  BY <1>1 DEF EntryOn, EntryOff
<1>3. \A u \in Threads : CallOK(u)'
  BY <1>2 DEF AgreeInv, CallOK, InCall
<1>4. SettledOK'
  BY <1>2 DEF AgreeInv, SettledOK, Settled
<1> QED BY <1>1, <1>3, <1>4 DEF AgreeInv, NumbersOK, DisabledOK

(* What a step of thread t about device d leaves alone: the other devices  *)
(* and the calls of the other threads.                                     *)
LEMMA OthersAgree ==
  ASSUME OwnLine, TableInv, AgreeInv, NEW t \in Threads, NEW d \in Devices,
         \A u \in Threads \ {t} :
           /\ pc'[u] = pc[u] /\ call'[u] = call[u]
           /\ pc[u] \in InCall => call[u] # d,
         pc[t] \in InCall => call[t] = d,
         \A j \in Allocated : sym_irq[j].parameter # d =>
           j \in Allocated' /\ sym_irq'[j] = sym_irq[j],
         registered' \subseteq Devices, registered' \ {d} = registered \ {d},
         disabled' \ {IrqOf[d]} = disabled \ {IrqOf[d]}
  PROVE  /\ \A u \in Threads \ {t} : CallOK(u)'
         /\ \A e \in registered' \ {d} : Settled(e)' => Agrees(e)'
<1>1. \A e \in Devices \ {d} : /\ EntryOn(e) => EntryOn(e)'
                               /\ EntryOff(e) => EntryOff(e)'
  BY DEF EntryOn, EntryOff
<1>2. \A e \in Devices \ {d} : IrqOf[e] \in disabled' <=> IrqOf[e] \in disabled
  BY DEF OwnLine
<1>3. ASSUME NEW u \in Threads \ {t} PROVE CallOK(u)'
  <2>1. CASE pc[u] \notin InCall
    BY <2>1 DEF CallOK, InCall
  <2>2. CASE pc[u] \in InCall
    <3>1. call[u] \in Devices \ {d} /\ pc'[u] = pc[u] /\ call'[u] = call[u]
      BY <2>2 DEF TableInv, TableType
    <3>2. CallOK(u)
      BY DEF AgreeInv
    <3>3. call[u] \in registered => call[u] \in registered'
      BY <3>1
    <3> QED BY <1>1, <1>2, <3>1, <3>2, <3>3 DEF CallOK
  <2> QED BY <2>1, <2>2
<1>4. ASSUME NEW e \in registered' \ {d}, Settled(e)' PROVE Agrees(e)'
  <2>1. e \in registered /\ e \in Devices \ {d}
    OBVIOUS
  <2>2. Settled(e)
    BY <1>4, <2>1 DEF Settled
  <2> QED BY <1>1, <1>2, <2>1, <2>2 DEF AgreeInv, SettledOK, Agrees
<1> QED BY <1>3, <1>4

(* A device that no call is about is settled, and its line idle.           *)
LEMMA IdleSettled ==
  ASSUME OwnLine, TableInv, AgreeInv, NEW t \in Threads, NEW d \in Devices,
         LineIdle(d), pc[t] = "run"
  PROVE  /\ \A u \in Threads : pc[u] \in InCall => call[u] # d
         /\ Settled(d) /\ pc[t] \notin InCall
         /\ d \in registered => Agrees(d)
<1>1. \A u \in Threads : pc[u] \in InCall => call[u] # d
  BY DEF LineIdle
<1>2. Settled(d) /\ pc[t] \notin InCall
  BY <1>1 DEF Settled, InCall
<1> QED BY <1>1, <1>2, AgreeParts

(* The slots of a line are those of the device the line belongs to.        *)
LEMMA SlotOfDevice ==
  ASSUME OwnLine, TableInv, AgreeInv, NEW d \in Devices, NEW i \in SlotsOf(IrqOf[d])
  PROVE  i \in Allocated /\ i \in Slots /\ sym_irq[i] \in Entry /\ sym_irq[i].parameter = d
<1>1. i \in Allocated /\ i \in Slots /\ sym_irq[i].number = IrqOf[d]
  BY DEF SlotsOf, Allocated
<1>2. sym_irq[i] \in Entry
  BY <1>1 DEF TableInv, TableType, Allocated
<1>3. IrqOf[sym_irq[i].parameter] = IrqOf[d]
  BY <1>1 DEF AgreeInv, NumbersOK
<1> QED BY <1>1, <1>2, <1>3 DEF OwnLine, Entry

(* The kernel registers a device: its line is enabled.                     *)
LEMMA RequestAgrees ==
  ASSUME OwnLine, TableInv, AgreeInv, NEW t \in Threads, NEW d \in Devices, KernelRequest(t, d)
  PROVE  AgreeInv'
<1>1. /\ pc[t] = "run" /\ d \notin registered /\ LineIdle(d)
      /\ registered' = registered \cup {d}
      /\ Starts(t, d, "requested") /\ UNCHANGED <<table, disabled>>
  BY DEF KernelRequest
<1>2. "requested" \in InCall
  BY DEF InCall
<1>3. Allocated' = Allocated
  BY <1>1 DEF Allocated
<1>4. IrqOf[d] \notin disabled
  BY <1>1 DEF AgreeInv, DisabledOK, OwnLine, TableInv, TableType
<1>5. /\ pc'[t] = "requested" /\ call'[t] = d
      /\ \A u \in Threads \ {t} : pc'[u] = pc[u] /\ call'[u] = call[u]
  BY <1>1, <1>2, StartsExclusive
<1>6. registered' \subseteq Devices
  BY <1>1 DEF TableInv, TableType
<1>7. /\ \A u \in Threads \ {t} : CallOK(u)'
      /\ \A e \in registered' \ {d} : Settled(e)' => Agrees(e)'
  BY <1>1, <1>3, <1>5, <1>6, IdleSettled, OthersAgree
<1>8. CallOK(t)' /\ ~Settled(d)'
  BY <1>1, <1>2, <1>4, <1>5 DEF CallOK, Settled
<1>9. (disabled \subseteq Numbers)' /\ NumbersOK' /\ DisabledOK'
  BY <1>1, <1>3 DEF AgreeInv, NumbersOK, DisabledOK, Numbers
<1>10. \A e \in registered' : Settled(e)' => Agrees(e)'
  BY <1>7, <1>8
<1> QED BY <1>7, <1>8, <1>9, <1>10 DEF AgreeInv, SettledOK, Agrees

(* The device enters the table enabled, as its line is.                    *)
LEMMA EnteredAgrees ==
  ASSUME OwnLine, TableInv, AgreeInv, NEW t \in Threads, RequestPost(t), ~Kill
  PROVE  AgreeInv'
<1> SUFFICES ASSUME NEW d, d = call[t] PROVE AgreeInv'
  OBVIOUS
<1> DEFINE e == [number |-> IrqOf[d], parameter |-> d, enabled |-> TRUE]
<1>1. PICK i \in Slots \ Allocated :
        /\ sym_irq' = [sym_irq EXCEPT ![i] = e]
        /\ Returns(t) /\ UNCHANGED kernel /\ pc[t] = "requested"
  BY DEF RequestPost
<1>2. pc[t] \in InCall /\ d \in Devices /\ d \in registered /\ IrqOf[d] \notin disabled
  BY <1>1 DEF InCall, TableInv, TableType, Between, AgreeInv, CallOK
<1>3. /\ e \in Entry /\ e # NONE
      /\ e.parameter = d /\ e.number = IrqOf[d] /\ e.enabled
  <2>1. IrqOf[d] \in Numbers
    BY <1>2 DEF Numbers
  <2>2. e \in Entry /\ e.parameter = d /\ e.number = IrqOf[d] /\ e.enabled
    BY <1>2, <2>1 DEF Entry
  <2> HIDE DEF e
  <2> QED BY <2>2, DevicesAssumption
<1> HIDE DEF e
<1>4. /\ sym_irq'[i] = e
      /\ \A j \in Slots \ {i} : sym_irq'[j] = sym_irq[j]
  BY <1>1 DEF TableInv, TableType
<1>5. Allocated' = Allocated \cup {i} /\ Allocated \subseteq Slots \ {i}
  BY <1>3, <1>4 DEF Allocated
<1>6. /\ pc'[t] = "run"
      /\ \A u \in Threads \ {t} : pc'[u] = pc[u] /\ call'[u] = call[u]
  BY <1>1, ReturnsExclusive
<1>7. \A u \in Threads \ {t} : pc[u] \in InCall => call[u] # d
  BY <1>2 DEF TableInv, LineExclusive
<1>8. registered' = registered /\ disabled' = disabled /\ registered \subseteq Devices
  BY <1>1 DEF TableInv, TableType
<1>9. \A j \in Allocated : j \in Allocated' /\ sym_irq'[j] = sym_irq[j]
  BY <1>4, <1>5
<1>10. /\ \A u \in Threads \ {t} : CallOK(u)'
       /\ \A f \in registered' \ {d} : Settled(f)' => Agrees(f)'
  BY <1>2, <1>6, <1>7, <1>8, <1>9, OthersAgree
<1>11. CallOK(t)'
  BY <1>6 DEF CallOK
<1>12. Agrees(d)'
  BY <1>2, <1>3, <1>4, <1>5, <1>8 DEF Agrees, EntryOn
<1>13. (disabled \subseteq Numbers)' /\ NumbersOK' /\ DisabledOK'
  BY <1>3, <1>4, <1>5, <1>8, <1>9 DEF AgreeInv, NumbersOK, DisabledOK
<1>14. \A f \in registered' : Settled(f)' => Agrees(f)'
  BY <1>10, <1>12
<1> QED BY <1>10, <1>11, <1>13, <1>14 DEF AgreeInv, SettledOK, Agrees

(* The device leaves the table; its call goes on.                          *)
LEMMA RemovedAgrees ==
  ASSUME OwnLine, TableInv, AgreeInv, NEW t \in Threads, NEW d \in Devices, FreePre(t, d), ~Kill
  PROVE  AgreeInv'
<1>1. PICK i \in SlotsOf(IrqOf[d]) :
        /\ sym_irq' = [sym_irq EXCEPT ![i] = NONE]
        /\ Starts(t, d, "freeing") /\ LineIdle(d) /\ pc[t] = "run"
        /\ UNCHANGED kernel
  BY DEF FreePre, IsFirst
<1>2. i \in Allocated /\ i \in Slots /\ sym_irq[i].parameter = d
  BY SlotOfDevice
<1>3. /\ sym_irq'[i] = NONE
      /\ \A j \in Slots \ {i} : sym_irq'[j] = sym_irq[j]
  BY <1>1, <1>2 DEF TableInv, TableType
<1>4. Allocated' = Allocated \ {i}
  BY <1>3 DEF Allocated
<1>5. "freeing" \in InCall
  BY DEF InCall
<1>6. /\ pc'[t] = "freeing" /\ call'[t] = d
      /\ \A u \in Threads \ {t} : pc'[u] = pc[u] /\ call'[u] = call[u]
  BY <1>1, <1>5, StartsExclusive
<1>7. \A j \in Allocated' : j \in Allocated /\ sym_irq'[j] = sym_irq[j]
  BY <1>3, <1>4 DEF Allocated
<1>8. \A j \in Allocated : sym_irq[j].parameter # d => j \in Allocated' /\ sym_irq'[j] = sym_irq[j]
  BY <1>2, <1>4, <1>7
<1>9. registered' = registered /\ disabled' = disabled /\ registered \subseteq Devices
  BY <1>1 DEF TableInv, TableType
<1>10. /\ \A u \in Threads \ {t} : CallOK(u)'
       /\ \A e \in registered' \ {d} : Settled(e)' => Agrees(e)'
  BY <1>1, <1>6, <1>8, <1>9, IdleSettled, OthersAgree
<1>11. CallOK(t)' /\ ~Settled(d)'
  BY <1>5, <1>6 DEF CallOK, Settled
<1>12. (disabled \subseteq Numbers)' /\ NumbersOK' /\ DisabledOK'
  BY <1>7, <1>9 DEF AgreeInv, NumbersOK, DisabledOK
<1>13. \A e \in registered' : Settled(e)' => Agrees(e)'
  BY <1>10, <1>11
<1> QED BY <1>10, <1>11, <1>12, <1>13 DEF AgreeInv, SettledOK, Agrees

(* The kernel drops the device, and its line is no longer disabled.        *)
LEMMA FreeAgrees ==
  ASSUME OwnLine, TableInv, AgreeInv, NEW t \in Threads, KernelFree(t)
  PROVE  AgreeInv'
<1> SUFFICES ASSUME NEW d, d = call[t] PROVE AgreeInv'
  OBVIOUS
<1>1. /\ pc[t] = "freeing" /\ Returns(t) /\ UNCHANGED table
      /\ registered' = registered \ {d}
  BY DEF KernelFree
<1>2. pc[t] \in InCall /\ d \in Devices /\ registered \subseteq Devices
  BY <1>1 DEF InCall, TableInv, TableType
<1>3. disabled' = disabled \ {IrqOf[d]}
  BY <1>2 DEF KernelFree, OwnLine
<1>4. Allocated' = Allocated
  BY <1>1 DEF Allocated
<1>5. /\ pc'[t] = "run"
      /\ \A u \in Threads \ {t} : pc'[u] = pc[u] /\ call'[u] = call[u]
  BY <1>1, ReturnsExclusive
<1>6. \A u \in Threads \ {t} : pc[u] \in InCall => call[u] # d
  BY <1>2 DEF TableInv, LineExclusive
<1>7. registered' \subseteq Devices /\ registered' \ {d} = registered \ {d}
  BY <1>1, <1>2
<1>8. /\ \A u \in Threads \ {t} : CallOK(u)'
      /\ \A e \in registered' \ {d} : Settled(e)' => Agrees(e)'
  BY <1>1, <1>2, <1>3, <1>4, <1>5, <1>6, <1>7, OthersAgree
<1>9. CallOK(t)' /\ d \notin registered'
  BY <1>1, <1>5 DEF CallOK
<1>10. (disabled \subseteq Numbers)' /\ NumbersOK' /\ DisabledOK'
  BY <1>1, <1>3, <1>4 DEF AgreeInv, NumbersOK, DisabledOK
<1> QED BY <1>8, <1>9, <1>10 DEF AgreeInv, SettledOK, Agrees

(* The kernel disables the line; the entry follows.                        *)
LEMMA DisableAgrees ==
  ASSUME OwnLine, TableInv, AgreeInv, NEW t \in Threads, NEW d \in Devices, KernelDisable(t, d)
  PROVE  AgreeInv'
<1>1. /\ pc[t] = "run" /\ d \in registered /\ LineIdle(d) /\ IrqOf[d] \notin disabled
      /\ disabled' = disabled \cup {IrqOf[d]}
      /\ Starts(t, d, "disabled") /\ UNCHANGED <<table, registered>>
  BY DEF KernelDisable
<1>2. "disabled" \in InCall
  BY DEF InCall
<1>3. Allocated' = Allocated
  BY <1>1 DEF Allocated
<1>4. /\ pc'[t] = "disabled" /\ call'[t] = d
      /\ \A u \in Threads \ {t} : pc'[u] = pc[u] /\ call'[u] = call[u]
  BY <1>1, <1>2, StartsExclusive
<1>5. registered' \subseteq Devices /\ IrqOf[d] \in Numbers
  BY <1>1 DEF TableInv, TableType, Numbers
<1>6. /\ \A u \in Threads \ {t} : CallOK(u)'
      /\ \A e \in registered' \ {d} : Settled(e)' => Agrees(e)'
  BY <1>1, <1>3, <1>4, <1>5, IdleSettled, OthersAgree
<1>7. EntryOn(d)'
  <2>1. EntryOn(d)
    BY <1>1, IdleSettled DEF Agrees
  <2> QED BY <1>1, <1>3, <2>1 DEF EntryOn
<1>8. CallOK(t)' /\ ~Settled(d)'
  BY <1>1, <1>2, <1>4, <1>7 DEF CallOK, Settled
<1>9. (disabled \subseteq Numbers)' /\ NumbersOK' /\ DisabledOK'
  BY <1>1, <1>3, <1>5 DEF AgreeInv, NumbersOK, DisabledOK
<1>10. \A e \in registered' : Settled(e)' => Agrees(e)'
  BY <1>6, <1>8
<1> QED BY <1>6, <1>8, <1>9, <1>10 DEF AgreeInv, SettledOK, Agrees

(* The kernel enables the line; the entry follows.                         *)
LEMMA EnableAgrees ==
  ASSUME OwnLine, TableInv, AgreeInv, NEW t \in Threads, NEW d \in Devices, KernelEnable(t, d)
  PROVE  AgreeInv'
<1>1. /\ pc[t] = "run" /\ d \in registered /\ LineIdle(d) /\ IrqOf[d] \in disabled
      /\ disabled' = disabled \ {IrqOf[d]}
      /\ Starts(t, d, "enabled") /\ UNCHANGED <<table, registered>>
  BY DEF KernelEnable
<1>2. "enabled" \in InCall
  BY DEF InCall
<1>3. Allocated' = Allocated
  BY <1>1 DEF Allocated
<1>4. /\ pc'[t] = "enabled" /\ call'[t] = d
      /\ \A u \in Threads \ {t} : pc'[u] = pc[u] /\ call'[u] = call[u]
  BY <1>1, <1>2, StartsExclusive
<1>5. registered' \subseteq Devices
  BY <1>1 DEF TableInv, TableType
<1>6. /\ \A u \in Threads \ {t} : CallOK(u)'
      /\ \A e \in registered' \ {d} : Settled(e)' => Agrees(e)'
  BY <1>1, <1>3, <1>4, <1>5, IdleSettled, OthersAgree
<1>7. EntryOff(d)'
  <2>1. EntryOff(d)
    BY <1>1, IdleSettled DEF Agrees
  <2> QED BY <1>1, <1>3, <2>1 DEF EntryOff
<1>8. CallOK(t)' /\ ~Settled(d)'
  BY <1>1, <1>2, <1>4, <1>7 DEF CallOK, Settled
<1>9. (disabled \subseteq Numbers)' /\ NumbersOK' /\ DisabledOK'
  BY <1>1, <1>3 DEF AgreeInv, NumbersOK, DisabledOK
<1>10. \A e \in registered' : Settled(e)' => Agrees(e)'
  BY <1>6, <1>8
<1> QED BY <1>6, <1>8, <1>9, <1>10 DEF AgreeInv, SettledOK, Agrees

(* The check after either follows the kernel.                              *)
LEMMA SwitchAgrees ==
  ASSUME OwnLine, TableInv, AgreeInv, NEW t \in Threads, NEW b \in BOOLEAN,
         pc[t] \in {"disabled", "enabled"}, b = (pc[t] = "enabled"),
         SetEnabled(t, b), ~Kill
  PROVE  AgreeInv'
<1> SUFFICES ASSUME NEW d, d = call[t] PROVE AgreeInv'
  OBVIOUS
<1>1. PICK i \in SlotsOf(IrqOf[d]) :
        /\ sym_irq' = [sym_irq EXCEPT ![i].enabled = b]
        /\ Returns(t) /\ UNCHANGED kernel
  BY DEF SetEnabled, IsFirst
<1>2. /\ pc[t] \in InCall /\ d \in Devices /\ d \in registered
      /\ IrqOf[d] \in disabled <=> pc[t] = "disabled"
      /\ registered \subseteq Devices
  BY DEF InCall, TableInv, TableType, AgreeInv, CallOK
<1>3. i \in Allocated /\ i \in Slots /\ sym_irq[i] \in Entry /\ sym_irq[i].parameter = d
  BY <1>2, SlotOfDevice
<1> DEFINE e == [number |-> sym_irq[i].number, parameter |-> d, enabled |-> b]
<1>4. [sym_irq[i] EXCEPT !.enabled = b] = e
  BY <1>3 DEF Entry
<1>5. e \in Entry /\ e.parameter = d /\ e.number = sym_irq[i].number /\ e.enabled = b
  BY <1>2, <1>3 DEF Entry
<1>6. sym_irq' = [sym_irq EXCEPT ![i] = e]
  BY <1>1, <1>4
<1> SUFFICES ASSUME NEW f, f = e PROVE AgreeInv'
  OBVIOUS
<1> HIDE DEF e
<1>7. /\ sym_irq'[i] = f
      /\ \A j \in Slots \ {i} : sym_irq'[j] = sym_irq[j]
  BY <1>3, <1>6 DEF TableInv, TableType
<1>8. f \in Entry /\ f # NONE
  BY <1>5, DevicesAssumption
<1>9. Allocated' = Allocated
  BY <1>3, <1>7, <1>8 DEF Allocated
<1>10. /\ pc'[t] = "run"
       /\ \A u \in Threads \ {t} : pc'[u] = pc[u] /\ call'[u] = call[u]
  BY <1>1, ReturnsExclusive
<1>11. \A u \in Threads \ {t} : pc[u] \in InCall => call[u] # d
  BY <1>2 DEF TableInv, LineExclusive
<1>12. \A j \in Allocated : sym_irq[j].parameter # d => j \in Allocated' /\ sym_irq'[j] = sym_irq[j]
  BY <1>3, <1>7, <1>9 DEF Allocated
<1>13. registered' = registered /\ disabled' = disabled
  BY <1>1
<1>14. /\ \A u \in Threads \ {t} : CallOK(u)'
       /\ \A g \in registered' \ {d} : Settled(g)' => Agrees(g)'
  BY <1>2, <1>10, <1>11, <1>12, <1>13, OthersAgree
<1>15. CallOK(t)'
  BY <1>10 DEF CallOK
<1>16. Agrees(d)'
  <2>1. /\ i \in Allocated' /\ sym_irq'[i].parameter = d
        /\ sym_irq'[i].enabled <=> pc[t] = "enabled"
    BY <1>3, <1>5, <1>7, <1>9
  <2> QED BY <1>2, <1>13, <2>1 DEF Agrees, EntryOn, EntryOff
<1>17. NumbersOK'
  <2>1. sym_irq'[i].number = IrqOf[d] /\ sym_irq'[i].parameter = d
    BY <1>3, <1>5, <1>7 DEF AgreeInv, NumbersOK
  <2>2. \A j \in Allocated \ {i} : sym_irq'[j] = sym_irq[j]
    BY <1>7 DEF Allocated
  <2> QED BY <1>9, <2>1, <2>2 DEF AgreeInv, NumbersOK
<1>18. (disabled \subseteq Numbers)' /\ DisabledOK'
  BY <1>13 DEF AgreeInv, DisabledOK
<1>19. \A g \in registered' : Settled(g)' => Agrees(g)'
  BY <1>14, <1>16
<1> QED BY <1>14, <1>15, <1>17, <1>18, <1>19 DEF AgreeInv, SettledOK, Agrees

(* Every step preserves the agreement.                                     *)
LEMMA NextAgree ==
  ASSUME OwnLine, TableInv, AgreeInv, [Next]_vars
  PROVE  AgreeInv'
<1>0. pc \in [Threads -> {"run"} \cup InLoop \cup InCall]
  BY DEF TableInv, TableType
<1>1. CASE UNCHANGED vars \/ Kill
  BY <1>1, AgreeAlone DEF vars, Kill
<1>2. ASSUME NEW t \in Threads, ThreadNext(t), ~Kill PROVE AgreeInv'
  <2>1. CASE \E d \in Devices : KernelRequest(t, d)
    BY <2>1, RequestAgrees
  <2>2. CASE RequestPost(t)
    BY <1>2, <2>2, EnteredAgrees
  <2>3. CASE \E d \in Devices : FreePre(t, d)
    BY <1>2, <2>3, RemovedAgrees
  <2>4. CASE KernelFree(t)
    BY <2>4, FreeAgrees
  <2>5. CASE \E d \in Devices : KernelDisable(t, d)
    BY <2>5, DisableAgrees
  <2>6. CASE \E d \in Devices : KernelEnable(t, d)
    BY <2>6, EnableAgrees
  <2>7. CASE DisablePost(t)
    <3>1. SetEnabled(t, FALSE) /\ pc[t] = "disabled"
      BY <2>7 DEF DisablePost
    <3> QED BY <1>2, <3>1, SwitchAgrees
  <2>8. CASE EnablePost(t)
    <3>1. SetEnabled(t, TRUE) /\ pc[t] = "enabled"
      BY <2>8 DEF EnablePost
    <3> QED BY <1>2, <3>1, SwitchAgrees
  <2>9. CASE \E l \in Lines : call_interrupt_handlers(t, l)
    BY <1>0, <2>9, AgreeAlone DEF call_interrupt_handlers, InCall
  <2>10. CASE PassNext(t)
    <3>1. /\ UNCHANGED <<table, kernel, call>>
          /\ \A u \in Threads :
               pc'[u] = pc[u] \/ (pc[u] \notin InCall /\ pc'[u] \notin InCall)
      BY <1>0, <2>10, PassSteps DEF InCall, InLoop
    <3> QED BY <3>1, AgreeAlone
  <2> QED BY <1>2, <2>1, <2>2, <2>3, <2>4, <2>5, <2>6, <2>7, <2>8, <2>9, <2>10
          DEF ThreadNext
<1> QED BY <1>1, <1>2 DEF Next

(* At the start nothing is registered, entered or disabled.                *)
LEMMA InitAgree == Init => AgreeInv
<1> SUFFICES ASSUME Init PROVE AgreeInv
  OBVIOUS
<1>1. Allocated = {}
  BY DEF Init, Allocated
<1>2. NumbersOK /\ DisabledOK /\ SettledOK /\ disabled \subseteq Numbers
  BY <1>1 DEF Init, NumbersOK, DisabledOK, SettledOK
<1>3. \A u \in Threads : CallOK(u)
  BY DEF Init, CallOK
<1> QED BY <1>2, <1>3 DEF AgreeInv

(* What a pass finds enabled may be called.                                *)
LEMMA AllowedStep ==
  ASSUME TableInv, PassInv, RegInv, AgreeInv, [Next]_vars, NEW t \in Threads,
         pc[t] = "call", pc'[t] = "run", NEW d, d = sym_irq[Top(t).i].parameter
  PROVE  /\ d \in registered
         /\ IrqOf[d] \in disabled =>
              \E u \in Threads : pc[u] = "disabled" /\ IrqOf[call[u]] = IrqOf[d]
<1> SUFFICES ASSUME NEW i, i = Top(t).i
             PROVE  /\ d \in registered
                    /\ IrqOf[d] \in disabled =>
                         \E u \in Threads : pc[u] = "disabled" /\ IrqOf[call[u]] = IrqOf[d]
  OBVIOUS
<1>2. i \in Allocated /\ sym_irq[i].enabled /\ d = sym_irq[i].parameter
  BY DEF RegInv, RegOK
<1>3. d \in registered
  BY <1>2 DEF TableInv, TableWithinKernel
<1>4. ~EntryOff(d)
  BY <1>2 DEF EntryOff, TableInv, TableWithinKernel
<1>5. ASSUME IrqOf[d] \in disabled
      PROVE  \E u \in Threads : pc[u] = "disabled" /\ IrqOf[call[u]] = IrqOf[d]
  <2>1. PICK u \in Threads : pc[u] \in InCall /\ call[u] = d
    BY <1>3, <1>4, <1>5 DEF AgreeInv, SettledOK, Settled
  <2>2. pc[u] # "requested" /\ pc[u] # "enabled"
    BY <1>5, <2>1 DEF AgreeInv, CallOK
  <2>3. pc[u] # "freeing"
    BY <1>2, <2>1 DEF TableInv, Between
  <2> QED BY <2>1, <2>2, <2>3 DEF InCall
<1> QED BY <1>3, <1>5

(* A pass calls handlers only of devices the kernel has, and none whose    *)
(* line disable_irq has disabled: for devices with lines of their own, on  *)
(* one CPU whose kernel is not preemptive.  With a shared line it is       *)
(* false, disable_irq marks the first entry of the line only; and so it is *)
(* where disable_irq or free_irq runs between the test and the call.       *)
THEOREM HandlersAreAllowed == ASSUME OwnLine, ~SMP PROVE Spec => HandlerAllowed
<1> DEFINE Allowed ==
      \A t \in Threads :
        pc[t] = "call" /\ pc'[t] = "run" =>
          LET d == sym_irq[Top(t).i].parameter IN
          /\ d \in registered
          /\ IrqOf[d] \in disabled =>
               \E u \in Threads : pc[u] = "disabled" /\ IrqOf[call[u]] = IrqOf[d]
<1>1. TableInv /\ PassInv /\ RegInv /\ AgreeInv /\ [Next]_vars => [Allowed]_vars
  BY AllowedStep
<1>2. HandlerAllowed <=> [][Allowed]_vars
  BY PTL DEF HandlerAllowed
<1> HIDE DEF Allowed
<1> QED BY <1>1, <1>2, InitTable, NextTable, InitTypes, NextTypes, InitBudget, NextReg,
           InitAgree, NextAgree, PTL DEF Spec

-----------------------------------------------------------------------------
(* No false alarm.                                                         *)

Capacity == Cardinality(Devices) <= MAX_IRQS

(* A free entry is left for a device that is not in the table.             *)
LEMMA RoomLeft ==
  ASSUME TableInv, Capacity, NEW d \in Devices,
         \A i \in Allocated : sym_irq[i].parameter # d
  PROVE  Allocated # Slots
<1> SUFFICES ASSUME Allocated = Slots PROVE FALSE
  OBVIOUS
<1> DEFINE T == Devices \ {d}
           f == [i \in Slots |-> sym_irq[i].parameter]
<1>1. IsFiniteSet(Slots) /\ Cardinality(Slots) = MAX_IRQS
  BY FS_Interval, LimitsAssumption DEF Slots
<1>2. IsFiniteSet(T) /\ Cardinality(T) = Cardinality(Devices) - 1 /\ Cardinality(Devices) \in Nat
  BY DevicesAssumption, FS_RemoveElement, FS_CardinalityType
<1>3. Cardinality(T) < Cardinality(Slots)
  BY <1>1, <1>2, LimitsAssumption DEF Capacity
<1>4. f \in [Slots -> T]
  BY DEF TableInv, TableType, Allocated, Entry
<1> HIDE DEF f, T
<1>5. \E i, j \in Slots : i # j /\ f[i] = f[j]
  BY <1>1, <1>2, <1>3, <1>4, FS_PigeonHole
<1> QED BY <1>5 DEF f, TableInv, TableWithinKernel

(* A settled device of the kernel is in the table.                         *)
LEMMA SettledInTable ==
  ASSUME AgreeInv, NEW d \in registered, Settled(d)
  PROVE  \E i \in Allocated : sym_irq[i].parameter = d /\ i \in SlotsOf(IrqOf[d])
  BY DEF AgreeInv, SettledOK, EntryOn, EntryOff, NumbersOK, SlotsOf

(* No check of a well-behaved driver's step fails.                         *)
LEMMA NoKill ==
  ASSUME OwnLine, ~SMP, Capacity,
         TableInv, PassInv, RegInv, OngoingInv, AgreeInv, NoFalseAlarm, [Next]_vars
  PROVE  NoFalseAlarm'
<1> USE DEF NoFalseAlarm
<1>1. CASE UNCHANGED vars
  BY <1>1 DEF vars
<1>2. ASSUME NEW t \in Threads, ThreadNext(t) PROVE path' = "running"
  <2>1. CASE RequestPost(t)
    <3>1. call[t] \in Devices /\ \A i \in Allocated : sym_irq[i].parameter # call[t]
      BY <2>1 DEF RequestPost, InCall, TableInv, TableType, Between
    <3> QED BY <2>1, <3>1, RoomLeft DEF RequestPost
  <2>2. ASSUME NEW d \in Devices, FreePre(t, d) PROVE path' = "running"
    <3>1. /\ pc[t] = "run" /\ pass[t] = <<>> /\ d \in registered /\ LineIdle(d)
          /\ \A u \in Threads \ {t} : pass[u] = <<>>
      BY <2>2 DEF FreePre, CanRun
    <3>2. PICK j \in Allocated : j \in SlotsOf(IrqOf[d])
      BY <3>1, IdleSettled, SettledInTable
    <3>3. ~(sym_num_requests < 1)
      <4>1. Cardinality(Allocated) # 0
        BY <3>2, AllocatedFinite, FS_EmptySet
      <4> QED BY <4>1, AllocatedFinite DEF TableInv
    <3>4. sym_irq_ongoing = 0
      <4>1. Passing = {}
        BY <3>1 DEF Passing, InPass
      <4> QED BY <4>1, FS_EmptySet DEF OngoingInv
    <3>5. \A i \in SlotsOf(IrqOf[d]) : sym_irq[i].parameter = d
      BY SlotOfDevice
    <3>6. ~(SlotsOf(IrqOf[d]) = {})
      BY <3>2
    <3> QED BY <2>2, <3>3, <3>4, <3>5, <3>6 DEF FreePre, IsFirst
  <2>3. ASSUME NEW b \in BOOLEAN, pc[t] \in {"disabled", "enabled"}, b = (pc[t] = "enabled"),
               SetEnabled(t, b)
        PROVE  path' = "running"
    <3> SUFFICES ASSUME NEW d, d = call[t] PROVE path' = "running"
      OBVIOUS
    <3>1. d \in Devices /\ (IF b THEN EntryOff(d) ELSE EntryOn(d))
      BY <2>3 DEF AgreeInv, CallOK, TableInv, TableType, InCall
    <3>2. PICK j \in Allocated : sym_irq[j].parameter = d /\ (sym_irq[j].enabled <=> ~b)
      BY <3>1 DEF EntryOn, EntryOff
    <3>3. j \in SlotsOf(IrqOf[d])
      BY <3>2 DEF AgreeInv, NumbersOK, SlotsOf
    <3>4. \A i \in SlotsOf(IrqOf[d]) : i = j
      BY <3>1, <3>2, SlotOfDevice DEF TableInv, TableWithinKernel
    <3>5. sym_irq[j].enabled # b
      BY <3>2, <2>3
    <3> QED BY <2>3, <3>3, <3>4, <3>5 DEF SetEnabled, IsFirst
  <2>4. CASE DisablePost(t)
    <3>1. SetEnabled(t, FALSE) /\ pc[t] = "disabled"
      BY <2>4 DEF DisablePost
    <3> QED BY <2>3, <3>1
  <2>5. CASE EnablePost(t)
    <3>1. SetEnabled(t, TRUE) /\ pc[t] = "enabled"
      BY <2>5 DEF EnablePost
    <3> QED BY <2>3, <3>1
  <2>6. CASE (\E d \in Devices : KernelRequest(t, d) \/ KernelDisable(t, d) \/ KernelEnable(t, d))
             \/ KernelFree(t) \/ \E l \in Lines : call_interrupt_handlers(t, l)
    BY <2>6 DEF KernelRequest, KernelFree, KernelDisable, KernelEnable, call_interrupt_handlers
  <2>7. CASE CallHandler(t)
    <3>1. Top(t).i \in Allocated
      BY <2>7 DEF CallHandler, RegInv, RegOK
    <3> QED BY <2>7, <3>1 DEF CallHandler
  <2>8. CASE PassNext(t) /\ ~CallHandler(t)
    BY <2>8 DEF PassNext, ReadOngoing, BeginPass, SkipSlot, EnabledSlot, ReadCount, StoreCount,
                MayCall, TooManyCalls, KeepCount, MustReset, ResetCount, HandlerReturns,
                LeaveLoop, EndPass
  <2> QED BY <1>2, <2>1, <2>2, <2>4, <2>5, <2>6, <2>7, <2>8 DEF ThreadNext
<1> QED BY <1>1, <1>2 DEF Next

(* No assertion fires, and no handler of an entry that is gone is called,  *)
(* against a driver that serialises what it does to a line, when every     *)
(* device has a line of its own, the table has an entry for each, and one  *)
(* CPU whose kernel is not preemptive runs the driver: the first entry of  *)
(* a line is then the device's, in the state the driver left it in, the    *)
(* count is positive, and free_irq finds no pass ongoing.                  *)
THEOREM NoAlarm ==
  ASSUME OwnLine, ~SMP, Capacity
  PROVE  Spec => []NoFalseAlarm
<1>1. Init => NoFalseAlarm
  BY DEF Init, NoFalseAlarm
<1> QED BY <1>1, NoKill, InitTable, NextTable, InitTypes, NextTypes, InitOngoing,
           NextOngoing, InitBudget, NextReg, InitAgree, NextAgree, PTL DEF Spec
=============================================================================
