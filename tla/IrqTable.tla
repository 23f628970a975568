------------------------------- MODULE IrqTable -------------------------------
(***************************************************************************)
(* The table of requested interrupts of gtf/misc_checks/irq.c and the pass *)
(* over it that call_interrupt_handlers makes at every crossing of the     *)
(* driver/kernel boundary.                                                 *)
(*                                                                         *)
(* The checks of request_threaded_irq, free_irq, enable_irq and            *)
(* disable_irq run before or after the kernel's function, under the global *)
(* lock; the kernel's functions may sleep, so other threads run between    *)
(* function and check.  The pass over the table holds no lock: every read  *)
(* and every write of a shared variable is a step.  Where threads run at   *)
(* the same time, or preempt each other where the pass has interrupts on   *)
(* (irq.c:497-523 and 562-568), other steps come in between.  On one CPU   *)
(* whose kernel is not preemptive they do not: the pass never sleeps, and  *)
(* the symbolic device raises no interrupts of its own.                    *)
(*                                                                         *)
(* The driver modelled is well behaved: it serialises what it does to one  *)
(* line, frees and disables what it has requested, and disables and        *)
(* enables in turn.  A path that is killed is then a false alarm.          *)
(***************************************************************************)
EXTENDS Integers, Sequences, FiniteSets

CONSTANTS
  Threads,
  Devices,                  \* dev_id of the driver's devices
  IrqOf,                    \* the interrupt number of each device
  MAX_IRQS,                 \* entries of sym_irq
  Lines,                    \* lines of code from which handlers are called
  MAX_INTERRUPTS_PER_LINE,
  ResetAbove,               \* 100 in the code: a count above it is reset
  MaxResets,                \* bound: resets of one line's count
  SMP,                      \* TRUE: threads run at the same time or preempt each
                            \* other; FALSE: one CPU, kernel not preemptive
  NONE

Slots == 0 .. MAX_IRQS - 1
Numbers == {IrqOf[d] : d \in Devices}

(* struct irq_struct of an allocated entry.                                *)
Entry == [number: Numbers, parameter: Devices, enabled: BOOLEAN]

ASSUME DevicesAssumption ==
  /\ IsFiniteSet(Devices)
  /\ DOMAIN IrqOf = Devices
  /\ NONE \notin Devices \cup Entry
ASSUME LimitsAssumption ==
  /\ MAX_IRQS \in Nat \ {0}
  /\ MAX_INTERRUPTS_PER_LINE \in Nat \ {0}
  /\ ResetAbove \in Nat /\ MAX_INTERRUPTS_PER_LINE <= ResetAbove /\ ResetAbove < 255
  /\ MaxResets \in Nat
ASSUME SMPAssumption == SMP \in BOOLEAN

VARIABLES
  sym_irq, sym_num_requests, sym_irq_ongoing, sym_irq_lines,
  registered,     \* the kernel's view: devices with a handler
  disabled,       \* the kernel's view: numbers that are disabled
  pc, call,       \* where each thread is, and the device it is calling about
  pass,           \* the passes over the table a thread is in, innermost last
  reg,            \* what a thread has read of a counter; 0 outside its steps
  calls, resets,  \* history: handler calls and count resets of each line
  path

table == <<sym_irq, sym_num_requests>>
counts == <<sym_irq_lines, calls, resets>>
kernel == <<registered, disabled>>
thread == <<pc, call>>
vars == <<table, sym_irq_ongoing, counts, kernel, thread, pass, reg, path>>

-----------------------------------------------------------------------------
Pass == [line: Lines, i: 0 .. MAX_IRQS]

InCall == {"requested", "freeing", "disabled", "enabled"}

(* Inside call_interrupt_handlers, except while a handler runs.            *)
InLoop == {"begin", "add", "test", "count", "store", "compare", "many", "reset",
           "call", "leave"}

(* The types; sym_irq_lines is an array of unsigned char.                  *)
TypeOK ==
  /\ sym_irq \in [Slots -> Entry \cup {NONE}]
  /\ sym_num_requests \in Int
  /\ sym_irq_ongoing \in Int
  /\ sym_irq_lines \in [Lines -> 0 .. 255]
  /\ registered \subseteq Devices
  /\ disabled \subseteq Numbers
  /\ pc \in [Threads -> {"run"} \cup InLoop \cup InCall]
  /\ call \in [Threads -> Devices \cup {NONE}]
  /\ \A t \in Threads : pc[t] \in InCall => call[t] \in Devices
  /\ pass \in [Threads -> Seq(Pass)]
  /\ \A t \in Threads : pc[t] \in InLoop => pass[t] # <<>>
  /\ reg \in [Threads -> Int]
  /\ calls \in [Lines -> Nat] /\ resets \in [Lines -> Nat]
  /\ path \in {"running", "assert", "oops"}

(* initialize_irqs *)
Init ==
  /\ sym_irq = [i \in Slots |-> NONE]
  /\ sym_num_requests = 0
  /\ sym_irq_ongoing = 0
  /\ sym_irq_lines = [l \in Lines |-> 0]
  /\ registered = {}
  /\ disabled = {}
  /\ pc = [t \in Threads |-> "run"]
  /\ call = [t \in Threads |-> NONE]
  /\ pass = [t \in Threads |-> <<>>]
  /\ reg = [t \in Threads |-> 0]
  /\ calls = [l \in Lines |-> 0]
  /\ resets = [l \in Lines |-> 0]
  /\ path = "running"

-----------------------------------------------------------------------------
Allocated == {i \in Slots : sym_irq[i] # NONE}
SlotsOf(n) == {i \in Allocated : sym_irq[i].number = n}

(* The loops of the checks stop at the first entry that fits.              *)
IsFirst(i, S) == i \in S /\ \A j \in S : i <= j

CanRun(t) == SMP \/ \A u \in Threads \ {t} : pass[u] = <<>>

(* No thread is inside a call about the line of device d.                  *)
LineIdle(d) == \A u \in Threads : pc[u] \in InCall => IrqOf[call[u]] # IrqOf[d]

Starts(t, d, where) ==
  /\ pc' = [pc EXCEPT ![t] = where]
  /\ call' = [call EXCEPT ![t] = d]

Returns(t) ==
  /\ pc' = [pc EXCEPT ![t] = "run"]
  /\ call' = [call EXCEPT ![t] = NONE]

Kill ==
  /\ path' = "assert"
  /\ UNCHANGED <<table, sym_irq_ongoing, counts, kernel, thread, pass, reg>>

-----------------------------------------------------------------------------
(* request_threaded_irq and free_irq, called where the driver may sleep.   *)
(* A request that the kernel refuses changes nothing.                      *)

KernelRequest(t, d) ==
  /\ pc[t] = "run" /\ pass[t] = <<>> /\ CanRun(t)
  /\ d \notin registered /\ LineIdle(d)
  /\ registered' = registered \cup {d}
  /\ Starts(t, d, "requested")
  /\ UNCHANGED <<table, sym_irq_ongoing, counts, disabled, pass, reg, path>>

(* request_threaded_irq_MJRcheck after the call.                           *)
RequestPost(t) ==
  LET d == call[t] IN
  /\ pc[t] = "requested" /\ CanRun(t)
  /\ \/ Allocated = Slots /\ Kill
     \/ \E i \in Slots \ Allocated :
          /\ IsFirst(i, Slots \ Allocated)
          /\ sym_irq' = [sym_irq EXCEPT ![i] =
                           [number |-> IrqOf[d], parameter |-> d, enabled |-> TRUE]]
          /\ sym_num_requests' = sym_num_requests + 1
          /\ Returns(t)
          /\ UNCHANGED <<sym_irq_ongoing, counts, kernel, pass, reg, path>>

(* Mutant: the number of requests is not decremented.                      *)
FreePreNoCount(t, d) ==
  /\ pc[t] = "run" /\ pass[t] = <<>> /\ CanRun(t)
  /\ d \in registered /\ LineIdle(d)
  /\ \/ sym_num_requests < 1 /\ Kill
     \/ SlotsOf(IrqOf[d]) = {} /\ Kill
     \/ \E i \in Slots :
          /\ IsFirst(i, SlotsOf(IrqOf[d]))
          /\ sym_irq_ongoing = 0 /\ sym_irq[i].parameter = d
          /\ sym_irq' = [sym_irq EXCEPT ![i] = NONE]
          /\ Starts(t, d, "freeing")
          /\ UNCHANGED <<sym_num_requests, sym_irq_ongoing, counts, kernel, pass, reg, path>>

(* Mutant: the entry is not reset.                                         *)
FreePreNoReset(t, d) ==
  /\ pc[t] = "run" /\ pass[t] = <<>> /\ CanRun(t)
  /\ d \in registered /\ LineIdle(d)
  /\ sym_num_requests' = sym_num_requests - 1
  /\ Starts(t, d, "freeing")
  /\ UNCHANGED <<sym_irq, sym_irq_ongoing, counts, kernel, pass, reg, path>>

(* free_irq_MJRcheck before the call.                                      *)
FreePre(t, d) ==
  /\ pc[t] = "run" /\ pass[t] = <<>> /\ CanRun(t)
  /\ d \in registered /\ LineIdle(d)
  /\ \/ sym_num_requests < 1 /\ Kill
     \/ SlotsOf(IrqOf[d]) = {} /\ Kill
     \/ \E i \in Slots :
          /\ IsFirst(i, SlotsOf(IrqOf[d]))
          /\ \/ ~(sym_irq_ongoing = 0 /\ sym_irq[i].parameter = d) /\ Kill
             \/ /\ sym_num_requests >= 1
                /\ sym_irq_ongoing = 0 /\ sym_irq[i].parameter = d
                /\ sym_irq' = [sym_irq EXCEPT ![i] = NONE]
                /\ sym_num_requests' = sym_num_requests - 1
                /\ Starts(t, d, "freeing")
                /\ UNCHANGED <<sym_irq_ongoing, counts, kernel, pass, reg, path>>

(* The last handler of a line shuts the line down; the next request starts *)
(* it enabled.                                                             *)
KernelFree(t) ==
  LET d == call[t] IN
  /\ pc[t] = "freeing" /\ CanRun(t)
  /\ registered' = registered \ {d}
  /\ disabled' = IF \E e \in registered \ {d} : IrqOf[e] = IrqOf[d] THEN disabled
                 ELSE disabled \ {IrqOf[d]}
  /\ Returns(t)
  /\ UNCHANGED <<table, sym_irq_ongoing, counts, pass, reg, path>>

-----------------------------------------------------------------------------
(* disable_irq, disable_irq_nosync and enable_irq, also from a handler.    *)

KernelDisable(t, d) ==
  /\ pc[t] = "run" /\ CanRun(t)
  /\ d \in registered /\ LineIdle(d) /\ IrqOf[d] \notin disabled
  /\ disabled' = disabled \cup {IrqOf[d]}
  /\ Starts(t, d, "disabled")
  /\ UNCHANGED <<table, sym_irq_ongoing, counts, registered, pass, reg, path>>

KernelEnable(t, d) ==
  /\ pc[t] = "run" /\ CanRun(t)
  /\ d \in registered /\ LineIdle(d) /\ IrqOf[d] \in disabled
  /\ disabled' = disabled \ {IrqOf[d]}
  /\ Starts(t, d, "enabled")
  /\ UNCHANGED <<table, sym_irq_ongoing, counts, registered, pass, reg, path>>

(* The first entry of the line changes from one state to the other; it is  *)
(* an error if there is none or if it has changed already.                 *)
SetEnabled(t, b) ==
  /\ \/ SlotsOf(IrqOf[call[t]]) = {} /\ Kill
     \/ \E i \in Slots :
          /\ IsFirst(i, SlotsOf(IrqOf[call[t]]))
          /\ \/ sym_irq[i].enabled = b /\ Kill
             \/ /\ sym_irq[i].enabled # b
                /\ sym_irq' = [sym_irq EXCEPT ![i].enabled = b]
                /\ Returns(t)
                /\ UNCHANGED <<sym_num_requests, sym_irq_ongoing, counts, kernel, pass, reg, path>>

(* Mutant: the entry stays enabled.                                        *)
DisablePostNoEffect(t) ==
  /\ pc[t] = "disabled" /\ CanRun(t)
  /\ Returns(t)
  /\ UNCHANGED <<table, sym_irq_ongoing, counts, kernel, pass, reg, path>>

(* disable_interrupt after the call.                                       *)
DisablePost(t) == pc[t] = "disabled" /\ CanRun(t) /\ SetEnabled(t, FALSE)

(* enable_irq_MJRcheck after the call.                                     *)
EnablePost(t) == pc[t] = "enabled" /\ CanRun(t) /\ SetEnabled(t, TRUE)

-----------------------------------------------------------------------------
(* call_interrupt_handlers.  Whether can_call_interrupt_handlers allows it *)
(* is LockState's subject: here it may say either.  From inside a handler  *)
(* the driver crosses the boundary too.                                    *)

(* Mutant: an ongoing pass does not keep another one from starting.        *)
call_interrupt_handlers_nested(t, l) ==
  /\ pc[t] = "run" /\ CanRun(t)
  /\ resets[l] < MaxResets
  /\ pass' = [pass EXCEPT ![t] = Append(@, [line |-> l, i |-> 0])]
  /\ pc' = [pc EXCEPT ![t] = "begin"]
  /\ UNCHANGED <<table, sym_irq_ongoing, counts, kernel, call, reg, path>>

call_interrupt_handlers(t, l) ==
  /\ pc[t] = "run" /\ CanRun(t)
  /\ resets[l] < MaxResets
  /\ sym_irq_ongoing <= 0
  /\ pass' = [pass EXCEPT ![t] = Append(@, [line |-> l, i |-> 0])]
  /\ pc' = [pc EXCEPT ![t] = "begin"]
  /\ UNCHANGED <<table, sym_irq_ongoing, counts, kernel, call, reg, path>>

Becomes(t, where) == pc' = [pc EXCEPT ![t] = where]

(* sym_irq_ongoing++, a load and a store.                                  *)
ReadOngoing(t) ==
  /\ pc[t] = "begin" /\ CanRun(t)
  /\ reg' = [reg EXCEPT ![t] = sym_irq_ongoing]
  /\ Becomes(t, "add")
  /\ UNCHANGED <<table, sym_irq_ongoing, counts, kernel, call, pass, path>>

BeginPass(t) ==
  /\ pc[t] = "add" /\ CanRun(t)
  /\ sym_irq_ongoing' = reg[t] + 1
  /\ reg' = [reg EXCEPT ![t] = 0]
  /\ Becomes(t, "test")
  /\ UNCHANGED <<table, counts, kernel, call, pass, path>>

Top(t) == pass[t][Len(pass[t])]

NextSlot(t) == pass' = [pass EXCEPT ![t][Len(pass[t])].i = @ + 1]

(* Mutant: the loop runs one entry too far.                                *)
SkipSlotPastEnd(t) ==
  /\ pc[t] = "test" /\ CanRun(t)
  /\ Top(t).i \in 0 .. MAX_IRQS
  /\ Top(t).i \in Allocated => ~sym_irq[Top(t).i].enabled
  /\ NextSlot(t)
  /\ UNCHANGED <<table, sym_irq_ongoing, counts, kernel, thread, reg, path>>

(* One step for the tests of allocated and enabled: a request sets enabled *)
(* last and a free clears allocated first, so no more can be seen of it.   *)
SkipSlot(t) ==
  /\ pc[t] = "test" /\ CanRun(t)
  /\ Top(t).i \in Slots
  /\ Top(t).i \in Allocated => ~sym_irq[Top(t).i].enabled
  /\ NextSlot(t)
  /\ UNCHANGED <<table, sym_irq_ongoing, counts, kernel, thread, reg, path>>

EnabledSlot(t) ==
  /\ pc[t] = "test" /\ CanRun(t)
  /\ Top(t).i \in Allocated
  /\ sym_irq[Top(t).i].enabled
  /\ Becomes(t, "count")
  /\ UNCHANGED <<table, sym_irq_ongoing, counts, kernel, call, pass, reg, path>>

(* sym_irq_lines[LINE]++ of an unsigned char, a load and a store.          *)
ReadCount(t) ==
  /\ pc[t] = "count" /\ CanRun(t)
  /\ reg' = [reg EXCEPT ![t] = sym_irq_lines[Top(t).line]]
  /\ Becomes(t, "store")
  /\ UNCHANGED <<table, sym_irq_ongoing, counts, kernel, call, pass, path>>

StoreCount(t) ==
  LET c == (reg[t] + 1) % 256 IN
  /\ pc[t] = "store" /\ CanRun(t)
  /\ sym_irq_lines' = [sym_irq_lines EXCEPT ![Top(t).line] = c]
  /\ reg' = [reg EXCEPT ![t] = c]
  /\ Becomes(t, "compare")
  /\ UNCHANGED <<table, sym_irq_ongoing, calls, resets, kernel, call, pass, path>>

(* The comparisons use what was stored or read the count again, as the     *)
(* compiler likes.                                                         *)
CountSeen(t) == {reg[t], sym_irq_lines[Top(t).line]}

MayCall(t) ==
  /\ pc[t] = "compare" /\ CanRun(t)
  /\ \E c \in CountSeen(t) : c <= MAX_INTERRUPTS_PER_LINE
  /\ Becomes(t, "call")
  /\ reg' = [reg EXCEPT ![t] = 0]
  /\ UNCHANGED <<table, sym_irq_ongoing, counts, kernel, call, pass, path>>

TooManyCalls(t) ==
  /\ pc[t] = "compare" /\ CanRun(t)
  /\ \E c \in CountSeen(t) : c > MAX_INTERRUPTS_PER_LINE
  /\ Becomes(t, "many")
  /\ UNCHANGED <<table, sym_irq_ongoing, counts, kernel, call, pass, reg, path>>

KeepCount(t) ==
  /\ pc[t] = "many" /\ CanRun(t)
  /\ \E c \in CountSeen(t) : c <= ResetAbove
  /\ NextSlot(t)
  /\ Becomes(t, "test")
  /\ reg' = [reg EXCEPT ![t] = 0]
  /\ UNCHANGED <<table, sym_irq_ongoing, counts, kernel, call, path>>

MustReset(t) ==
  /\ pc[t] = "many" /\ CanRun(t)
  /\ \E c \in CountSeen(t) : c > ResetAbove
  /\ Becomes(t, "reset")
  /\ reg' = [reg EXCEPT ![t] = 0]
  /\ UNCHANGED <<table, sym_irq_ongoing, counts, kernel, call, pass, path>>

(* Mutant: the count starts over.                                          *)
ResetCountToZero(t) ==
  LET l == Top(t).line IN
  /\ pc[t] = "reset" /\ CanRun(t)
  /\ sym_irq_lines' = [sym_irq_lines EXCEPT ![l] = 0]
  /\ resets' = [resets EXCEPT ![l] = @ + 1]
  /\ NextSlot(t)
  /\ Becomes(t, "test")
  /\ UNCHANGED <<table, sym_irq_ongoing, calls, kernel, call, reg, path>>

ResetCount(t) ==
  LET l == Top(t).line IN
  /\ pc[t] = "reset" /\ CanRun(t)
  /\ sym_irq_lines' = [sym_irq_lines EXCEPT ![l] = MAX_INTERRUPTS_PER_LINE - 1]
  /\ resets' = [resets EXCEPT ![l] = @ + 1]
  /\ NextSlot(t)
  /\ Becomes(t, "test")
  /\ UNCHANGED <<table, sym_irq_ongoing, calls, kernel, call, reg, path>>

(* The handler is read from the entry again; that of a freed one is NULL.  *)
CallHandler(t) ==
  LET i == Top(t).i
      l == Top(t).line
  IN
  /\ pc[t] = "call" /\ CanRun(t)
  /\ \/ /\ i \in Allocated
        /\ calls' = [calls EXCEPT ![l] = @ + 1]
        /\ Becomes(t, "run")
        /\ UNCHANGED path
     \/ /\ i \notin Allocated
        /\ path' = "oops"
        /\ UNCHANGED <<calls, pc>>
  /\ UNCHANGED <<table, sym_irq_ongoing, sym_irq_lines, resets, kernel, call, pass, reg>>

(* The handler returns; until then it runs like any driver code.           *)
HandlerReturns(t) ==
  /\ pc[t] = "run" /\ pass[t] # <<>> /\ CanRun(t)
  /\ NextSlot(t)
  /\ Becomes(t, "test")
  /\ UNCHANGED <<table, sym_irq_ongoing, counts, kernel, call, reg, path>>

(* sym_irq_ongoing--, a load and a store.                                  *)
LeaveLoop(t) ==
  /\ pc[t] = "test" /\ CanRun(t)
  /\ Top(t).i = MAX_IRQS
  /\ reg' = [reg EXCEPT ![t] = sym_irq_ongoing]
  /\ Becomes(t, "leave")
  /\ UNCHANGED <<table, sym_irq_ongoing, counts, kernel, call, pass, path>>

(* Mutant: the pass stays marked as ongoing.                               *)
EndPassOngoing(t) ==
  /\ pc[t] = "leave" /\ CanRun(t)
  /\ reg' = [reg EXCEPT ![t] = 0]
  /\ pass' = [pass EXCEPT ![t] = SubSeq(@, 1, Len(@) - 1)]
  /\ Becomes(t, "run")
  /\ UNCHANGED <<table, sym_irq_ongoing, counts, kernel, call, path>>

EndPass(t) ==
  /\ pc[t] = "leave" /\ CanRun(t)
  /\ sym_irq_ongoing' = reg[t] - 1
  /\ reg' = [reg EXCEPT ![t] = 0]
  /\ pass' = [pass EXCEPT ![t] = SubSeq(@, 1, Len(@) - 1)]
  /\ Becomes(t, "run")
  /\ UNCHANGED <<table, counts, kernel, call, path>>

-----------------------------------------------------------------------------
PassNext(t) ==
  \/ ReadOngoing(t)
  \/ BeginPass(t)
  \/ SkipSlot(t)
  \/ EnabledSlot(t)
  \/ ReadCount(t)
  \/ StoreCount(t)
  \/ MayCall(t)
  \/ TooManyCalls(t)
  \/ KeepCount(t)
  \/ MustReset(t)
  \/ ResetCount(t)
  \/ CallHandler(t)
  \/ HandlerReturns(t)
  \/ LeaveLoop(t)
  \/ EndPass(t)

ThreadNext(t) ==
  \/ \E d \in Devices : KernelRequest(t, d)
  \/ RequestPost(t)
  \/ \E d \in Devices : FreePre(t, d)
  \/ KernelFree(t)
  \/ \E d \in Devices : KernelDisable(t, d)
  \/ DisablePost(t)
  \/ \E d \in Devices : KernelEnable(t, d)
  \/ EnablePost(t)
  \/ \E l \in Lines : call_interrupt_handlers(t, l)
  \/ PassNext(t)

Next == path = "running" /\ \E t \in Threads : ThreadNext(t)

Spec == Init /\ [][Next]_vars

-----------------------------------------------------------------------------
(* Properties.                                                             *)

(* is_irq_allocated answers from sym_num_requests: the count agrees with   *)
(* the table, whatever the order of requests and frees.                    *)
RequestsCounted == path = "running" => sym_num_requests = Cardinality(Allocated)

(* The table never runs ahead of the kernel: request_threaded_irq enters a *)
(* device only after the kernel has it, free_irq removes it before the     *)
(* kernel lets it go, each device at most once.                            *)
TableWithinKernel ==
  /\ \A i \in Allocated : sym_irq[i].parameter \in registered
  /\ \A i, j \in Allocated : sym_irq[i].parameter = sym_irq[j].parameter => i = j

(* No assertion of the checks fires against a well-behaved driver, and no  *)
(* pass calls the handler of an entry that is gone.                        *)
NoFalseAlarm == path = "running"

(* The thread is past the check of sym_irq_ongoing and has set it.         *)
InPass(t) == pass[t] # <<>> /\ pc[t] \notin {"begin", "add"}

(* call_interrupt_handlers: "Only call the interrupt handler if it hasn't  *)
(* already been called" (irq.c:495): one pass over the table at a time,    *)
(* over all threads and within one thread.                                 *)
OnePassAtATime ==
  /\ \A t \in Threads : Len(pass[t]) <= 1
  /\ \A t, u \in Threads : InPass(t) /\ InPass(u) => t = u

(* A handler is called only for a device that the kernel has a handler     *)
(* for, and not once disable_irq for its line has returned ("0 if this IRQ *)
(* is currently disabled, 1 if enabled", irq.c:39).                        *)
HandlerAllowed ==
  [][\A t \in Threads :
       pc[t] = "call" /\ pc'[t] = "run" =>
         LET d == sym_irq[Top(t).i].parameter IN
         /\ d \in registered
         /\ IrqOf[d] \in disabled =>
              \E u \in Threads : pc[u] = "disabled" /\ IrqOf[call[u]] = IrqOf[d]]_vars

(* Every reset of a line's count allows one more handler call from that    *)
(* line, although the count is of handlers and not of passes.              *)
LineBudget ==
  \A l \in Lines : calls[l] <= MAX_INTERRUPTS_PER_LINE + resets[l]
=============================================================================
