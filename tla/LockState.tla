------------------------------ MODULE LockState ------------------------------
(***************************************************************************)
(* The execution contexts and the lock protocol of gtf/test_state.c, as    *)
(* driven by the lock checks of gtf/misc_checks/main.c, the entry-point    *)
(* checks of gtf/structs and the handler check of gtf/misc_checks/irq.c.   *)
(*                                                                         *)
(* The framework keeps one stack of blocking contexts and one of user      *)
(* contexts, and a lock_state per lock and lock type.  A check runs before *)
(* and after the kernel's own lock function, under the global lock (so it  *)
(* is one step here); the kernel function runs between the two, so other   *)
(* threads can run between check and lock.                                 *)
(*                                                                         *)
(* The driver modelled is well behaved: it releases what it holds, with    *)
(* the function that matches, and sleeps only where it may.  A path that   *)
(* is killed is then a false alarm.                                        *)
(***************************************************************************)
EXTENDS Integers, Sequences, FiniteSets

CONSTANTS
  Threads,
  SpinLocks, Mutexes,
  SpinTypes,      \* lock types the driver uses with spin locks
  EntryContexts,  \* <<blocking, user>> pairs that entry-point checks push
  MAX_NESTING,    \* entries of blocking_context and of user_context
  MaxOpen,        \* bound: functions and locks open at a time
  SMP,            \* TRUE: threads run at the same time; FALSE: one CPU
  Lifo,           \* TRUE: a thread releases its locks in reverse order
  Trylocks,       \* TRUE: the driver calls spin_trylock
  Interruptible,  \* TRUE: mutex_lock_interruptible may return -EINTR
  NONE

Locks == SpinLocks \cup Mutexes
LockTypes == SpinTypes \cup {"MUTEX", "GENERIC_LOCK"}

(* enum symdrive_blocking_context, enum symdrive_user_context *)
BLOCKING_UNDEFINED == 0
BLOCKING_YES == 1
BLOCKING_NO == 2
USER_YES == 1
USER_NO == 2
Contexts == 0 .. 2

ASSUME SetsAssumption ==
  /\ SpinLocks \cap Mutexes = {}
  /\ NONE \notin Threads \cup Locks
  /\ \A l \in Locks : l \notin {"entry", "poll", "irq"}
ASSUME TypesAssumption ==
  /\ SpinTypes \subseteq {"SPIN_LOCK", "SPIN_LOCK_BH", "SPIN_LOCK_IRQSAVE", "SPIN_LOCK_IRQ"}
  /\ EntryContexts \subseteq Contexts \X Contexts
ASSUME FlagsAssumption == {SMP, Lifo, Trylocks, Interruptible} \subseteq BOOLEAN
ASSUME NestingAssumption == MAX_NESTING \in Nat /\ MAX_NESTING >= 3 /\ MaxOpen \in Nat

VARIABLES
  blocking_context, blocking_context_current,
  user_context, user_context_current,
  device_irq_disabled,
  objs,        \* locks in the object tracker
  lock_state,  \* hvalue.lock_state of each lock
  owner,       \* the kernel's view: the thread that holds each lock
  pc, call,    \* where each thread is: running, or inside a call of a lock function
  nest,        \* what is really open, in the order in which it was opened
  path

contexts == <<blocking_context, blocking_context_current, user_context, user_context_current>>
tracker == <<objs, lock_state>>
thread == <<pc, call>>
vars == <<contexts, device_irq_disabled, tracker, owner, thread, nest, path>>

-----------------------------------------------------------------------------
(* What is open: a driver function being executed (an entry point, a poll  *)
(* routine, an interrupt handler) or a lock whose type is tracked.  under  *)
(* is the set of spin locks the thread held when a handler was called.     *)
Item == [thread: Threads, what: Locks \cup {"entry", "poll", "irq"}, ctx: Contexts,
         under: SUBSET SpinLocks]

IsFrame(item) == item.what \in {"entry", "poll", "irq"}

Call == [lock: Locks, type: LockTypes]

(* One type invariant for the contexts, the tracker and the threads.       *)
TypeOK ==
  /\ blocking_context \in [0 .. MAX_NESTING - 1 -> Contexts]
  /\ blocking_context_current \in 0 .. MAX_NESTING - 1
  /\ user_context \in [0 .. MAX_NESTING - 1 -> Contexts]
  /\ user_context_current \in 0 .. MAX_NESTING - 1
  /\ device_irq_disabled \in BOOLEAN
  /\ objs \subseteq Locks
  /\ lock_state \in [Locks -> [LockTypes -> Int]]
  /\ owner \in [Locks -> Threads \cup {NONE}]
  /\ pc \in [Threads -> {"run", "lock", "locked", "trylocked", "unlock"}]
  /\ call \in [Threads -> Call \cup {NONE}]
  /\ \A t \in Threads : pc[t] # "run" => call[t] \in Call
  /\ nest \in Seq(Item)
  /\ path \in {"running", "assert", "blocking", "recursion"}

(* Mutant: the index starts before the first entry.                        *)
InitBeforeFirst ==
  /\ blocking_context = [i \in 0 .. MAX_NESTING - 1 |-> BLOCKING_UNDEFINED]
  /\ blocking_context_current = -1
  /\ user_context = [i \in 0 .. MAX_NESTING - 1 |-> 0]
  /\ user_context_current = 0
  /\ device_irq_disabled = FALSE
  /\ objs = {}
  /\ lock_state = [l \in Locks |-> [ty \in LockTypes |-> 0]]
  /\ owner = [l \in Locks |-> NONE]
  /\ pc = [t \in Threads |-> "run"]
  /\ call = [t \in Threads |-> NONE]
  /\ nest = <<>>
  /\ path = "running"

(* initialize_driver_state *)
Init ==
  /\ blocking_context = [i \in 0 .. MAX_NESTING - 1 |-> BLOCKING_UNDEFINED]
  /\ blocking_context_current = 0
  /\ user_context = [i \in 0 .. MAX_NESTING - 1 |-> 0]
  /\ user_context_current = 0
  /\ device_irq_disabled = FALSE
  /\ objs = {}
  /\ lock_state = [l \in Locks |-> [ty \in LockTypes |-> 0]]
  /\ owner = [l \in Locks |-> NONE]
  /\ pc = [t \in Threads |-> "run"]
  /\ call = [t \in Threads |-> NONE]
  /\ nest = <<>>
  /\ path = "running"

-----------------------------------------------------------------------------
(* The kernel's view of a thread.                                          *)
HeldSpinLocks(t) == {l \in SpinLocks : owner[l] = t}

Atomic(t) ==
  \/ HeldSpinLocks(t) # {}
  \/ \E k \in 1 .. Len(nest) :
       nest[k].thread = t /\ IsFrame(nest[k]) /\ nest[k].ctx = BLOCKING_NO

(* On one CPU nobody else runs while a thread may not sleep.               *)
CanRun(t) == SMP \/ \A u \in Threads \ {t} : ~Atomic(u)

MyItems(t) == {k \in 1 .. Len(nest) : nest[k].thread = t}

InDriver(t) == \E k \in MyItems(t) : IsFrame(nest[k])

IsNewest(t, k) == k \in MyItems(t) /\ \A j \in MyItems(t) : j <= k

Without(k) == SubSeq(nest, 1, k - 1) \o SubSeq(nest, k + 1, Len(nest))

Kill(reason) ==
  /\ path' = reason
  /\ UNCHANGED <<contexts, device_irq_disabled, tracker, owner, thread, nest>>

-----------------------------------------------------------------------------
(* The context stacks.  A write to the entry after the last one hits the   *)
(* next member of global_state_struct, which is the index itself: the      *)
(* assertion that follows then sees the context's number as the index.     *)

push_blocking_state(b) ==
  LET n == blocking_context_current + 1 IN
  \/ /\ n < MAX_NESTING
     /\ blocking_context' = [blocking_context EXCEPT ![n] = b]
     /\ blocking_context_current' = n
  \/ /\ n = MAX_NESTING
     /\ blocking_context_current' = b
     /\ UNCHANGED blocking_context

push_user_state(u) ==
  LET n == user_context_current + 1 IN
  \/ /\ n < MAX_NESTING
     /\ user_context' = [user_context EXCEPT ![n] = u]
     /\ user_context_current' = n
  \/ /\ n = MAX_NESTING
     /\ user_context_current' = u
     /\ UNCHANGED user_context

kernel_blocking_state == blocking_context[blocking_context_current]

MayBlock == kernel_blocking_state \in {BLOCKING_YES, BLOCKING_UNDEFINED}

can_call_interrupt_handlers == ~device_irq_disabled /\ MayBlock

Opened(t, what, ctx) ==
  nest' = Append(nest, [thread |-> t, what |-> what, ctx |-> ctx, under |-> HeldSpinLocks(t)])

-----------------------------------------------------------------------------
(* Entry points: push_kernel_state before, pop_kernel_state after.  The    *)
(* kernel calls functions that may block only where blocking is allowed.   *)
EntryFunction(t, b, u) ==
  /\ pc[t] = "run" /\ CanRun(t) /\ Len(nest) < MaxOpen
  /\ b # BLOCKING_NO => ~Atomic(t)
  /\ push_blocking_state(b)
  /\ push_user_state(u)
  /\ Opened(t, "entry", b)
  /\ UNCHANGED <<device_irq_disabled, tracker, owner, thread, path>>

(* Mutants: the poll check forgets to push, or pushes both contexts.       *)
PollFunctionNoPush(t) ==
  /\ pc[t] = "run" /\ CanRun(t) /\ Len(nest) < MaxOpen
  /\ Opened(t, "poll", BLOCKING_NO)
  /\ UNCHANGED <<contexts, device_irq_disabled, tracker, owner, thread, path>>

PollFunctionBoth(t) ==
  /\ pc[t] = "run" /\ CanRun(t) /\ Len(nest) < MaxOpen
  /\ push_blocking_state(BLOCKING_NO)
  /\ push_user_state(USER_NO)
  /\ Opened(t, "poll", BLOCKING_NO)
  /\ UNCHANGED <<device_irq_disabled, tracker, owner, thread, path>>

(* netif_napi_add_poll_MJRcheck: only the blocking context is pushed.      *)
PollFunction(t) ==
  /\ pc[t] = "run" /\ CanRun(t) /\ Len(nest) < MaxOpen
  /\ push_blocking_state(BLOCKING_NO)
  /\ Opened(t, "poll", BLOCKING_NO)
  /\ UNCHANGED <<user_context, user_context_current, device_irq_disabled, tracker, owner,
                 thread, path>>

(* gen_enter_driver and gen_exit_driver call the handlers at a crossing    *)
(* when the context allows it and no handler is being run;                 *)
(* interrupt_handler_MJRcheck pushes both contexts.                        *)
InterruptHandler(t) ==
  /\ pc[t] = "run" /\ CanRun(t) /\ Len(nest) < MaxOpen
  /\ can_call_interrupt_handlers
  /\ \A k \in 1 .. Len(nest) : nest[k].what # "irq"
  /\ push_blocking_state(BLOCKING_NO)
  /\ push_user_state(USER_YES)
  /\ Opened(t, "irq", BLOCKING_NO)
  /\ UNCHANGED <<device_irq_disabled, tracker, owner, thread, path>>

(* A driver function returns: it has released the locks it took.           *)
LeaveFunction(t) ==
  /\ pc[t] = "run" /\ CanRun(t)
  /\ \E k \in 1 .. Len(nest) :
       /\ IsNewest(t, k) /\ IsFrame(nest[k])
       /\ HeldSpinLocks(t) \subseteq nest[k].under
       /\ \/ blocking_context_current <= 0 /\ Kill("assert")
          \/ nest[k].what # "poll" /\ user_context_current <= 0 /\ Kill("assert")
          \/ /\ blocking_context_current > 0
             /\ blocking_context_current' = blocking_context_current - 1
             /\ \/ /\ nest[k].what # "poll"
                   /\ user_context_current > 0
                   /\ user_context_current' = user_context_current - 1
                \/ nest[k].what = "poll" /\ UNCHANGED user_context_current
             /\ nest' = Without(k)
             /\ UNCHANGED <<blocking_context, user_context, device_irq_disabled, tracker,
                            owner, thread, path>>

(* set_device_interrupts(1), called once by the entry-point tests.         *)
set_device_interrupts(t) ==
  /\ pc[t] = "run" /\ CanRun(t)
  /\ device_irq_disabled' = TRUE
  /\ UNCHANGED <<contexts, tracker, owner, thread, nest, path>>

(* mem_flags_test: the driver asks for GFP_KERNEL where it may sleep and   *)
(* for GFP_ATOMIC where it may not; the framework must agree.              *)
MemFlagsAgree(t) ==
  IF Atomic(t) THEN kernel_blocking_state \in {BLOCKING_NO, BLOCKING_UNDEFINED} ELSE MayBlock

mem_flags_test(t) ==
  /\ pc[t] = "run" /\ CanRun(t)
  /\ InDriver(t)
  /\ ~MemFlagsAgree(t)
  /\ Kill("blocking")

-----------------------------------------------------------------------------
(* Locks.                                                                  *)

(* verify_lock_state on the values a lock would have.                      *)
verify_lock_state(st) ==
  /\ \A ty \in LockTypes : st[ty] \in {0, 1}
  /\ \A a, b \in LockTypes : st[a] = 1 /\ st[b] = 1 => a = b

(* spin_lock_init, mutex_init: generic_lock_allocator keeps the value of a *)
(* lock that is tracked already.                                           *)
generic_lock_allocator(t, l) ==
  /\ pc[t] = "run" /\ CanRun(t) /\ InDriver(t)
  /\ l \notin objs
  /\ owner[l] = NONE
  /\ objs' = objs \cup {l}
  /\ UNCHANGED <<contexts, device_irq_disabled, lock_state, owner, thread, nest, path>>

(* The check before spin_lock or mutex_lock: a lock never seen before      *)
(* (DEFINE_SPINLOCK, DEFINE_MUTEX) is added to the tracker.                *)
LockPre(t, l, ty) ==
  /\ pc[t] = "run" /\ CanRun(t) /\ InDriver(t) /\ Len(nest) < MaxOpen
  /\ owner[l] # t
  /\ l \in Mutexes => ty = "MUTEX" /\ ~Atomic(t)
  /\ l \in SpinLocks => ty \in SpinTypes
  /\ objs' = objs \cup {l}
  /\ pc' = [pc EXCEPT ![t] = "lock"]
  /\ call' = [call EXCEPT ![t] = [lock |-> l, type |-> ty]]
  /\ UNCHANGED <<contexts, device_irq_disabled, lock_state, owner, nest, path>>

(* The kernel's own spin_lock, mutex_lock or mutex_lock_interruptible.     *)
KernelLock(t) ==
  LET l == call[t].lock IN
  /\ pc[t] = "lock" /\ CanRun(t)
  /\ \/ owner[l] = NONE /\ owner' = [owner EXCEPT ![l] = t]
     \/ Interruptible /\ l \in Mutexes /\ UNCHANGED owner
  /\ pc' = [pc EXCEPT ![t] = "locked"]
  /\ UNCHANGED <<contexts, device_irq_disabled, tracker, call, nest, path>>

(* lock_kernel_state: the context a lock pushes; mutants: one for all.     *)
LockContextNo(l) == BLOCKING_NO
LockContextYes(l) == BLOCKING_YES

LockContext(l) == IF l \in Mutexes THEN BLOCKING_YES ELSE BLOCKING_NO

(* The check after it: generic_lock_state(1, lock), then lock_kernel_state. *)
(* The checks of mutex_lock_interruptible and _killable do not look at the *)
(* return value.                                                           *)
LockPost(t) ==
  LET l == call[t].lock
      ty == call[t].type
      st == [lock_state[l] EXCEPT ![ty] = @ + 1]
      ctx == LockContext(l) IN
  /\ pc[t] = "locked" /\ CanRun(t)
  /\ \/ ~(st[ty] = 1 /\ verify_lock_state(st)) /\ Kill("assert")
     \/ /\ st[ty] = 1 /\ verify_lock_state(st)
        /\ l \in Mutexes /\ ~MayBlock /\ Kill("blocking")
     \/ /\ st[ty] = 1 /\ verify_lock_state(st)
        /\ l \in Mutexes => MayBlock
        /\ lock_state' = [lock_state EXCEPT ![l] = st]
        /\ push_blocking_state(ctx)
        /\ IF owner[l] = t THEN Opened(t, l, ctx) ELSE UNCHANGED nest
        /\ pc' = [pc EXCEPT ![t] = "run"]
        /\ call' = [call EXCEPT ![t] = NONE]
        /\ UNCHANGED <<user_context, user_context_current, device_irq_disabled, objs, owner,
                       path>>

(* spin_trylock: the kernel tries; the check looks at the result only.     *)
KernelTrylock(t, l) ==
  /\ Trylocks
  /\ pc[t] = "run" /\ CanRun(t) /\ InDriver(t)
  /\ owner[l] = NONE
  /\ owner' = [owner EXCEPT ![l] = t]
  /\ pc' = [pc EXCEPT ![t] = "trylocked"]
  /\ call' = [call EXCEPT ![t] = [lock |-> l, type |-> "GENERIC_LOCK"]]
  /\ UNCHANGED <<contexts, device_irq_disabled, tracker, nest, path>>

(* generic_lock_state(1, GENERIC_LOCK) of a lock that is not tracked calls *)
(* itself for ever: generic_lock_allocator adds locks only before a call.  *)
TrylockPost(t) ==
  LET l == call[t].lock
      st == [lock_state[l] EXCEPT !["GENERIC_LOCK"] = @ + 1] IN
  /\ pc[t] = "trylocked" /\ CanRun(t)
  /\ \/ l \notin objs /\ Kill("recursion")
     \/ l \in objs /\ ~(st["GENERIC_LOCK"] = 1 /\ verify_lock_state(st)) /\ Kill("assert")
     \/ /\ l \in objs /\ st["GENERIC_LOCK"] = 1 /\ verify_lock_state(st)
        /\ lock_state' = [lock_state EXCEPT ![l] = st]
        /\ pc' = [pc EXCEPT ![t] = "run"]
        /\ call' = [call EXCEPT ![t] = NONE]
        /\ UNCHANGED <<contexts, device_irq_disabled, objs, owner, nest, path>>

(* The driver unlocks with the function that matches, in reverse order if  *)
(* Lifo; a lock got by trylock matches every type and has no place in      *)
(* nest.                                                                   *)
MayUnlock(t, l, ty) ==
  /\ owner[l] = t
  /\ \/ lock_state[l]["GENERIC_LOCK"] = 1 /\ ty \in SpinTypes
     \/ lock_state[l][ty] = 1 /\ ty # "GENERIC_LOCK"

ItemOf(l, k) == k \in 1 .. Len(nest) /\ nest[k].what = l

(* Mutant: the lock's state is not cleared.                                *)
UnlockPreNoClear(t, l, ty) ==
  LET generic == lock_state[l]["GENERIC_LOCK"] = 1
      st == IF generic THEN [lock_state[l] EXCEPT !["GENERIC_LOCK"] = 0]
            ELSE [lock_state[l] EXCEPT ![ty] = @ - 1] IN
  /\ pc[t] = "run" /\ CanRun(t)
  /\ MayUnlock(t, l, ty)
  /\ \/ ~(st[ty] = 0 /\ verify_lock_state(st)) /\ Kill("assert")
     \/ /\ st[ty] = 0 /\ verify_lock_state(st)
        /\ ~generic /\ blocking_context_current <= 0 /\ Kill("assert")
     \/ /\ st[ty] = 0 /\ verify_lock_state(st)
        /\ \/ generic /\ UNCHANGED <<nest, blocking_context_current>>
           \/ /\ ~generic
              /\ blocking_context_current > 0
              /\ blocking_context_current' = blocking_context_current - 1
              /\ \E k \in 1 .. Len(nest) :
                   /\ ItemOf(l, k)
                   /\ Lifo => IsNewest(t, k)
                   /\ nest' = Without(k)
        /\ pc' = [pc EXCEPT ![t] = "unlock"]
        /\ call' = [call EXCEPT ![t] = [lock |-> l, type |-> ty]]
        /\ UNCHANGED <<blocking_context, user_context, user_context_current,
                       device_irq_disabled, tracker, owner, path>>

(* The check before spin_unlock or mutex_unlock: generic_lock_state(0, -1). *)
UnlockPre(t, l, ty) ==
  LET generic == lock_state[l]["GENERIC_LOCK"] = 1
      st == IF generic THEN [lock_state[l] EXCEPT !["GENERIC_LOCK"] = 0]
            ELSE [lock_state[l] EXCEPT ![ty] = @ - 1] IN
  /\ pc[t] = "run" /\ CanRun(t)
  /\ MayUnlock(t, l, ty)
  /\ \/ ~(st[ty] = 0 /\ verify_lock_state(st)) /\ Kill("assert")
     \/ /\ st[ty] = 0 /\ verify_lock_state(st)
        /\ ~generic /\ blocking_context_current <= 0 /\ Kill("assert")
     \/ /\ st[ty] = 0 /\ verify_lock_state(st)
        /\ lock_state' = [lock_state EXCEPT ![l] = st]
        /\ \/ generic /\ UNCHANGED <<nest, blocking_context_current>>
           \/ /\ ~generic
              /\ blocking_context_current > 0
              /\ blocking_context_current' = blocking_context_current - 1
              /\ \E k \in 1 .. Len(nest) :
                   /\ ItemOf(l, k)
                   /\ Lifo => IsNewest(t, k)
                   /\ nest' = Without(k)
        /\ pc' = [pc EXCEPT ![t] = "unlock"]
        /\ call' = [call EXCEPT ![t] = [lock |-> l, type |-> ty]]
        /\ UNCHANGED <<blocking_context, user_context, user_context_current,
                       device_irq_disabled, objs, owner, path>>

(* The kernel's spin_unlock or mutex_unlock; the check after it is empty.  *)
KernelUnlock(t) ==
  /\ pc[t] = "unlock" /\ CanRun(t)
  /\ owner' = [owner EXCEPT ![call[t].lock] = NONE]
  /\ pc' = [pc EXCEPT ![t] = "run"]
  /\ call' = [call EXCEPT ![t] = NONE]
  /\ UNCHANGED <<contexts, device_irq_disabled, tracker, nest, path>>

-----------------------------------------------------------------------------
ThreadNext(t) ==
  \/ \E c \in EntryContexts : EntryFunction(t, c[1], c[2])
  \/ PollFunction(t)
  \/ InterruptHandler(t)
  \/ LeaveFunction(t)
  \/ set_device_interrupts(t)
  \/ mem_flags_test(t)
  \/ \E l \in Locks : generic_lock_allocator(t, l)
  \/ \E l \in Locks, ty \in LockTypes : LockPre(t, l, ty)
  \/ KernelLock(t)
  \/ LockPost(t)
  \/ \E l \in SpinLocks : KernelTrylock(t, l)
  \/ TrylockPost(t)
  \/ \E l \in Locks, ty \in LockTypes : UnlockPre(t, l, ty)
  \/ KernelUnlock(t)

Next == path = "running" /\ \E t \in Threads : ThreadNext(t)

Spec == Init /\ [][Next]_vars

-----------------------------------------------------------------------------
(* Properties.                                                             *)

Frames == {k \in 1 .. Len(nest) : nest[k].what \in {"entry", "irq"}}

(* push_blocking_state and pop_blocking_state balance: the blocking index  *)
(* counts exactly what is open on all threads together, so no pop ever     *)
(* meets an empty stack and no context is left over.                       *)
BlockingBalanced == path = "running" => blocking_context_current = Len(nest)

(* The same for the user contexts, which locks and poll routines leave     *)
(* alone.                                                                  *)
UserBalanced == path = "running" => user_context_current = Cardinality(Frames)

(* generic_lock_state records a lock as held, with at most one type, only  *)
(* while the kernel has really given it out, although the kernel's lock    *)
(* and the check are separate steps.                                       *)
TrackerSound ==
  path = "running" =>
    \A l \in Locks : /\ \A ty \in LockTypes : lock_state[l][ty] = 1 => owner[l] # NONE
                     /\ verify_lock_state(lock_state[l])

(* No assertion of the context and lock checks fires against a well-       *)
(* behaved driver.                                                         *)
NoFalseAlarm == path \notin {"assert", "blocking"}

(* can_call_interrupt_handlers: "this approach is MORE restrictive than we *)
(* need so should not result in false positives" (test_state.c:571): no    *)
(* handler is called by a thread that holds a spin lock.                   *)
NoHandlerUnderSpinLock ==
  \A k \in 1 .. Len(nest) : nest[k].what = "irq" => nest[k].under = {}

(* push_blocking_state's "Too many ... operations" assertion: a path with  *)
(* MAX_NESTING contexts open is killed.                                    *)
NestingLimited == path = "running" => Len(nest) < MAX_NESTING
=============================================================================
