--------------------------- MODULE LockStateProofs ---------------------------
(***************************************************************************)
(* Theorems about LockState, for any threads, locks and lock types.  The   *)
(* first part holds with or without SMP, trylocks and reverse-order        *)
(* release; the second one, that no check stops a well-behaved driver and  *)
(* no handler runs under a spin lock, is about one CPU.                    *)
(***************************************************************************)
EXTENDS LockState, SequenceTheorems, FiniteSetTheorems, TLAPS

USE DEF contexts, tracker, thread

(* What a thread inside a lock function knows about the lock; this holds   *)
(* only if every lock function really returns with the lock.               *)
Ownership ==
  \A t \in Threads :
    /\ pc[t] \in {"locked", "trylocked", "unlock"} => owner[call[t].lock] = t
    /\ pc[t] = "unlock" => \A ty \in LockTypes : lock_state[call[t].lock][ty] # 1

(* What the tracker says about every lock.                                 *)
Tracked ==
  \A l \in Locks : /\ \A ty \in LockTypes : lock_state[l][ty] = 1 => owner[l] # NONE
                   /\ verify_lock_state(lock_state[l])

(* The inductive invariant behind TrackerSound.                            *)
LockInv == TypeOK /\ Ownership /\ Tracked

-----------------------------------------------------------------------------
(* The program starts well typed.                                          *)
LEMMA InitType == Init => TypeOK
<1> SUFFICES ASSUME Init PROVE TypeOK
  OBVIOUS
<1>1. /\ blocking_context \in [0 .. MAX_NESTING - 1 -> Contexts]
      /\ user_context \in [0 .. MAX_NESTING - 1 -> Contexts]
      /\ blocking_context_current \in 0 .. MAX_NESTING - 1
      /\ user_context_current \in 0 .. MAX_NESTING - 1
  BY NestingAssumption DEF Init, Contexts, BLOCKING_UNDEFINED
<1>2. lock_state \in [Locks -> [LockTypes -> Int]]
  BY DEF Init
<1>3. nest \in Seq(Item)
  BY DEF Init
<1> QED BY <1>1, <1>2, <1>3 DEF Init, TypeOK

(* push_blocking_state stays inside its array because what it writes past  *)
(* the end is a context number, which is a small index.                    *)
LEMMA PushBlockingType ==
  ASSUME TypeOK, NEW b \in Contexts, push_blocking_state(b)
  PROVE  /\ blocking_context' \in [0 .. MAX_NESTING - 1 -> Contexts]
         /\ blocking_context_current' \in 0 .. MAX_NESTING - 1
  BY NestingAssumption DEF TypeOK, push_blocking_state, Contexts

(* The same for push_user_state.                                           *)
LEMMA PushUserType ==
  ASSUME TypeOK, NEW u \in Contexts, push_user_state(u)
  PROVE  /\ user_context' \in [0 .. MAX_NESTING - 1 -> Contexts]
         /\ user_context_current' \in 0 .. MAX_NESTING - 1
  BY NestingAssumption DEF TypeOK, push_user_state, Contexts

(* Opening adds one well-formed item.                                      *)
LEMMA OpenedType ==
  ASSUME TypeOK, NEW t \in Threads, NEW what \in Locks \cup {"entry", "poll", "irq"},
         NEW ctx \in Contexts, Opened(t, what, ctx)
  PROVE  nest' \in Seq(Item) /\ Len(nest') = Len(nest) + 1
<1> DEFINE item == [thread |-> t, what |-> what, ctx |-> ctx, under |-> HeldSpinLocks(t)]
<1>1. item \in Item
  BY DEF Item, HeldSpinLocks
<1>2. nest \in Seq(Item) /\ nest' = Append(nest, item)
  BY DEF TypeOK, Opened
<1> QED BY <1>1, <1>2

(* Closing removes one item.                                               *)
LEMMA WithoutType ==
  ASSUME TypeOK, NEW k \in 1 .. Len(nest)
  PROVE  Without(k) \in Seq(Item) /\ Len(Without(k)) = Len(nest) - 1
<1>1. nest \in Seq(Item) /\ Len(nest) \in Nat
  BY DEF TypeOK
<1>2. SubSeq(nest, 1, k - 1) \in Seq(Item) /\ Len(SubSeq(nest, 1, k - 1)) = k - 1
  BY <1>1
<1>3. /\ SubSeq(nest, k + 1, Len(nest)) \in Seq(Item)
      /\ Len(SubSeq(nest, k + 1, Len(nest))) = Len(nest) - k
  BY <1>1
<1> DEFINE a == SubSeq(nest, 1, k - 1)
           b == SubSeq(nest, k + 1, Len(nest))
<1> HIDE DEF a, b
<1>4. a \o b \in Seq(Item) /\ Len(a \o b) = Len(a) + Len(b)
  BY <1>2, <1>3, ConcatProperties DEF a, b
<1>5. Without(k) = a \o b
  BY DEF Without, a, b
<1>6. Len(a) = k - 1 /\ Len(b) = Len(nest) - k
  BY <1>2, <1>3 DEF a, b
<1>7. Len(a \o b) = Len(nest) - 1
  <2> DEFINE m == Len(nest)
             n == Len(a \o b)
  <2>1. m \in Nat /\ n = (k - 1) + (m - k)
    BY <1>1, <1>4, <1>6
  <2> HIDE DEF m, n
  <2>2. n = m - 1
    BY <2>1
  <2> QED BY <2>2 DEF m, n
<1> QED BY <1>4, <1>5, <1>7

(* s2e_kill_state changes nothing else.                                    *)
LEMMA KillType ==
  ASSUME TypeOK, NEW reason \in {"assert", "blocking", "recursion"}, Kill(reason)
  PROVE  TypeOK'
  BY DEF TypeOK, Kill

(* The calls a thread may be in.                                           *)
LEMMA CallType ==
  ASSUME TypeOK, NEW t \in Threads, pc[t] # "run"
  PROVE  call[t].lock \in Locks /\ call[t].type \in LockTypes
  BY DEF TypeOK, Call

(* One counter of a lock changes.                                          *)
LEMMA CounterType ==
  ASSUME NEW S, NEW f \in [S -> Int], NEW x, NEW v \in Int
  PROVE  [f EXCEPT ![x] = v] \in [S -> Int]
  OBVIOUS

(* A thread starts a call of a lock function.                              *)
LEMMA CallStarts ==
  ASSUME TypeOK, NEW t \in Threads, NEW l \in Locks, NEW ty \in LockTypes,
         NEW s \in {"lock", "trylocked", "unlock"},
         pc' = [pc EXCEPT ![t] = s],
         call' = [call EXCEPT ![t] = [lock |-> l, type |-> ty]]
  PROVE  /\ pc' \in [Threads -> {"run", "lock", "locked", "trylocked", "unlock"}]
         /\ call' \in [Threads -> Call \cup {NONE}]
         /\ \A u \in Threads : pc'[u] # "run" => call'[u] \in Call
<1>1. [lock |-> l, type |-> ty] \in Call
  BY DEF Call
<1>2. /\ pc \in [Threads -> {"run", "lock", "locked", "trylocked", "unlock"}]
      /\ call \in [Threads -> Call \cup {NONE}]
      /\ \A u \in Threads : pc[u] # "run" => call[u] \in Call
  BY DEF TypeOK
<1> DEFINE c == [lock |-> l, type |-> ty]
<1> HIDE DEF c
<1>3. c \in Call /\ call' = [call EXCEPT ![t] = c]
  BY <1>1 DEF c
<1> QED BY <1>2, <1>3

(* Entering a driver function preserves the types.                         *)
LEMMA EnterType ==
  ASSUME TypeOK, NEW t \in Threads,
         \/ \E c \in EntryContexts : EntryFunction(t, c[1], c[2])
         \/ PollFunction(t)
         \/ InterruptHandler(t)
  PROVE  TypeOK'
<1>1. CASE \E c \in EntryContexts : EntryFunction(t, c[1], c[2])
  <2>1. PICK c \in EntryContexts : EntryFunction(t, c[1], c[2])
    BY <1>1
  <2>2. c[1] \in Contexts /\ c[2] \in Contexts
    BY TypesAssumption
  <2>3. nest' \in Seq(Item)
    BY <2>1, <2>2, OpenedType DEF EntryFunction
  <2> QED BY <2>1, <2>2, <2>3, PushBlockingType, PushUserType DEF EntryFunction, TypeOK
<1>2. CASE PollFunction(t)
  <2>1. BLOCKING_NO \in Contexts
    BY DEF BLOCKING_NO, Contexts
  <2>2. nest' \in Seq(Item)
    BY <1>2, <2>1, OpenedType DEF PollFunction
  <2> QED BY <1>2, <2>1, <2>2, PushBlockingType DEF PollFunction, TypeOK
<1>3. CASE InterruptHandler(t)
  <2>1. BLOCKING_NO \in Contexts /\ USER_YES \in Contexts
    BY DEF BLOCKING_NO, USER_YES, Contexts
  <2>2. nest' \in Seq(Item)
    BY <1>3, <2>1, OpenedType DEF InterruptHandler
  <2> QED BY <1>3, <2>1, <2>2, PushBlockingType, PushUserType DEF InterruptHandler, TypeOK
<1> QED BY <1>1, <1>2, <1>3

(* Leaving a driver function preserves the types.                          *)
LEMMA LeaveType ==
  ASSUME TypeOK, NEW t \in Threads, LeaveFunction(t)
  PROVE  TypeOK'
<1>1. CASE Kill("assert")
  BY <1>1, KillType
<1>2. CASE ~Kill("assert")
  <2>1. PICK k \in 1 .. Len(nest) :
          /\ blocking_context_current > 0
          /\ blocking_context_current' = blocking_context_current - 1
          /\ \/ user_context_current > 0 /\ user_context_current' = user_context_current - 1
             \/ UNCHANGED user_context_current
          /\ nest' = Without(k)
          /\ UNCHANGED <<blocking_context, user_context, device_irq_disabled, tracker,
                         owner, thread, path>>
    BY <1>2 DEF LeaveFunction
  <2>2. nest' \in Seq(Item)
    BY <2>1, WithoutType
  <2>3. /\ blocking_context_current' \in 0 .. MAX_NESTING - 1
        /\ user_context_current' \in 0 .. MAX_NESTING - 1
    BY <2>1, NestingAssumption DEF TypeOK
  <2> QED BY <2>1, <2>2, <2>3 DEF TypeOK
<1> QED BY <1>1, <1>2

(* The check after a lock function preserves the types.                    *)
LEMMA LockPostType ==
  ASSUME TypeOK, NEW t \in Threads, LockPost(t)
  PROVE  TypeOK'
<1> DEFINE l == call[t].lock
           ty == call[t].type
           st == [lock_state[l] EXCEPT ![ty] = @ + 1]
<1>1. CASE Kill("assert") \/ Kill("blocking")
  BY <1>1, KillType
<1>2. CASE ~(Kill("assert") \/ Kill("blocking"))
  <2>1. /\ pc[t] = "locked"
        /\ lock_state' = [lock_state EXCEPT ![l] = st]
        /\ push_blocking_state(LockContext(l))
        /\ IF owner[l] = t THEN Opened(t, l, LockContext(l)) ELSE UNCHANGED nest
        /\ pc' = [pc EXCEPT ![t] = "run"]
        /\ call' = [call EXCEPT ![t] = NONE]
        /\ UNCHANGED <<user_context, user_context_current, device_irq_disabled, objs, owner,
                       path>>
    BY <1>2 DEF LockPost
  <2>2. l \in Locks /\ ty \in LockTypes
    BY <2>1, CallType
  <2>3. LockContext(l) \in Contexts
    BY DEF LockContext, Contexts, BLOCKING_YES, BLOCKING_NO
  <2>4. nest' \in Seq(Item)
    <3>1. CASE owner[l] = t
      BY <3>1, <2>1, <2>2, <2>3, OpenedType
    <3>2. CASE owner[l] # t
      BY <3>2, <2>1 DEF TypeOK
    <3> QED BY <3>1, <3>2
  <2>5. lock_state' \in [Locks -> [LockTypes -> Int]]
    BY <2>1, <2>2 DEF TypeOK
  <2>6. /\ blocking_context' \in [0 .. MAX_NESTING - 1 -> Contexts]
        /\ blocking_context_current' \in 0 .. MAX_NESTING - 1
    BY <2>1, <2>3, PushBlockingType
  <2> QED BY <2>1, <2>4, <2>5, <2>6 DEF TypeOK
<1> QED BY <1>1, <1>2

(* The check before an unlock function preserves the types.                *)
LEMMA UnlockPreType ==
  ASSUME TypeOK, NEW t \in Threads, NEW l \in Locks, NEW ty \in LockTypes, UnlockPre(t, l, ty)
  PROVE  TypeOK'
<1> DEFINE generic == lock_state[l]["GENERIC_LOCK"] = 1
           st == IF generic THEN [lock_state[l] EXCEPT !["GENERIC_LOCK"] = 0]
                 ELSE [lock_state[l] EXCEPT ![ty] = @ - 1]
<1>1. CASE Kill("assert")
  BY <1>1, KillType
<1>2. CASE ~Kill("assert")
  <2>1. /\ lock_state' = [lock_state EXCEPT ![l] = st]
        /\ \/ UNCHANGED <<nest, blocking_context_current>>
           \/ /\ blocking_context_current > 0
              /\ blocking_context_current' = blocking_context_current - 1
              /\ \E k \in 1 .. Len(nest) : nest' = Without(k)
        /\ pc' = [pc EXCEPT ![t] = "unlock"]
        /\ call' = [call EXCEPT ![t] = [lock |-> l, type |-> ty]]
        /\ UNCHANGED <<blocking_context, user_context, user_context_current,
                       device_irq_disabled, objs, owner, path>>
    BY <1>2 DEF UnlockPre
  <2>2. st \in [LockTypes -> Int]
    <3>1. lock_state[l] \in [LockTypes -> Int] /\ lock_state[l][ty] - 1 \in Int
      BY DEF TypeOK
    <3>2. [lock_state[l] EXCEPT !["GENERIC_LOCK"] = 0] \in [LockTypes -> Int]
      BY <3>1, CounterType
    <3>3. [lock_state[l] EXCEPT ![ty] = @ - 1] \in [LockTypes -> Int]
      BY <3>1, CounterType
    <3> QED BY <3>2, <3>3
  <2>3. lock_state' \in [Locks -> [LockTypes -> Int]]
    BY <2>1, <2>2 DEF TypeOK
  <2>4. nest' \in Seq(Item)
    BY <2>1, WithoutType DEF TypeOK
  <2>5. blocking_context_current' \in 0 .. MAX_NESTING - 1
    BY <2>1, NestingAssumption DEF TypeOK
  <2>6. /\ pc' \in [Threads -> {"run", "lock", "locked", "trylocked", "unlock"}]
        /\ call' \in [Threads -> Call \cup {NONE}]
        /\ \A u \in Threads : pc'[u] # "run" => call'[u] \in Call
    BY <2>1, CallStarts
  <2> QED BY <2>1, <2>3, <2>4, <2>5, <2>6 DEF TypeOK
<1> QED BY <1>1, <1>2

(* Every step preserves the types.                                         *)
LEMMA NextType == TypeOK /\ [Next]_vars => TypeOK'
<1> SUFFICES ASSUME TypeOK, [Next]_vars PROVE TypeOK'
  OBVIOUS
<1>1. CASE UNCHANGED vars
  BY <1>1 DEF vars, TypeOK
<1>2. ASSUME NEW t \in Threads, ThreadNext(t) PROVE TypeOK'
  <2>1. CASE \/ \E c \in EntryContexts : EntryFunction(t, c[1], c[2])
             \/ PollFunction(t) \/ InterruptHandler(t)
    BY <2>1, EnterType
  <2>2. CASE LeaveFunction(t)
    BY <2>2, LeaveType
  <2>3. CASE set_device_interrupts(t)
    BY <2>3 DEF set_device_interrupts, TypeOK
  <2>4. CASE mem_flags_test(t)
    BY <2>4, KillType DEF mem_flags_test
  <2>5. CASE \E l \in Locks : generic_lock_allocator(t, l)
    BY <2>5 DEF generic_lock_allocator, TypeOK
  <2>6. CASE \E l \in Locks, ty \in LockTypes : LockPre(t, l, ty)
    <3>1. PICK l \in Locks, ty \in LockTypes : LockPre(t, l, ty)
      BY <2>6
    <3>2. /\ pc' \in [Threads -> {"run", "lock", "locked", "trylocked", "unlock"}]
          /\ call' \in [Threads -> Call \cup {NONE}]
          /\ \A u \in Threads : pc'[u] # "run" => call'[u] \in Call
      BY <3>1, CallStarts DEF LockPre
    <3> QED BY <3>1, <3>2 DEF LockPre, TypeOK
  <2>7. CASE KernelLock(t)
    BY <2>7 DEF KernelLock, TypeOK
  <2>8. CASE LockPost(t)
    BY <2>8, LockPostType
  <2>9. CASE \E l \in SpinLocks : KernelTrylock(t, l)
    <3>1. PICK l \in SpinLocks : KernelTrylock(t, l)
      BY <2>9
    <3>2. l \in Locks /\ "GENERIC_LOCK" \in LockTypes
      BY DEF Locks, LockTypes
    <3>3. /\ pc' \in [Threads -> {"run", "lock", "locked", "trylocked", "unlock"}]
          /\ call' \in [Threads -> Call \cup {NONE}]
          /\ \A u \in Threads : pc'[u] # "run" => call'[u] \in Call
      BY <3>1, <3>2, CallStarts DEF KernelTrylock
    <3> QED BY <3>1, <3>2, <3>3 DEF KernelTrylock, TypeOK
  <2>10. CASE TrylockPost(t)
    <3>1. CASE Kill("recursion") \/ Kill("assert")
      BY <3>1, KillType
    <3>2. CASE ~(Kill("recursion") \/ Kill("assert"))
      <4> DEFINE l == call[t].lock
                 st == [lock_state[l] EXCEPT !["GENERIC_LOCK"] = @ + 1]
      <4>1. /\ pc[t] = "trylocked"
            /\ lock_state' = [lock_state EXCEPT ![l] = st]
            /\ pc' = [pc EXCEPT ![t] = "run"]
            /\ call' = [call EXCEPT ![t] = NONE]
            /\ UNCHANGED <<contexts, device_irq_disabled, objs, owner, nest, path>>
        BY <2>10, <3>2 DEF TrylockPost
      <4>2. l \in Locks
        BY <4>1, CallType
      <4>3. lock_state' \in [Locks -> [LockTypes -> Int]]
        <5> DEFINE g == "GENERIC_LOCK"
        <5>g. g \in LockTypes
          BY DEF LockTypes
        <5> HIDE DEF g, l
        <5>1. lock_state[l] \in [LockTypes -> Int] /\ lock_state[l][g] + 1 \in Int
          BY <4>2, <5>g DEF TypeOK
        <5>2. st \in [LockTypes -> Int]
          BY <5>1, CounterType DEF g
        <5> QED BY <4>1, <4>2, <5>2 DEF TypeOK
      <4> QED BY <4>1, <4>3 DEF TypeOK
    <3> QED BY <3>1, <3>2
  <2>11. CASE \E l \in Locks, ty \in LockTypes : UnlockPre(t, l, ty)
    BY <2>11, UnlockPreType
  <2>12. CASE KernelUnlock(t)
    BY <2>12 DEF KernelUnlock, TypeOK
  <2> QED BY <1>2, <2>1, <2>2, <2>3, <2>4, <2>5, <2>6, <2>7, <2>8, <2>9, <2>10, <2>11, <2>12
          DEF ThreadNext
<1> QED BY <1>1, <1>2 DEF Next

(* The state of the contexts and the tracker is well typed: no push writes *)
(* to memory outside its stack and the index next to it.                   *)
THEOREM TypeCorrect == Spec => []TypeOK
  BY InitType, NextType, PTL DEF Spec

-----------------------------------------------------------------------------
(* Steps that leave the locks alone preserve Ownership and Tracked.        *)
LEMMA LocksAlone ==
  ASSUME LockInv, UNCHANGED <<lock_state, owner, thread>>
  PROVE  Ownership' /\ Tracked'
  BY DEF LockInv, Ownership, Tracked, verify_lock_state

(* The kernel gives a free lock to a thread.                               *)
LEMMA LockGiven ==
  ASSUME LockInv, NEW t \in Threads, NEW l \in Locks, NEW s \in {"locked", "trylocked"},
         owner[l] = NONE, owner' = [owner EXCEPT ![l] = t],
         pc' = [pc EXCEPT ![t] = s],
         call'[t].lock = l, \A u \in Threads \ {t} : call'[u] = call[u],
         UNCHANGED lock_state
  PROVE  Ownership' /\ Tracked'
<1>1. /\ owner \in [Locks -> Threads \cup {NONE}] /\ t # NONE
      /\ pc \in [Threads -> {"run", "lock", "locked", "trylocked", "unlock"}]
      /\ \A u \in Threads : pc[u] # "run" => call[u].lock \in Locks
  BY CallType, SetsAssumption DEF LockInv, TypeOK
<1>2. Ownership'
  <2> SUFFICES ASSUME NEW u \in Threads
               PROVE  /\ pc'[u] \in {"locked", "trylocked", "unlock"} => owner'[call'[u].lock] = u
                      /\ pc'[u] = "unlock" =>
                           \A ty \in LockTypes : lock_state'[call'[u].lock][ty] # 1
    BY DEF Ownership
  <2>1. CASE u = t
    BY <1>1, <2>1
  <2>2. CASE u # t
    <3>1. pc'[u] = pc[u] /\ call'[u] = call[u]
      BY <1>1, <2>2
    <3>2. /\ pc[u] \in {"locked", "trylocked", "unlock"} => owner[call[u].lock] = u
          /\ pc[u] = "unlock" => \A ty \in LockTypes : lock_state[call[u].lock][ty] # 1
      BY DEF LockInv, Ownership
    <3>3. u # NONE
      BY SetsAssumption
    <3> QED BY <1>1, <3>1, <3>2, <3>3
  <2> QED BY <2>1, <2>2
<1>3. Tracked'
  BY <1>1 DEF LockInv, Tracked, verify_lock_state
<1> QED BY <1>2, <1>3

(* A check records that a thread holds the lock of its call.               *)
LEMMA LockRecorded ==
  ASSUME LockInv, NEW t \in Threads, NEW st \in [LockTypes -> Int],
         pc[t] \in {"locked", "trylocked"}, verify_lock_state(st),
         lock_state' = [lock_state EXCEPT ![call[t].lock] = st],
         pc' = [pc EXCEPT ![t] = "run"],
         call' = [call EXCEPT ![t] = NONE],
         UNCHANGED owner
  PROVE  Ownership' /\ Tracked'
<1> DEFINE l == call[t].lock
<1>1. l \in Locks /\ owner[l] = t /\ t # NONE
  BY CallType, SetsAssumption DEF LockInv, Ownership
<1>2. /\ lock_state \in [Locks -> [LockTypes -> Int]]
      /\ call \in [Threads -> Call \cup {NONE}]
      /\ pc \in [Threads -> {"run", "lock", "locked", "trylocked", "unlock"}]
  BY DEF LockInv, TypeOK
<1>3. Ownership'
  <2> SUFFICES ASSUME NEW u \in Threads
               PROVE  /\ pc'[u] \in {"locked", "trylocked", "unlock"} => owner'[call'[u].lock] = u
                      /\ pc'[u] = "unlock" =>
                           \A ty \in LockTypes : lock_state'[call'[u].lock][ty] # 1
    BY DEF Ownership
  <2>1. CASE u = t
    BY <1>2, <2>1
  <2>2. CASE u # t
    <3>1. pc'[u] = pc[u] /\ call'[u] = call[u]
      BY <1>2, <2>2
    <3>2. /\ pc[u] \in {"locked", "trylocked", "unlock"} => owner[call[u].lock] = u
          /\ pc[u] = "unlock" => \A ty \in LockTypes : lock_state[call[u].lock][ty] # 1
      BY DEF LockInv, Ownership
    <3>3. pc[u] = "unlock" => call[u].lock # l /\ call[u].lock \in Locks
      BY <1>1, <2>2, <3>2, CallType DEF LockInv
    <3> QED BY <1>2, <3>1, <3>2, <3>3
  <2> QED BY <2>1, <2>2
<1>4. Tracked'
  <2> SUFFICES ASSUME NEW m \in Locks
               PROVE  /\ \A ty \in LockTypes : lock_state'[m][ty] = 1 => owner'[m] # NONE
                      /\ verify_lock_state(lock_state'[m])
    BY DEF Tracked, verify_lock_state
  <2>1. CASE m = l
    BY <1>1, <1>2, <2>1
  <2>2. CASE m # l
    BY <1>2, <2>2 DEF LockInv, Tracked
  <2> QED BY <2>1, <2>2
<1> QED BY <1>3, <1>4

(* The check before an unlock function clears the one type that is set.    *)
LEMMA LockCleared ==
  ASSUME LockInv, NEW t \in Threads, NEW l \in Locks, NEW ty \in LockTypes,
         UnlockPre(t, l, ty), ~Kill("assert")
  PROVE  Ownership' /\ Tracked'
<1> DEFINE generic == lock_state[l]["GENERIC_LOCK"] = 1
           st == IF generic THEN [lock_state[l] EXCEPT !["GENERIC_LOCK"] = 0]
                 ELSE [lock_state[l] EXCEPT ![ty] = @ - 1]
<1>1. /\ MayUnlock(t, l, ty)
      /\ lock_state' = [lock_state EXCEPT ![l] = st]
      /\ pc' = [pc EXCEPT ![t] = "unlock"]
      /\ call' = [call EXCEPT ![t] = [lock |-> l, type |-> ty]]
      /\ UNCHANGED owner
      /\ verify_lock_state(st)
  BY DEF UnlockPre
<1>2. /\ lock_state \in [Locks -> [LockTypes -> Int]]
      /\ call \in [Threads -> Call \cup {NONE}]
      /\ pc \in [Threads -> {"run", "lock", "locked", "trylocked", "unlock"}]
  BY DEF LockInv, TypeOK
<1>3. \A x \in LockTypes : st[x] # 1
  <2> DEFINE g == "GENERIC_LOCK"
             f == lock_state[l]
  <2>1. f \in [LockTypes -> Int] /\ g \in LockTypes
    BY <1>2 DEF LockTypes
  <2>2. \A a, b \in LockTypes : f[a] = 1 /\ f[b] = 1 => a = b
    BY DEF LockInv, Tracked, verify_lock_state
  <2>3. \/ f[g] = 1 /\ st = [f EXCEPT ![g] = 0]
        \/ f[ty] = 1 /\ st = [f EXCEPT ![ty] = @ - 1]
    BY <1>1 DEF MayUnlock
  <2> HIDE DEF f, g, st
  <2> QED BY <2>1, <2>2, <2>3
<1>4. owner[l] = t /\ t # NONE
  BY <1>1, SetsAssumption DEF MayUnlock
<1> HIDE DEF st
<1>5. Ownership'
  <2> SUFFICES ASSUME NEW u \in Threads
               PROVE  /\ pc'[u] \in {"locked", "trylocked", "unlock"} => owner'[call'[u].lock] = u
                      /\ pc'[u] = "unlock" =>
                           \A x \in LockTypes : lock_state'[call'[u].lock][x] # 1
    BY DEF Ownership
  <2>1. CASE u = t
    <3>1. call'[u].lock = l
      BY <1>1, <1>2, <2>1
    <3>2. lock_state'[l] = st
      BY <1>1, <1>2
    <3> QED BY <1>1, <1>3, <1>4, <2>1, <3>1, <3>2
  <2>2. CASE u # t
    <3>1. pc'[u] = pc[u] /\ call'[u] = call[u]
      BY <1>1, <1>2, <2>2
    <3>2. /\ pc[u] \in {"locked", "trylocked", "unlock"} => owner[call[u].lock] = u
          /\ pc[u] = "unlock" => \A x \in LockTypes : lock_state[call[u].lock][x] # 1
      BY DEF LockInv, Ownership
    <3>3. pc[u] = "unlock" => call[u].lock # l /\ call[u].lock \in Locks
      BY <1>4, <2>2, <3>2, CallType DEF LockInv
    <3> QED BY <1>1, <1>2, <3>1, <3>2, <3>3
  <2> QED BY <2>1, <2>2
<1>6. Tracked'
  <2> SUFFICES ASSUME NEW m \in Locks
               PROVE  /\ \A x \in LockTypes : lock_state'[m][x] = 1 => owner'[m] # NONE
                      /\ verify_lock_state(lock_state'[m])
    BY DEF Tracked, verify_lock_state
  <2>1. CASE m = l
    BY <1>1, <1>2, <1>4, <2>1
  <2>2. CASE m # l
    BY <1>1, <1>2, <2>2 DEF LockInv, Tracked
  <2> QED BY <2>1, <2>2
<1> QED BY <1>5, <1>6

(* The kernel takes back a lock that the tracker has cleared.              *)
LEMMA LockReturned ==
  ASSUME LockInv, NEW t \in Threads, KernelUnlock(t)
  PROVE  Ownership' /\ Tracked'
<1> DEFINE l == call[t].lock
<1>1. /\ pc[t] = "unlock"
      /\ owner' = [owner EXCEPT ![l] = NONE]
      /\ pc' = [pc EXCEPT ![t] = "run"]
      /\ call' = [call EXCEPT ![t] = NONE]
      /\ UNCHANGED lock_state
  BY DEF KernelUnlock
<1>2. /\ owner \in [Locks -> Threads \cup {NONE}]
      /\ call \in [Threads -> Call \cup {NONE}]
      /\ pc \in [Threads -> {"run", "lock", "locked", "trylocked", "unlock"}]
  BY DEF LockInv, TypeOK
<1>3. /\ l \in Locks /\ owner[l] = t
      /\ \A ty \in LockTypes : lock_state[l][ty] # 1
  BY <1>1, CallType DEF LockInv, Ownership
<1>4. Ownership'
  <2> SUFFICES ASSUME NEW u \in Threads
               PROVE  /\ pc'[u] \in {"locked", "trylocked", "unlock"} => owner'[call'[u].lock] = u
                      /\ pc'[u] = "unlock" =>
                           \A ty \in LockTypes : lock_state'[call'[u].lock][ty] # 1
    BY DEF Ownership
  <2>1. CASE u = t
    BY <1>1, <1>2, <2>1
  <2>2. CASE u # t
    <3>1. pc'[u] = pc[u] /\ call'[u] = call[u]
      BY <1>1, <1>2, <2>2
    <3>2. /\ pc[u] \in {"locked", "trylocked", "unlock"} => owner[call[u].lock] = u
          /\ pc[u] = "unlock" => \A ty \in LockTypes : lock_state[call[u].lock][ty] # 1
      BY DEF LockInv, Ownership
    <3>3. pc[u] \in {"locked", "trylocked", "unlock"} =>
            call[u].lock # l /\ call[u].lock \in Locks
      BY <1>3, <2>2, <3>2, CallType DEF LockInv
    <3> QED BY <1>1, <1>2, <3>1, <3>2, <3>3
  <2> QED BY <2>1, <2>2
<1>5. Tracked'
  BY <1>1, <1>2, <1>3 DEF LockInv, Tracked, verify_lock_state
<1> QED BY <1>4, <1>5

(* Every step preserves the invariant if lock functions always return with *)
(* the lock.                                                               *)
LEMMA NextLock ==
  ASSUME ~Interruptible
  PROVE  LockInv /\ [Next]_vars => LockInv'
<1> SUFFICES ASSUME LockInv, [Next]_vars PROVE Ownership' /\ Tracked'
  BY NextType DEF LockInv
<1>1. CASE UNCHANGED vars
  BY <1>1, LocksAlone DEF vars
<1>2. ASSUME NEW t \in Threads, ThreadNext(t) PROVE Ownership' /\ Tracked'
  <2>t. /\ call \in [Threads -> Call \cup {NONE}]
        /\ pc \in [Threads -> {"run", "lock", "locked", "trylocked", "unlock"}]
        /\ lock_state \in [Locks -> [LockTypes -> Int]]
    BY DEF LockInv, TypeOK
  <2>1. CASE \E reason \in {"assert", "blocking", "recursion"} : Kill(reason)
    BY <2>1, LocksAlone DEF Kill
  <2>2. CASE \/ \E c \in EntryContexts : EntryFunction(t, c[1], c[2])
             \/ PollFunction(t) \/ InterruptHandler(t)
    BY <2>2, LocksAlone DEF EntryFunction, PollFunction, InterruptHandler
  <2>3. CASE LeaveFunction(t)
    BY <2>1, <2>3, LocksAlone DEF LeaveFunction
  <2>4. CASE set_device_interrupts(t) \/ mem_flags_test(t)
    BY <2>1, <2>4, LocksAlone DEF set_device_interrupts, mem_flags_test
  <2>5. CASE \E l \in Locks : generic_lock_allocator(t, l)
    BY <2>5, LocksAlone DEF generic_lock_allocator
  <2>6. CASE \E l \in Locks, ty \in LockTypes : LockPre(t, l, ty)
    <3>1. /\ pc' = [pc EXCEPT ![t] = "lock"]
          /\ \A u \in Threads \ {t} : call'[u] = call[u]
          /\ UNCHANGED <<lock_state, owner>>
      BY <2>6, <2>t DEF LockPre
    <3>2. Ownership'
      BY <3>1, <2>t DEF LockInv, Ownership
    <3>3. Tracked'
      BY <3>1 DEF LockInv, Tracked, verify_lock_state
    <3> QED BY <3>2, <3>3
  <2>7. CASE KernelLock(t)
    BY <2>7, CallType, LockGiven DEF KernelLock, LockInv
  <2>8. CASE LockPost(t)
    <3> DEFINE l == call[t].lock
               ty == call[t].type
               st == [lock_state[l] EXCEPT ![ty] = @ + 1]
    <3>1. CASE Kill("assert") \/ Kill("blocking")
      BY <2>1, <3>1
    <3>2. CASE ~(Kill("assert") \/ Kill("blocking"))
      <4>1. /\ pc[t] = "locked"
            /\ verify_lock_state(st)
            /\ lock_state' = [lock_state EXCEPT ![l] = st]
            /\ pc' = [pc EXCEPT ![t] = "run"]
            /\ call' = [call EXCEPT ![t] = NONE]
            /\ UNCHANGED owner
        BY <2>8, <3>2 DEF LockPost
      <4>2. l \in Locks /\ ty \in LockTypes
        BY <4>1, CallType DEF LockInv
      <4> HIDE DEF l, ty
      <4>3. lock_state[l] \in [LockTypes -> Int] /\ lock_state[l][ty] + 1 \in Int
        BY <2>t, <4>2
      <4>4. st \in [LockTypes -> Int]
        BY <4>3, CounterType
      <4> QED BY <4>1, <4>4, LockRecorded DEF l
    <3> QED BY <3>1, <3>2
  <2>9. CASE \E l \in SpinLocks : KernelTrylock(t, l)
    <3>1. PICK l \in SpinLocks : KernelTrylock(t, l)
      BY <2>9
    <3>2. /\ l \in Locks /\ owner[l] = NONE /\ owner' = [owner EXCEPT ![l] = t]
          /\ pc' = [pc EXCEPT ![t] = "trylocked"]
          /\ UNCHANGED lock_state
      BY <3>1 DEF KernelTrylock, Locks
    <3>3. call'[t].lock = l /\ \A u \in Threads \ {t} : call'[u] = call[u]
      BY <2>t, <3>1 DEF KernelTrylock
    <3> QED BY <3>2, <3>3, LockGiven
  <2>10. CASE TrylockPost(t)
    <3> DEFINE l == call[t].lock
               g == "GENERIC_LOCK"
               st == [lock_state[l] EXCEPT ![g] = @ + 1]
    <3>1. CASE Kill("assert") \/ Kill("recursion")
      BY <2>1, <3>1
    <3>2. CASE ~(Kill("assert") \/ Kill("recursion"))
      <4>1. /\ pc[t] = "trylocked"
            /\ verify_lock_state(st)
            /\ lock_state' = [lock_state EXCEPT ![l] = st]
            /\ pc' = [pc EXCEPT ![t] = "run"]
            /\ call' = [call EXCEPT ![t] = NONE]
            /\ UNCHANGED owner
        BY <2>10, <3>2 DEF TrylockPost
      <4>2. l \in Locks /\ g \in LockTypes
        BY <4>1, CallType DEF LockInv, LockTypes
      <4> HIDE DEF l, g
      <4>3. lock_state[l] \in [LockTypes -> Int] /\ lock_state[l][g] + 1 \in Int
        BY <2>t, <4>2
      <4>4. st \in [LockTypes -> Int]
        BY <4>3, CounterType
      <4> QED BY <4>1, <4>4, LockRecorded DEF l
    <3> QED BY <3>1, <3>2
  <2>11. CASE \E l \in Locks, ty \in LockTypes : UnlockPre(t, l, ty)
    BY <2>1, <2>11, LockCleared
  <2>12. CASE KernelUnlock(t)
    BY <2>12, LockReturned
  <2> QED BY <1>2, <2>2, <2>3, <2>4, <2>5, <2>6, <2>7, <2>8, <2>9, <2>10, <2>11, <2>12
          DEF ThreadNext
<1> QED BY <1>1, <1>2 DEF Next

(* Nothing is held at the start.                                           *)
LEMMA InitLock == Init => LockInv
<1> SUFFICES ASSUME Init PROVE LockInv
  OBVIOUS
<1>1. Ownership
  BY DEF Init, Ownership
<1>2. Tracked
  BY DEF Init, Tracked, verify_lock_state
<1> QED BY <1>1, <1>2, InitType DEF LockInv

(* generic_lock_state never records a lock as held that the kernel has not *)
(* given out, nor under two types, whatever the interleaving of checks and *)
(* kernel functions on any number of threads, as long as no lock function  *)
(* returns without the lock.                                               *)
THEOREM TrackerIsSound ==
  ASSUME ~Interruptible
  PROVE  Spec => []TrackerSound
<1>1. LockInv => TrackerSound
  BY DEF LockInv, Tracked, TrackerSound
<1> QED BY <1>1, InitLock, NextLock, PTL DEF Spec

-----------------------------------------------------------------------------
(* A push and the item it stands for, or a pop and the item it closes.     *)
LEMMA StaysBalanced ==
  ASSUME TypeOK, blocking_context_current = Len(nest), Len(nest') < MAX_NESTING,
         \/ /\ \E b \in Contexts : push_blocking_state(b)
            /\ Len(nest') = Len(nest) + 1
         \/ /\ blocking_context_current' = blocking_context_current - 1
            /\ Len(nest') = Len(nest) - 1
  PROVE  blocking_context_current' = Len(nest')
  BY NestingAssumption DEF TypeOK, push_blocking_state

(* Every step that stays within MAX_NESTING keeps the stack balanced.      *)
LEMMA NextBalanced ==
  ASSUME ~Interruptible
  PROVE  LockInv /\ BlockingBalanced /\ NestingLimited' /\ [Next]_vars => BlockingBalanced'
<1> SUFFICES ASSUME LockInv, BlockingBalanced, NestingLimited', [Next]_vars
             PROVE  BlockingBalanced'
  OBVIOUS
<1> USE DEF LockInv
<1>1. CASE UNCHANGED vars
  BY <1>1 DEF vars, BlockingBalanced
<1>2. ASSUME NEW t \in Threads, ThreadNext(t), path = "running" PROVE BlockingBalanced'
  <2> SUFFICES ASSUME path' = "running" PROVE blocking_context_current' = Len(nest')
    BY DEF BlockingBalanced
  <2>a. /\ blocking_context_current = Len(nest) /\ Len(nest') < MAX_NESTING
        /\ BLOCKING_NO \in Contexts
        /\ \A l : LockContext(l) \in Contexts
    BY <1>2 DEF BlockingBalanced, NestingLimited, Contexts, BLOCKING_NO, BLOCKING_YES,
                LockContext
  <2>b. \A reason \in {"assert", "blocking", "recursion"} : ~Kill(reason)
    BY DEF Kill
  <2>1. CASE \E c \in EntryContexts : EntryFunction(t, c[1], c[2])
    <3>1. PICK c \in EntryContexts : EntryFunction(t, c[1], c[2])
      BY <2>1
    <3>2. c[1] \in Contexts
      BY TypesAssumption
    <3> QED BY <2>a, <3>1, <3>2, OpenedType, StaysBalanced DEF EntryFunction
  <2>2. CASE PollFunction(t)
    BY <2>2, <2>a, OpenedType, StaysBalanced DEF PollFunction
  <2>3. CASE InterruptHandler(t)
    BY <2>3, <2>a, OpenedType, StaysBalanced DEF InterruptHandler
  <2>4. CASE LeaveFunction(t)
    <3>1. PICK k \in 1 .. Len(nest) :
            /\ blocking_context_current' = blocking_context_current - 1
            /\ nest' = Without(k)
      BY <2>4, <2>b DEF LeaveFunction
    <3> QED BY <2>a, <3>1, WithoutType, StaysBalanced
  <2>5. CASE set_device_interrupts(t) \/ mem_flags_test(t)
    BY <2>5, <2>a, <2>b DEF set_device_interrupts, mem_flags_test
  <2>6. CASE \E l \in Locks : generic_lock_allocator(t, l)
    BY <2>6, <2>a DEF generic_lock_allocator
  <2>7. CASE \E l \in Locks, ty \in LockTypes : LockPre(t, l, ty)
    BY <2>7, <2>a DEF LockPre
  <2>8. CASE KernelLock(t) \/ KernelUnlock(t)
    BY <2>8, <2>a DEF KernelLock, KernelUnlock
  <2>9. CASE LockPost(t)
    <3> DEFINE l == call[t].lock
    <3>1. /\ pc[t] = "locked"
          /\ push_blocking_state(LockContext(l))
          /\ IF owner[l] = t THEN Opened(t, l, LockContext(l)) ELSE UNCHANGED nest
      BY <2>9, <2>b DEF LockPost
    <3>2. l \in Locks /\ owner[l] = t
      BY <3>1, CallType DEF Ownership
    <3> QED BY <2>a, <3>1, <3>2, OpenedType, StaysBalanced
  <2>10. CASE \E l \in SpinLocks : KernelTrylock(t, l)
    BY <2>10, <2>a DEF KernelTrylock
  <2>11. CASE TrylockPost(t)
    BY <2>11, <2>a, <2>b DEF TrylockPost
  <2>12. CASE \E l \in Locks, ty \in LockTypes : UnlockPre(t, l, ty)
    <3>1. \/ UNCHANGED <<nest, blocking_context_current>>
          \/ /\ blocking_context_current' = blocking_context_current - 1
             /\ \E k \in 1 .. Len(nest) : nest' = Without(k)
      BY <2>12, <2>b DEF UnlockPre
    <3> QED BY <2>a, <3>1, WithoutType, StaysBalanced
  <2> QED BY <1>2, <2>1, <2>2, <2>3, <2>4, <2>5, <2>6, <2>7, <2>8, <2>9, <2>10, <2>11, <2>12
          DEF ThreadNext
<1> QED BY <1>1, <1>2 DEF Next

(* Every push of a blocking context meets its pop, whatever the order in   *)
(* which the threads' functions and locks end, until a path opens          *)
(* MAX_NESTING contexts: the only way the stack gets out of step.          *)
THEOREM BlockingStaysBalanced ==
  ASSUME ~Interruptible
  PROVE  Spec /\ []NestingLimited => []BlockingBalanced
<1>1. Init => BlockingBalanced
  BY DEF Init, BlockingBalanced
<1> QED BY <1>1, InitLock, NextLock, NextBalanced, PTL DEF Spec

-----------------------------------------------------------------------------
(* What opening and closing do to nest, item by item.                      *)
LEMMA OpenedItem ==
  ASSUME TypeOK, NEW t \in Threads, NEW what \in Locks \cup {"entry", "poll", "irq"},
         NEW ctx \in Contexts, Opened(t, what, ctx)
  PROVE  /\ Len(nest) \in Nat /\ Len(nest') = Len(nest) + 1
         /\ \A k \in 1 .. Len(nest) : nest'[k] = nest[k]
         /\ nest'[Len(nest) + 1].thread = t
         /\ nest'[Len(nest) + 1].what = what
         /\ nest'[Len(nest) + 1].ctx = ctx
         /\ nest'[Len(nest) + 1].under = HeldSpinLocks(t)
<1> DEFINE item == [thread |-> t, what |-> what, ctx |-> ctx, under |-> HeldSpinLocks(t)]
<1>1. /\ item \in Item
      /\ item.thread = t /\ item.what = what /\ item.ctx = ctx /\ item.under = HeldSpinLocks(t)
  BY DEF Item, HeldSpinLocks
<1>2. nest \in Seq(Item) /\ nest' = Append(nest, item)
  BY DEF TypeOK, Opened
<1> HIDE DEF item
<1> QED BY <1>1, <1>2, AppendProperties, LenProperties

(* Closing an item moves the ones after it down by one.                    *)
LEMMA WithoutItem ==
  ASSUME TypeOK, NEW k \in 1 .. Len(nest)
  PROVE  /\ Len(nest) \in Nat /\ Len(Without(k)) = Len(nest) - 1
         /\ \A j \in 1 .. Len(nest) - 1 :
              Without(k)[j] = nest[IF j < k THEN j ELSE j + 1]
<1> DEFINE n == Len(nest)
           a == SubSeq(nest, 1, k - 1)
           b == SubSeq(nest, k + 1, n)
<1>1. n \in Nat /\ k \in 1 .. n /\ \A j \in 1 .. n : nest[j] \in Item
  BY ElementOfSeq, LenProperties DEF TypeOK
<1> HIDE DEF n
<1>2. /\ a \in Seq(Item)
      /\ Len(a) = IF 1 <= k - 1 THEN k - 1 - 1 + 1 ELSE 0
      /\ \A j \in 1 .. k - 1 - 1 + 1 : a[j] = nest[1 + j - 1]
  <2>1. 1 \in Int /\ k - 1 \in Int /\ \A j \in 1 .. k - 1 : nest[j] \in Item
    BY <1>1
  <2> QED BY <2>1, SubSeqProperties
<1>3. /\ b \in Seq(Item)
      /\ Len(b) = IF k + 1 <= n THEN n - (k + 1) + 1 ELSE 0
      /\ \A j \in 1 .. n - (k + 1) + 1 : b[j] = nest[k + 1 + j - 1]
  <2>1. k + 1 \in Int /\ n \in Int /\ \A j \in k + 1 .. n : nest[j] \in Item
    BY <1>1
  <2> QED BY <2>1, SubSeqProperties
<1>4. Len(a) = k - 1 /\ Len(b) = n - k
  BY <1>1, <1>2, <1>3
<1> HIDE DEF a, b
<1>5. /\ Len(a \o b) = Len(a) + Len(b)
      /\ \A j \in 1 .. Len(a) + Len(b) : (a \o b)[j] = IF j <= Len(a) THEN a[j] ELSE b[j - Len(a)]
  BY <1>2, <1>3, ConcatProperties
<1>6. Len(a) + Len(b) = n - 1
  BY <1>1, <1>4
<1>7. Without(k) = a \o b
  BY DEF Without, a, b, n
<1>8. ASSUME NEW j \in 1 .. n - 1
      PROVE  (a \o b)[j] = nest[IF j < k THEN j ELSE j + 1]
  <2>1. (a \o b)[j] = IF j <= Len(a) THEN a[j] ELSE b[j - Len(a)]
    BY <1>5, <1>6
  <2>2. CASE j < k
    <3>1. j <= Len(a) /\ j \in 1 .. k - 1 - 1 + 1 /\ 1 + j - 1 = j
      BY <1>1, <1>4, <2>2
    <3> QED BY <1>2, <2>1, <2>2, <3>1
  <2>3. CASE ~(j < k)
    <3>1. ~(j <= Len(a)) /\ j - Len(a) = j - k + 1
      BY <1>1, <1>4, <2>3
    <3>2. j - k + 1 \in 1 .. n - (k + 1) + 1 /\ k + 1 + (j - k + 1) - 1 = j + 1
      BY <1>1, <2>3
    <3>3. b[j - k + 1] = nest[j + 1]
      BY <1>3, <3>2
    <3> QED BY <2>1, <2>3, <3>1, <3>3
  <2> QED BY <2>2, <2>3
<1> QED BY <1>1, <1>5, <1>6, <1>7, <1>8 DEF n

-----------------------------------------------------------------------------
(* The stack of user contexts.                                             *)
(* There are no more driver functions than open items.                     *)
LEMMA FramesFinite ==
  ASSUME TypeOK
  PROVE  IsFiniteSet(Frames) /\ Cardinality(Frames) \in Nat /\ Cardinality(Frames) <= Len(nest)
<1>1. Len(nest) \in Nat
  BY LenProperties DEF TypeOK
<1>2. /\ IsFiniteSet(1 .. Len(nest))
      /\ Cardinality(1 .. Len(nest)) = Len(nest)
  <2> DEFINE n == Len(nest)
  <2> HIDE DEF n
  <2>1. n \in Nat
    BY <1>1 DEF n
  <2>2. IsFiniteSet(1 .. n) /\ Cardinality(1 .. n) = IF 1 > n THEN 0 ELSE n - 1 + 1
    BY <2>1, FS_Interval
  <2>3. Cardinality(1 .. n) = n
    BY <2>1, <2>2
  <2> QED BY <2>2, <2>3 DEF n
<1>3. Frames \in SUBSET (1 .. Len(nest))
  BY DEF Frames
<1> QED BY <1>1, <1>2, <1>3, FS_Subset, FS_CardinalityType

(* Opening counts one more entry point or handler, or none.                *)
LEMMA FramesOpened ==
  ASSUME TypeOK, NEW t \in Threads, NEW what \in Locks \cup {"entry", "poll", "irq"},
         NEW ctx \in Contexts, Opened(t, what, ctx)
  PROVE  Cardinality(Frames') =
           IF what \in {"entry", "irq"} THEN Cardinality(Frames) + 1 ELSE Cardinality(Frames)
<1> DEFINE n == Len(nest)
<1>1. /\ n \in Nat /\ Len(nest') = n + 1
      /\ \A k \in 1 .. n : nest'[k] = nest[k]
      /\ nest'[n + 1].what = what
  BY OpenedItem
<1>2. Frames = {k \in 1 .. n : nest[k].what \in {"entry", "irq"}}
  BY DEF Frames
<1>3. Frames' = {k \in 1 .. n + 1 : nest'[k].what \in {"entry", "irq"}}
  BY <1>1 DEF Frames
<1> HIDE DEF n
<1>4. CASE what \in {"entry", "irq"}
  <2>1. Frames' = Frames \cup {n + 1} /\ n + 1 \notin Frames
    BY <1>1, <1>2, <1>3, <1>4
  <2> QED BY <1>4, <2>1, FramesFinite, FS_AddElement
<1>5. CASE what \notin {"entry", "irq"}
  <2>1. Frames' = Frames
    BY <1>1, <1>2, <1>3, <1>5
  <2> QED BY <1>5, <2>1
<1> QED BY <1>4, <1>5

(* Closing an item leaves the other entry points and handlers.             *)
LEMMA FramesClosed ==
  ASSUME TypeOK, NEW k \in 1 .. Len(nest), nest' = Without(k)
  PROVE  Cardinality(Frames') = Cardinality(Frames \ {k})
<1> DEFINE n == Len(nest)
           S == Frames \ {k}
           T == Frames'
           f == [i \in S |-> IF i < k THEN i ELSE i - 1]
<1>1. /\ n \in Nat /\ Len(nest') = n - 1 /\ k \in 1 .. n
      /\ \A j \in 1 .. n - 1 : nest'[j] = nest[IF j < k THEN j ELSE j + 1]
  BY WithoutItem
<1>2. S = {i \in 1 .. n : i # k /\ nest[i].what \in {"entry", "irq"}}
  BY DEF Frames
<1>3. T = {i \in 1 .. n - 1 : nest'[i].what \in {"entry", "irq"}}
  BY <1>1 DEF Frames
<1>4. IsFiniteSet(S)
  BY FramesFinite, FS_RemoveElement
<1> HIDE DEF n, S, T
<1>5. f \in [S -> T]
  <2> SUFFICES ASSUME NEW i \in S PROVE (IF i < k THEN i ELSE i - 1) \in T
    OBVIOUS
  <2>1. CASE i < k
    <3>1. i \in 1 .. n - 1 /\ nest'[i] = nest[i]
      BY <1>1, <1>2, <2>1
    <3> QED BY <1>2, <1>3, <2>1, <3>1
  <2>2. CASE ~(i < k)
    <3>1. i - 1 \in 1 .. n - 1 /\ ~(i - 1 < k) /\ i - 1 + 1 = i
      BY <1>1, <1>2, <2>2
    <3>2. nest'[i - 1] = nest[i]
      BY <1>1, <3>1
    <3> QED BY <1>2, <1>3, <2>2, <3>1, <3>2
  <2> QED BY <2>1, <2>2
<1>6. \A i, j \in S : f[i] = f[j] => i = j
  BY <1>1, <1>2
<1>7. ASSUME NEW j \in T PROVE \E i \in S : f[i] = j
  <2>1. CASE j < k
    <3>1. j \in S /\ f[j] = j
      BY <1>1, <1>2, <1>3, <2>1
    <3> QED BY <3>1
  <2>2. CASE ~(j < k)
    <3>1. j + 1 \in S /\ f[j + 1] = j
      BY <1>1, <1>2, <1>3, <2>2
    <3> QED BY <3>1
  <2> QED BY <2>1, <2>2
<1> HIDE DEF f
<1>8. f \in Bijection(S, T)
  BY <1>5, <1>6, <1>7 DEF Bijection, Injection, Surjection, IsInjective
<1> QED BY <1>4, <1>8, FS_Bijection DEF ExistsBijection, S, T

(* A step that stays within MAX_NESTING pushes a user context with every   *)
(* entry point and handler and pops it when that returns.                  *)
LEMMA PushesUser ==
  ASSUME TypeOK, user_context_current = Cardinality(Frames), Len(nest') < MAX_NESTING,
         NEW u, push_user_state(u), Len(nest') = Len(nest) + 1
  PROVE  user_context_current' = Cardinality(Frames) + 1
<1>1. user_context_current + 1 < MAX_NESTING
  BY FramesFinite, NestingAssumption, LenProperties DEF TypeOK
<1> QED BY <1>1, FramesFinite, NestingAssumption DEF push_user_state

(* Every step keeps the user contexts balanced.                            *)
LEMMA NextUser == TypeOK /\ UserBalanced /\ NestingLimited' /\ [Next]_vars => UserBalanced'
<1> SUFFICES ASSUME TypeOK, UserBalanced, NestingLimited', [Next]_vars PROVE UserBalanced'
  OBVIOUS
<1>1. CASE UNCHANGED vars
  BY <1>1 DEF vars, UserBalanced, Frames
<1>2. ASSUME NEW t \in Threads, ThreadNext(t), path = "running" PROVE UserBalanced'
  <2> SUFFICES ASSUME path' = "running" PROVE user_context_current' = Cardinality(Frames')
    BY DEF UserBalanced, Frames
  <2>a. /\ user_context_current = Cardinality(Frames) /\ Len(nest') < MAX_NESTING
        /\ BLOCKING_NO \in Contexts
        /\ \A l : LockContext(l) \in Contexts
    BY <1>2 DEF UserBalanced, NestingLimited, Contexts, BLOCKING_NO, BLOCKING_YES,
                LockContext
  <2>b. \A reason \in {"assert", "blocking", "recursion"} : ~Kill(reason)
    BY DEF Kill
  <2>c. \A l \in Locks : l \notin {"entry", "poll", "irq"}
    BY SetsAssumption
  <2>d. UNCHANGED <<nest, user_context_current>> => user_context_current' = Cardinality(Frames')
    BY <2>a DEF Frames
  <2>1. CASE \E c \in EntryContexts : EntryFunction(t, c[1], c[2])
    <3>1. PICK c \in EntryContexts : EntryFunction(t, c[1], c[2])
      BY <2>1
    <3>2. c[1] \in Contexts
      BY TypesAssumption
    <3>3. Opened(t, "entry", c[1]) /\ push_user_state(c[2])
      BY <3>1 DEF EntryFunction
    <3>4. Cardinality(Frames') = Cardinality(Frames) + 1 /\ Len(nest') = Len(nest) + 1
      BY <3>2, <3>3, FramesOpened, OpenedItem
    <3> QED BY <2>a, <3>3, <3>4, PushesUser
  <2>2. CASE PollFunction(t)
    <3>o. Opened(t, "poll", BLOCKING_NO) /\ "poll" \notin {"entry", "irq"}
      BY <2>2 DEF PollFunction
    <3>1. Cardinality(Frames') = Cardinality(Frames)
      BY <2>a, <3>o, FramesOpened
    <3> QED BY <2>2, <2>a, <3>1 DEF PollFunction
  <2>3. CASE InterruptHandler(t)
    <3>3. Opened(t, "irq", BLOCKING_NO) /\ push_user_state(USER_YES)
      BY <2>3 DEF InterruptHandler
    <3>4. Cardinality(Frames') = Cardinality(Frames) + 1 /\ Len(nest') = Len(nest) + 1
      BY <2>a, <3>3, FramesOpened, OpenedItem
    <3> QED BY <2>a, <3>3, <3>4, PushesUser
  <2>4. CASE LeaveFunction(t)
    <3>1. PICK k \in 1 .. Len(nest) :
            /\ IsFrame(nest[k])
            /\ IF nest[k].what = "poll" THEN UNCHANGED user_context_current
               ELSE user_context_current' = user_context_current - 1
            /\ nest' = Without(k)
      BY <2>4, <2>b DEF LeaveFunction
    <3>2. Cardinality(Frames') = Cardinality(Frames \ {k})
      BY <3>1, FramesClosed
    <3>3. k \in Frames <=> nest[k].what # "poll"
      BY <3>1 DEF Frames, IsFrame
    <3> QED BY <2>a, <3>1, <3>2, <3>3, FramesFinite, FS_RemoveElement
  <2>5. CASE set_device_interrupts(t) \/ mem_flags_test(t)
    BY <2>5, <2>b, <2>d DEF set_device_interrupts, mem_flags_test
  <2>6. CASE \E l \in Locks : generic_lock_allocator(t, l)
    BY <2>6, <2>d DEF generic_lock_allocator
  <2>7. CASE \E l \in Locks, ty \in LockTypes : LockPre(t, l, ty)
    BY <2>7, <2>d DEF LockPre
  <2>8. CASE KernelLock(t) \/ KernelUnlock(t)
    BY <2>8, <2>d DEF KernelLock, KernelUnlock
  <2>9. CASE LockPost(t)
    <3> SUFFICES ASSUME NEW l, l = call[t].lock
                 PROVE  user_context_current' = Cardinality(Frames')
      OBVIOUS
    <3>1. /\ pc[t] = "locked" /\ UNCHANGED user_context_current
          /\ IF owner[l] = t THEN Opened(t, l, LockContext(l)) ELSE UNCHANGED nest
      BY <2>9, <2>b DEF LockPost
    <3>2. l \in Locks
      BY <3>1, CallType
    <3>3. CASE owner[l] = t
      <4>1. Cardinality(Frames') = Cardinality(Frames)
        BY <2>a, <2>c, <3>1, <3>2, <3>3, FramesOpened
      <4> QED BY <2>a, <3>1, <4>1
    <3>4. CASE owner[l] # t
      BY <2>d, <3>1, <3>4
    <3> QED BY <3>3, <3>4
  <2>10. CASE \E l \in SpinLocks : KernelTrylock(t, l)
    BY <2>10, <2>d DEF KernelTrylock
  <2>11. CASE TrylockPost(t)
    BY <2>11, <2>b, <2>d DEF TrylockPost
  <2>12. CASE \E l \in Locks, ty \in LockTypes : UnlockPre(t, l, ty)
    <3>1. UNCHANGED user_context_current
      BY <2>12, <2>b DEF UnlockPre
    <3>2. CASE UNCHANGED nest
      BY <2>d, <3>1, <3>2
    <3>3. CASE ~UNCHANGED nest
      <4>1. PICK l \in Locks, k \in 1 .. Len(nest) : nest[k].what = l /\ nest' = Without(k)
        BY <2>12, <2>b, <3>3 DEF UnlockPre, ItemOf
      <4>2. k \notin Frames
        BY <2>c, <4>1 DEF Frames
      <4>3. Cardinality(Frames') = Cardinality(Frames \ {k}) /\ Frames \ {k} = Frames
        BY <4>1, <4>2, FramesClosed
      <4> QED BY <2>a, <3>1, <4>3
    <3> QED BY <3>2, <3>3
  <2> QED BY <1>2, <2>1, <2>2, <2>3, <2>4, <2>5, <2>6, <2>7, <2>8, <2>9, <2>10, <2>11, <2>12
          DEF ThreadNext
<1> QED BY <1>1, <1>2 DEF Next

(* Nothing is open at the start.                                           *)
LEMMA InitUser == Init => UserBalanced
<1> SUFFICES ASSUME Init PROVE UserBalanced
  OBVIOUS
<1>1. Frames = {}
  BY DEF Init, Frames
<1> QED BY <1>1, FS_EmptySet DEF Init, UserBalanced

(* The user contexts balance too, in every configuration: also when a lock *)
(* function returns without the lock, since locks push no user context.    *)
THEOREM UserStaysBalanced == Spec /\ []NestingLimited => []UserBalanced
  BY InitType, NextType, InitUser, NextUser, PTL DEF Spec

-----------------------------------------------------------------------------
(* On one CPU, with locks released in reverse order, without trylocks.     *)

OneCPUDriver == ~SMP /\ Lifo /\ ~Trylocks /\ ~Interruptible

(* The stack of contexts tells where blocking is forbidden: the items that *)
(* forbid it are the newest ones and all of one thread.                    *)
NoBlockOnTop ==
  \A k \in 1 .. Len(nest) : nest[k].ctx = BLOCKING_NO =>
    \A j \in k .. Len(nest) : nest[j].ctx = BLOCKING_NO /\ nest[j].thread = nest[k].thread

StackTells ==
  /\ blocking_context[0] # BLOCKING_NO
  /\ \A k \in 1 .. Len(nest) : blocking_context[k] = BLOCKING_NO <=> nest[k].ctx = BLOCKING_NO

(* A thread between the kernel's lock function and its check, or between   *)
(* the check before an unlock and the kernel's function.                   *)
Crossing(t, l) == pc[t] \in {"locked", "unlock"} /\ call[t].lock = l

(* The locks in nest are the locks held, each once.                        *)
ItemsHeld ==
  \A k \in 1 .. Len(nest) : nest[k].what \in Locks =>
    /\ owner[nest[k].what] = nest[k].thread
    /\ nest[k].ctx = LockContext(nest[k].what)
    /\ ~Crossing(nest[k].thread, nest[k].what)
    /\ \A j \in 1 .. Len(nest) : nest[j].what = nest[k].what => j = k

HeldItems ==
  \A t \in Threads, l \in Locks : owner[l] = t /\ ~Crossing(t, l) =>
    \E k \in 1 .. Len(nest) : nest[k].what = l /\ nest[k].thread = t

(* The states of the locks when no lock is taken by spin_trylock.          *)
Untried ==
  /\ \A l \in Locks : lock_state[l]["GENERIC_LOCK"] = 0
  /\ \A t \in Threads : /\ pc[t] # "trylocked"
                        /\ pc[t] \in {"lock", "locked"} => call[t].type # "GENERIC_LOCK"

Waiting ==
  \A t \in Threads :
    /\ pc[t] = "locked" => \A ty \in LockTypes : lock_state[call[t].lock][ty] = 0
    /\ pc[t] \in {"lock", "locked"} /\ call[t].lock \in Mutexes => ~Atomic(t)

(* The inductive invariant of one CPU.                                     *)
OneCPU ==
  /\ NoBlockOnTop /\ StackTells
  /\ ItemsHeld /\ HeldItems
  /\ Untried /\ Waiting
  /\ NoHandlerUnderSpinLock
  /\ blocking_context_current = Len(nest)
  /\ user_context_current = Cardinality(Frames)
  /\ path = "running"

(* A thread that may not sleep has an item that says so.                   *)
LEMMA AtomicHasItem ==
  ASSUME TypeOK, ItemsHeld, HeldItems, NEW t \in Threads,
         pc[t] \notin {"locked", "unlock"}, Atomic(t)
  PROVE  \E k \in 1 .. Len(nest) : nest[k].thread = t /\ nest[k].ctx = BLOCKING_NO
<1>1. CASE HeldSpinLocks(t) # {}
  <2>1. PICK l \in SpinLocks : owner[l] = t
    BY <1>1 DEF HeldSpinLocks
  <2>2. l \in Locks /\ l \notin Mutexes
    BY <2>1, SetsAssumption DEF Locks
  <2>3. PICK k \in 1 .. Len(nest) : nest[k].what = l /\ nest[k].thread = t
    BY <2>1, <2>2 DEF HeldItems, Crossing
  <2>4. nest[k].ctx = BLOCKING_NO
    BY <2>2, <2>3 DEF ItemsHeld, LockContext
  <2> QED BY <2>3, <2>4
<1>2. CASE HeldSpinLocks(t) = {}
  BY <1>2 DEF Atomic
<1> QED BY <1>1, <1>2

(* An item that forbids blocking is of a thread that may not sleep.        *)
LEMMA ItemAtomic ==
  ASSUME TypeOK, ItemsHeld, NEW k \in 1 .. Len(nest), nest[k].ctx = BLOCKING_NO
  PROVE  nest[k].thread \in Threads /\ Atomic(nest[k].thread)
<1>1. nest[k] \in Item
  BY ElementOfSeq DEF TypeOK
<1>2. nest[k].thread \in Threads /\ nest[k].what \in Locks \cup {"entry", "poll", "irq"}
  BY <1>1 DEF Item
<1>3. CASE nest[k].what \in Locks
  <2>1. nest[k].what \in SpinLocks
    BY <1>3 DEF ItemsHeld, LockContext, Locks, BLOCKING_NO, BLOCKING_YES
  <2> QED BY <1>2, <1>3, <2>1 DEF ItemsHeld, Atomic, HeldSpinLocks
<1>4. CASE nest[k].what \in {"entry", "poll", "irq"}
  BY <1>2, <1>4 DEF Atomic, IsFrame
<1> QED BY <1>2, <1>3, <1>4

(* While a thread runs, only it can have forbidden blocking.               *)
LEMMA OthersSleep ==
  ASSUME ~SMP, TypeOK, ItemsHeld, NEW t \in Threads, CanRun(t)
  PROVE  \A k \in 1 .. Len(nest) : nest[k].ctx = BLOCKING_NO => nest[k].thread = t
  BY ItemAtomic DEF CanRun

(* The top of the stack speaks for all of nest.                            *)
LEMMA TopTells ==
  ASSUME TypeOK, NoBlockOnTop, StackTells, blocking_context_current = Len(nest)
  PROVE  /\ kernel_blocking_state = BLOCKING_NO <=>
              \E k \in 1 .. Len(nest) : nest[k].ctx = BLOCKING_NO
         /\ MayBlock <=> kernel_blocking_state # BLOCKING_NO
<1>1. Len(nest) \in Nat
  BY LenProperties DEF TypeOK
<1>2. MayBlock <=> kernel_blocking_state # BLOCKING_NO
  <2>1. kernel_blocking_state \in Contexts
    BY DEF TypeOK, kernel_blocking_state
  <2> QED BY <2>1 DEF MayBlock, Contexts, BLOCKING_NO, BLOCKING_YES, BLOCKING_UNDEFINED
<1> SUFFICES ASSUME NEW n \in Nat, n = Len(nest)
             PROVE  blocking_context[n] = BLOCKING_NO <=>
                      \E k \in 1 .. n : nest[k].ctx = BLOCKING_NO
  BY <1>1, <1>2 DEF kernel_blocking_state
<1>3. CASE n = 0
  BY <1>3 DEF StackTells
<1>4. CASE n # 0
  <2>1. n \in 1 .. n
    BY <1>4
  <2>2. blocking_context[n] = BLOCKING_NO <=> nest[n].ctx = BLOCKING_NO
    BY <2>1 DEF StackTells
  <2>3. \A k \in 1 .. n : nest[k].ctx = BLOCKING_NO => nest[n].ctx = BLOCKING_NO
    <3>1. \A k \in 1 .. n : n \in k .. n
      OBVIOUS
    <3> QED BY <3>1 DEF NoBlockOnTop
  <2> QED BY <2>1, <2>2, <2>3
<1> QED BY <1>3, <1>4

(* The running thread may sleep exactly if the framework thinks so.        *)
LEMMA RunningTells ==
  ASSUME ~SMP, TypeOK, OneCPU, NEW t \in Threads, CanRun(t), pc[t] \notin {"locked", "unlock"}
  PROVE  /\ kernel_blocking_state = BLOCKING_NO <=> Atomic(t)
         /\ MayBlock <=> ~Atomic(t)
<1>1. Atomic(t) => \E k \in 1 .. Len(nest) : nest[k].ctx = BLOCKING_NO
  BY AtomicHasItem DEF OneCPU
<1>2. ASSUME NEW k \in 1 .. Len(nest), nest[k].ctx = BLOCKING_NO PROVE Atomic(t)
  BY <1>2, ItemAtomic, OthersSleep DEF OneCPU
<1> QED BY <1>1, <1>2, TopTells DEF OneCPU

-----------------------------------------------------------------------------
(* Opening an item that may forbid blocking, on top of what does.          *)
LEMMA PushStack ==
  ASSUME TypeOK, NoBlockOnTop, StackTells, blocking_context_current = Len(nest),
         NEW t \in Threads, NEW what \in Locks \cup {"entry", "poll", "irq"}, NEW b \in Contexts,
         push_blocking_state(b), Opened(t, what, b), Len(nest') < MAX_NESTING,
         \A k \in 1 .. Len(nest) : nest[k].ctx = BLOCKING_NO =>
           nest[k].thread = t /\ b = BLOCKING_NO
  PROVE  NoBlockOnTop' /\ StackTells'
<1> DEFINE n == Len(nest)
<1>1. /\ n \in Nat /\ Len(nest') = n + 1
      /\ \A k \in 1 .. n : nest'[k] = nest[k]
      /\ nest'[n + 1].thread = t /\ nest'[n + 1].ctx = b
  BY OpenedItem
<1>2. n + 1 < MAX_NESTING
  BY <1>1
<1>3. blocking_context' = [blocking_context EXCEPT ![n + 1] = b]
  BY <1>2, NestingAssumption DEF push_blocking_state
<1>4. blocking_context \in [0 .. MAX_NESTING - 1 -> Contexts]
  BY DEF TypeOK
<1>a. /\ \A k \in 1 .. n : nest[k].ctx = BLOCKING_NO =>
           \A j \in k .. n : nest[j].ctx = BLOCKING_NO /\ nest[j].thread = nest[k].thread
      /\ \A k \in 1 .. n : nest[k].ctx = BLOCKING_NO => nest[k].thread = t /\ b = BLOCKING_NO
      /\ blocking_context[0] # BLOCKING_NO
      /\ \A k \in 1 .. n : blocking_context[k] = BLOCKING_NO <=> nest[k].ctx = BLOCKING_NO
  BY DEF NoBlockOnTop, StackTells
<1> HIDE DEF n
<1>5. ASSUME NEW k \in 1 .. n + 1, nest'[k].ctx = BLOCKING_NO, NEW j \in k .. n + 1
      PROVE  nest'[j].ctx = BLOCKING_NO /\ nest'[j].thread = nest'[k].thread
  <2>1. CASE k = n + 1
    <3>1. j = n + 1
      BY <1>1, <2>1
    <3> QED BY <1>5, <2>1, <3>1
  <2>2. CASE k # n + 1
    <3>1. k \in 1 .. n /\ nest'[k] = nest[k] /\ nest[k].ctx = BLOCKING_NO
      BY <1>1, <1>5, <2>2
    <3>2. CASE j = n + 1
      BY <1>1, <1>a, <3>1, <3>2
    <3>3. CASE j # n + 1
      <4>1. j \in k .. n /\ j \in 1 .. n
        BY <1>1, <3>1, <3>3
      <4> QED BY <1>1, <1>a, <3>1, <4>1
    <3> QED BY <3>2, <3>3
  <2> QED BY <2>1, <2>2
<1>6. NoBlockOnTop'
  BY <1>1, <1>5 DEF NoBlockOnTop, n
<1>7. \A k \in 0 .. n : blocking_context'[k] = blocking_context[k]
  BY <1>1, <1>3, <1>4
<1>8. blocking_context'[n + 1] = b
  BY <1>1, <1>2, <1>3, <1>4, NestingAssumption
<1>9. ASSUME NEW k \in 1 .. n + 1
      PROVE  blocking_context'[k] = BLOCKING_NO <=> nest'[k].ctx = BLOCKING_NO
  <2>1. CASE k = n + 1
    BY <1>1, <1>8, <2>1
  <2>2. CASE k # n + 1
    <3>1. k \in 1 .. n /\ k \in 0 .. n
      BY <1>1, <2>2
    <3> QED BY <1>1, <1>7, <1>a, <3>1
  <2> QED BY <2>1, <2>2
<1>10. blocking_context'[0] # BLOCKING_NO
  BY <1>1, <1>7, <1>a
<1>11. StackTells'
  BY <1>1, <1>9, <1>10 DEF StackTells, n
<1> QED BY <1>6, <1>11

(* Closing the newest item of the only thread that forbids blocking.       *)
LEMMA PopStack ==
  ASSUME TypeOK, NoBlockOnTop, StackTells, NEW t \in Threads, NEW k, IsNewest(t, k),
         \A j \in 1 .. Len(nest) : nest[j].ctx = BLOCKING_NO => nest[j].thread = t,
         nest' = Without(k), UNCHANGED blocking_context
  PROVE  NoBlockOnTop' /\ StackTells'
<1> DEFINE n == Len(nest)
<1>1. k \in 1 .. n /\ \A j \in 1 .. n : nest[j].thread = t => j <= k
  BY DEF IsNewest, MyItems
<1>2. /\ n \in Nat /\ Len(nest') = n - 1
      /\ \A j \in 1 .. n - 1 : nest'[j] = nest[IF j < k THEN j ELSE j + 1]
  BY <1>1, WithoutItem
<1>a. /\ \A i \in 1 .. n : nest[i].ctx = BLOCKING_NO =>
           \A j \in i .. n : nest[j].ctx = BLOCKING_NO /\ nest[j].thread = nest[i].thread
      /\ \A i \in 1 .. n : nest[i].ctx = BLOCKING_NO => nest[i].thread = t
      /\ blocking_context[0] # BLOCKING_NO
      /\ \A i \in 1 .. n : blocking_context[i] = BLOCKING_NO <=> nest[i].ctx = BLOCKING_NO
  BY DEF NoBlockOnTop, StackTells
<1> HIDE DEF n
<1>3. CASE k = n
  <2>1. \A j \in 1 .. n - 1 : nest'[j] = nest[j] /\ j \in 1 .. n
    BY <1>2, <1>3
  <2>2. \A i \in 1 .. n - 1 : \A j \in i .. n - 1 : j \in i .. n /\ j \in 1 .. n - 1
    BY <1>2
  <2>3. NoBlockOnTop'
    BY <1>2, <1>a, <2>1, <2>2 DEF NoBlockOnTop
  <2>4. StackTells'
    BY <1>2, <1>a, <2>1 DEF StackTells
  <2> QED BY <2>3, <2>4
<1>4. CASE k # n
  <2>1. \A i \in 1 .. n : nest[i].ctx # BLOCKING_NO
    <3> SUFFICES ASSUME NEW i \in 1 .. n, nest[i].ctx = BLOCKING_NO PROVE FALSE
      OBVIOUS
    <3>1. n \in i .. n /\ n \in 1 .. n
      BY <1>2
    <3>2. nest[n].thread = t
      BY <1>a, <3>1
    <3> QED BY <1>1, <1>2, <1>4, <3>1, <3>2
  <2>2. \A j \in 1 .. n - 1 : nest'[j].ctx # BLOCKING_NO
    <3>1. \A j \in 1 .. n - 1 : (IF j < k THEN j ELSE j + 1) \in 1 .. n
      BY <1>1, <1>2
    <3> QED BY <1>2, <2>1, <3>1
  <2>3. \A j \in 1 .. n - 1 : blocking_context[j] # BLOCKING_NO
    <3>1. \A j \in 1 .. n - 1 : j \in 1 .. n
      BY <1>2
    <3> QED BY <1>a, <2>1, <3>1
  <2> QED BY <1>2, <1>a, <2>2, <2>3 DEF NoBlockOnTop, StackTells
<1> QED BY <1>3, <1>4

-----------------------------------------------------------------------------
(* The locks and their items.                                              *)

(* Closing an item keeps the other ones, each once.                        *)
LEMMA ClosedItems ==
  ASSUME TypeOK, NEW k \in 1 .. Len(nest), nest' = Without(k)
  PROVE  /\ \A i \in 1 .. Len(nest') : \E j \in 1 .. Len(nest) : j # k /\ nest'[i] = nest[j]
         /\ \A j \in 1 .. Len(nest) : j # k => \E i \in 1 .. Len(nest') : nest'[i] = nest[j]
         /\ ItemsHeld =>
              \A i, j \in 1 .. Len(nest') :
                nest'[i].what \in Locks /\ nest'[i].what = nest'[j].what => i = j
<1> DEFINE n == Len(nest)
           old(j) == IF j < k THEN j ELSE j + 1
<1>1. /\ n \in Nat /\ Len(nest') = n - 1 /\ k \in 1 .. n
      /\ \A j \in 1 .. n - 1 : nest'[j] = nest[old(j)]
  BY WithoutItem
<1> HIDE DEF n
<1>2. \A j \in 1 .. n - 1 : old(j) \in 1 .. n /\ old(j) # k
  BY <1>1
<1>3. \A i, j \in 1 .. n - 1 : old(i) = old(j) => i = j
  BY <1>1
<1>4. \A j \in 1 .. n : j # k => \E i \in 1 .. n - 1 : old(i) = j
  <2> SUFFICES ASSUME NEW j \in 1 .. n, j # k PROVE \E i \in 1 .. n - 1 : old(i) = j
    OBVIOUS
  <2>1. CASE j < k
    <3>1. j \in 1 .. n - 1 /\ old(j) = j
      BY <1>1, <2>1
    <3> QED BY <3>1
  <2>2. CASE ~(j < k)
    <3>1. j - 1 \in 1 .. n - 1 /\ old(j - 1) = j
      BY <1>1, <2>2
    <3> QED BY <3>1
  <2> QED BY <2>1, <2>2
<1> HIDE DEF old
<1>5. ItemsHeld => \A i, j \in 1 .. n : nest[i].what \in Locks /\ nest[i].what = nest[j].what => i = j
  BY DEF ItemsHeld, n
<1>6. ItemsHeld =>
        \A i, j \in 1 .. n - 1 :
          nest'[i].what \in Locks /\ nest'[i].what = nest'[j].what => i = j
  BY <1>1, <1>2, <1>3, <1>5
<1> QED BY <1>1, <1>2, <1>4, <1>6 DEF n

(* A thread that is not concerned by a step does not lose its sleep.       *)
LEMMA AtomicSame ==
  ASSUME NEW u \in Threads,
         \A l \in SpinLocks : owner'[l] = u => owner[l] = u,
         \A k \in 1 .. Len(nest') :
           nest'[k].thread = u /\ IsFrame(nest'[k]) /\ nest'[k].ctx = BLOCKING_NO =>
             \E j \in 1 .. Len(nest) :
               nest[j].thread = u /\ IsFrame(nest[j]) /\ nest[j].ctx = BLOCKING_NO,
         Atomic(u)'
  PROVE  Atomic(u)
  BY DEF Atomic, HeldSpinLocks

(* What a step of thread t leaves of the waiting threads.                  *)
LEMMA OthersWait ==
  ASSUME TypeOK, Waiting, Untried, NEW t \in Threads,
         \A u \in Threads \ {t} : pc'[u] = pc[u] /\ call'[u] = call[u],
         \A u \in Threads \ {t} : Atomic(u)' => Atomic(u),
         \A u \in Threads \ {t} : pc[u] = "locked" =>
           lock_state'[call[u].lock] = lock_state[call[u].lock],
         pc'[t] \in {"run", "lock", "locked", "unlock"},
         pc'[t] = "locked" => \A ty \in LockTypes : lock_state'[call'[t].lock][ty] = 0,
         pc'[t] \in {"lock", "locked"} /\ call'[t].lock \in Mutexes => ~Atomic(t)',
         pc'[t] \in {"lock", "locked"} => call'[t].type # "GENERIC_LOCK",
         \A l \in Locks : lock_state'[l]["GENERIC_LOCK"] = 0
  PROVE  Waiting' /\ Untried'
<1>1. Untried'
  BY DEF Untried
<1>2. ASSUME NEW u \in Threads
      PROVE  /\ pc'[u] = "locked" => \A ty \in LockTypes : lock_state'[call'[u].lock][ty] = 0
             /\ pc'[u] \in {"lock", "locked"} /\ call'[u].lock \in Mutexes => ~Atomic(u)'
  <2>1. CASE u = t
    BY <2>1
  <2>2. CASE u # t
    <3>1. pc'[u] = pc[u] /\ call'[u] = call[u] /\ (Atomic(u)' => Atomic(u))
      BY <2>2
    <3>2. pc[u] = "locked" => lock_state'[call[u].lock] = lock_state[call[u].lock]
      BY <2>2
    <3> QED BY <3>1, <3>2 DEF Waiting
  <2> QED BY <2>1, <2>2
<1>3. Waiting'
  BY <1>2 DEF Waiting
<1> QED BY <1>1, <1>3

(* Entering a driver function.                                             *)
LEMMA FrameOpened ==
  ASSUME TypeOK, OneCPU, NEW t \in Threads, NEW what \in {"entry", "poll", "irq"},
         NEW b \in Contexts, Opened(t, what, b), pc[t] = "run",
         what = "irq" => HeldSpinLocks(t) = {},
         UNCHANGED <<lock_state, owner, thread>>
  PROVE  ItemsHeld' /\ HeldItems' /\ Waiting' /\ Untried' /\ NoHandlerUnderSpinLock'
<1> DEFINE n == Len(nest)
<1>1. /\ n \in Nat /\ Len(nest') = n + 1
      /\ \A k \in 1 .. n : nest'[k] = nest[k]
      /\ nest'[n + 1].what = what /\ nest'[n + 1].thread = t
      /\ nest'[n + 1].under = HeldSpinLocks(t)
  BY OpenedItem
<1>2. what \notin Locks
  BY SetsAssumption
<1>3. \A k \in 1 .. n + 1 : k = n + 1 \/ k \in 1 .. n
  BY <1>1
<1>4. \A k \in 1 .. n : k \in 1 .. n + 1
  BY <1>1
<1>5. \A t1, l : Crossing(t1, l)' <=> Crossing(t1, l)
  BY DEF Crossing
<1>a. ItemsHeld /\ HeldItems /\ Waiting /\ Untried /\ NoHandlerUnderSpinLock
  BY DEF OneCPU
<1>6. ItemsHeld'
  <2> SUFFICES ASSUME NEW k \in 1 .. n + 1, nest'[k].what \in Locks
               PROVE  /\ owner[nest'[k].what] = nest'[k].thread
                      /\ nest'[k].ctx = LockContext(nest'[k].what)
                      /\ ~Crossing(nest'[k].thread, nest'[k].what)
                      /\ \A j \in 1 .. n + 1 : nest'[j].what = nest'[k].what => j = k
    BY <1>1, <1>5 DEF ItemsHeld, LockContext
  <2>1. k \in 1 .. n /\ nest'[k] = nest[k]
    BY <1>1, <1>2, <1>3
  <2> QED BY <1>1, <1>2, <1>3, <1>a, <2>1 DEF ItemsHeld
<1>7. HeldItems'
  <2> SUFFICES ASSUME NEW u \in Threads, NEW l \in Locks, owner[l] = u, ~Crossing(u, l)
               PROVE  \E k \in 1 .. n + 1 : nest'[k].what = l /\ nest'[k].thread = u
    BY <1>1, <1>5 DEF HeldItems
  <2> QED BY <1>1, <1>4, <1>a DEF HeldItems
<1>8. NoHandlerUnderSpinLock'
  <2> SUFFICES ASSUME NEW k \in 1 .. n + 1, nest'[k].what = "irq" PROVE nest'[k].under = {}
    BY <1>1 DEF NoHandlerUnderSpinLock
  <2> QED BY <1>1, <1>3, <1>a DEF NoHandlerUnderSpinLock
<1>9. ASSUME NEW u \in Threads \ {t}, Atomic(u)' PROVE Atomic(u)
  <2>1. \A k \in 1 .. Len(nest') :
          nest'[k].thread = u => \E j \in 1 .. n : nest[j] = nest'[k]
    BY <1>1, <1>3
  <2> QED BY <1>9, <2>1, AtomicSame DEF IsFrame
<1>10. /\ \A u \in Threads \ {t} : pc'[u] = pc[u] /\ call'[u] = call[u]
       /\ pc'[t] = "run" /\ lock_state' = lock_state
       /\ \A l \in Locks : lock_state'[l]["GENERIC_LOCK"] = 0
  BY <1>a DEF Untried
<1>11. Waiting' /\ Untried'
  BY <1>9, <1>10, <1>a, OthersWait
<1> QED BY <1>6, <1>7, <1>8, <1>11

(* Leaving a driver function.                                              *)
LEMMA FrameClosed ==
  ASSUME TypeOK, OneCPU, NEW t \in Threads, NEW k \in 1 .. Len(nest), IsFrame(nest[k]),
         nest' = Without(k), pc[t] = "run", UNCHANGED <<lock_state, owner, thread>>
  PROVE  ItemsHeld' /\ HeldItems' /\ Waiting' /\ Untried' /\ NoHandlerUnderSpinLock'
<1>1. /\ \A i \in 1 .. Len(nest') : \E j \in 1 .. Len(nest) : j # k /\ nest'[i] = nest[j]
      /\ \A j \in 1 .. Len(nest) : j # k => \E i \in 1 .. Len(nest') : nest'[i] = nest[j]
      /\ \A i, j \in 1 .. Len(nest') :
           nest'[i].what \in Locks /\ nest'[i].what = nest'[j].what => i = j
  BY ClosedItems DEF OneCPU
<1>5. \A t1, l : Crossing(t1, l)' <=> Crossing(t1, l)
  BY DEF Crossing
<1>a. ItemsHeld /\ HeldItems /\ Waiting /\ Untried /\ NoHandlerUnderSpinLock
  BY DEF OneCPU
<1>6. ItemsHeld'
  <2> SUFFICES ASSUME NEW i \in 1 .. Len(nest'), nest'[i].what \in Locks
               PROVE  /\ owner[nest'[i].what] = nest'[i].thread
                      /\ nest'[i].ctx = LockContext(nest'[i].what)
                      /\ ~Crossing(nest'[i].thread, nest'[i].what)
    BY <1>1, <1>5 DEF ItemsHeld, LockContext
  <2> QED BY <1>1, <1>a DEF ItemsHeld
<1>7. HeldItems'
  <2> SUFFICES ASSUME NEW u \in Threads, NEW l \in Locks, owner[l] = u, ~Crossing(u, l)
               PROVE  \E i \in 1 .. Len(nest') : nest'[i].what = l /\ nest'[i].thread = u
    BY <1>5 DEF HeldItems
  <2>1. PICK j \in 1 .. Len(nest) : nest[j].what = l /\ nest[j].thread = u
    BY <1>a DEF HeldItems
  <2>2. j # k
    BY <2>1, SetsAssumption DEF IsFrame
  <2> QED BY <1>1, <2>1, <2>2
<1>8. NoHandlerUnderSpinLock'
  BY <1>1, <1>a DEF NoHandlerUnderSpinLock
<1>9. ASSUME NEW u \in Threads \ {t}, Atomic(u)' PROVE Atomic(u)
  BY <1>1, <1>9, AtomicSame DEF IsFrame
<1>10. /\ \A u \in Threads \ {t} : pc'[u] = pc[u] /\ call'[u] = call[u]
       /\ pc'[t] = "run" /\ lock_state' = lock_state
       /\ \A l \in Locks : lock_state'[l]["GENERIC_LOCK"] = 0
  BY <1>a DEF Untried
<1>11. Waiting' /\ Untried'
  BY <1>9, <1>10, <1>a, OthersWait
<1> QED BY <1>6, <1>7, <1>8, <1>11

(* Every item is of a thread.                                              *)
LEMMA ItemThread ==
  ASSUME TypeOK, NEW k \in 1 .. Len(nest)
  PROVE  nest[k].thread \in Threads
<1>1. nest[k] \in Item
  BY ElementOfSeq DEF TypeOK
<1> QED BY <1>1 DEF Item

(* A thread is about to call a lock function.                              *)
LEMMA LockPreKept ==
  ASSUME TypeOK, OneCPU, NEW t \in Threads, NEW l \in Locks, NEW ty \in LockTypes,
         LockPre(t, l, ty)
  PROVE  ItemsHeld' /\ HeldItems' /\ Waiting' /\ Untried' /\ NoHandlerUnderSpinLock'
<1>1. /\ pc[t] = "run" /\ pc'[t] = "lock" /\ call'[t].lock = l /\ call'[t].type = ty
      /\ \A u \in Threads \ {t} : pc'[u] = pc[u] /\ call'[u] = call[u]
      /\ UNCHANGED <<lock_state, owner, nest>>
      /\ l \in Mutexes => ~Atomic(t)
  BY DEF LockPre, TypeOK
<1>2. ty # "GENERIC_LOCK"
  BY TypesAssumption DEF LockPre, Locks
<1>3. \A u \in Threads : \A m : Crossing(u, m)' <=> Crossing(u, m)
  BY <1>1 DEF Crossing
<1>a. ItemsHeld /\ HeldItems /\ Waiting /\ Untried /\ NoHandlerUnderSpinLock
  BY DEF OneCPU
<1>4. \A k \in 1 .. Len(nest) : nest[k].thread \in Threads
  BY ItemThread
<1>5. ItemsHeld'
  BY <1>1, <1>3, <1>4, <1>a DEF ItemsHeld, LockContext
<1>6. HeldItems' /\ NoHandlerUnderSpinLock'
  BY <1>1, <1>3, <1>a DEF HeldItems, NoHandlerUnderSpinLock
<1>7. \A u \in Threads : Atomic(u)' <=> Atomic(u)
  BY <1>1 DEF Atomic, HeldSpinLocks
<1>8. \A m \in Locks : lock_state'[m]["GENERIC_LOCK"] = 0
  BY <1>1, <1>a DEF Untried
<1>9. pc'[t] # "locked" /\ (call'[t].lock \in Mutexes => ~Atomic(t)')
  BY <1>1, <1>7
<1>10. Waiting' /\ Untried'
  BY <1>1, <1>2, <1>7, <1>8, <1>9, <1>a, OthersWait
<1> QED BY <1>5, <1>6, <1>10

(* The kernel gives the thread the lock: no check knows of it yet.         *)
LEMMA KernelLockKept ==
  ASSUME ~Interruptible, LockInv, OneCPU, NEW t \in Threads, KernelLock(t)
  PROVE  ItemsHeld' /\ HeldItems' /\ Waiting' /\ Untried' /\ NoHandlerUnderSpinLock'
<1> SUFFICES ASSUME NEW l, l = call[t].lock
             PROVE  ItemsHeld' /\ HeldItems' /\ Waiting' /\ Untried' /\ NoHandlerUnderSpinLock'
  OBVIOUS
<1>1. /\ pc[t] = "lock" /\ pc' = [pc EXCEPT ![t] = "locked"]
      /\ owner[l] = NONE /\ owner' = [owner EXCEPT ![l] = t]
      /\ UNCHANGED <<lock_state, call, nest>>
  BY DEF KernelLock
<1>t. TypeOK /\ t # NONE /\ \A u \in Threads : u # NONE
  BY SetsAssumption DEF LockInv
<1>2. l \in Locks
  BY <1>1, <1>t, CallType
<1>3. /\ pc'[t] = "locked" /\ \A u \in Threads \ {t} : pc'[u] = pc[u]
      /\ owner'[l] = t /\ \A m \in Locks \ {l} : owner'[m] = owner[m]
  BY <1>1, <1>2, <1>t DEF TypeOK
<1>a. ItemsHeld /\ HeldItems /\ Waiting /\ Untried /\ NoHandlerUnderSpinLock
  BY DEF OneCPU
<1>4. \A k \in 1 .. Len(nest) : nest[k].thread \in Threads /\ nest[k].what # l
  <2>1. \A k \in 1 .. Len(nest) : nest[k].thread \in Threads
    BY <1>t, ItemThread
  <2> QED BY <1>1, <1>2, <1>t, <1>a, <2>1 DEF ItemsHeld
<1>5. \A u \in Threads, m \in Locks \ {l} : Crossing(u, m)' <=> Crossing(u, m)
  BY <1>1, <1>3 DEF Crossing
<1>6. Crossing(t, l)'
  BY <1>1, <1>3 DEF Crossing
<1>7. ItemsHeld'
  BY <1>1, <1>3, <1>4, <1>5, <1>a DEF ItemsHeld, LockContext
<1>8. HeldItems' /\ NoHandlerUnderSpinLock'
  BY <1>1, <1>3, <1>5, <1>6, <1>a DEF HeldItems, NoHandlerUnderSpinLock
<1>9. ASSUME NEW u \in Threads \ {t}, Atomic(u)' PROVE Atomic(u)
  <2>1. \A m \in SpinLocks : owner'[m] = u => owner[m] = u
    BY <1>3 DEF Locks
  <2> QED BY <1>1, <1>9, <2>1, AtomicSame
<1>10. l \in Mutexes => ~Atomic(t)'
  <2> SUFFICES ASSUME l \in Mutexes, Atomic(t)' PROVE FALSE
    OBVIOUS
  <2>1. \A m \in SpinLocks : owner'[m] = t => owner[m] = t
    BY <1>3, SetsAssumption DEF Locks
  <2>2. Atomic(t)
    BY <1>1, <2>1, AtomicSame
  <2> QED BY <1>1, <1>a, <2>2 DEF Waiting
<1>11. \A ty \in LockTypes : lock_state[l][ty] = 0
  BY <1>1, <1>2 DEF LockInv, Tracked, verify_lock_state
<1>12. /\ \A u \in Threads \ {t} : pc'[u] = pc[u] /\ call'[u] = call[u]
       /\ lock_state' = lock_state /\ call'[t].lock = l /\ call'[t].type # "GENERIC_LOCK"
       /\ \A m \in Locks : lock_state'[m]["GENERIC_LOCK"] = 0
  BY <1>1, <1>3, <1>a DEF Untried
<1>13. Waiting' /\ Untried'
  <2>1. pc'[t] = "locked" /\ pc'[t] \in {"run", "lock", "locked", "unlock"}
    BY <1>3
  <2>2. \A ty \in LockTypes : lock_state'[call'[t].lock][ty] = 0
    BY <1>11, <1>12
  <2> QED BY <1>9, <1>10, <1>12, <1>a, <1>t, <2>1, <2>2, OthersWait
<1> QED BY <1>7, <1>8, <1>13

(* The check after a lock function records the lock.                       *)
LEMMA LockPostKept ==
  ASSUME LockInv, OneCPU, NEW t \in Threads, LockPost(t),
         ~Kill("assert"), ~Kill("blocking")
  PROVE  ItemsHeld' /\ HeldItems' /\ Waiting' /\ Untried' /\ NoHandlerUnderSpinLock'
<1> SUFFICES ASSUME NEW l, l = call[t].lock, NEW ty, ty = call[t].type
             PROVE  ItemsHeld' /\ HeldItems' /\ Waiting' /\ Untried' /\ NoHandlerUnderSpinLock'
  OBVIOUS
<1> DEFINE n == Len(nest)
           after(u, m) == pc'[u] \in {"locked", "unlock"} /\ call'[u].lock = m
           st == [lock_state[l] EXCEPT ![ty] = @ + 1]
<1>t. TypeOK /\ t # NONE
  BY SetsAssumption DEF LockInv
<1>1. /\ pc[t] = "locked" /\ pc' = [pc EXCEPT ![t] = "run"]
      /\ call' = [call EXCEPT ![t] = NONE]
      /\ lock_state' = [lock_state EXCEPT ![l] = st]
      /\ IF owner[l] = t THEN Opened(t, l, LockContext(l)) ELSE UNCHANGED nest
      /\ UNCHANGED owner
  BY DEF LockPost
<1>2. l \in Locks /\ ty \in LockTypes /\ owner[l] = t
  BY <1>1, <1>t, CallType DEF LockInv, Ownership
<1>3. /\ pc'[t] = "run" /\ \A u \in Threads \ {t} : pc'[u] = pc[u] /\ call'[u] = call[u]
      /\ \A m \in Locks \ {l} : lock_state'[m] = lock_state[m]
      /\ lock_state'[l] = st
  BY <1>1, <1>2, <1>t DEF TypeOK
<1>a. ItemsHeld /\ HeldItems /\ Waiting /\ Untried /\ NoHandlerUnderSpinLock
  BY DEF OneCPU
<1>4. LockContext(l) \in Contexts
  BY DEF LockContext, Contexts, BLOCKING_YES, BLOCKING_NO
<1>5. /\ n \in Nat /\ Len(nest') = n + 1
      /\ \A k \in 1 .. n : nest'[k] = nest[k]
      /\ nest'[n + 1].what = l /\ nest'[n + 1].thread = t
      /\ nest'[n + 1].ctx = LockContext(l)
  BY <1>1, <1>2, <1>4, <1>t, OpenedItem
<1>6. Crossing(t, l) /\ l # "irq" /\ ~IsFrame([what |-> l])
  BY <1>1, <1>2, SetsAssumption DEF Crossing, IsFrame
<1>7. \A k \in 1 .. n : nest[k].what # l /\ nest[k].thread \in Threads
  <2>1. \A k \in 1 .. n : nest[k].thread \in Threads
    BY <1>t, ItemThread
  <2> QED BY <1>2, <1>6, <1>a, <2>1 DEF ItemsHeld
<1>8. /\ \A m : ~after(t, m)
      /\ \A m : Crossing(t, m) => m = l
      /\ \A u \in Threads \ {t} : \A m : after(u, m) <=> Crossing(u, m)
  BY <1>1, <1>3 DEF Crossing
<1>9. /\ \A k \in 1 .. n + 1 : k = n + 1 \/ k \in 1 .. n
      /\ \A k \in 1 .. n : k \in 1 .. n + 1 /\ k # n + 1
      /\ n + 1 \in 1 .. n + 1
  BY <1>5
<1>10. ItemsHeld'
  <2> SUFFICES ASSUME NEW k \in 1 .. n + 1, nest'[k].what \in Locks
               PROVE  /\ owner'[nest'[k].what] = nest'[k].thread
                      /\ nest'[k].ctx = LockContext(nest'[k].what)
                      /\ ~after(nest'[k].thread, nest'[k].what)
                      /\ \A j \in 1 .. n + 1 : nest'[j].what = nest'[k].what => j = k
    BY <1>5 DEF ItemsHeld, LockContext, Crossing
  <2>1. CASE k = n + 1
    <3>1. \A j \in 1 .. n : nest'[j].what # l
      BY <1>5, <1>7
    <3> QED BY <1>1, <1>2, <1>5, <1>8, <1>9, <2>1, <3>1
  <2>2. CASE k # n + 1
    <3>1. k \in 1 .. n /\ nest'[k] = nest[k]
      BY <1>5, <1>9, <2>2
    <3>2. /\ owner[nest[k].what] = nest[k].thread
          /\ nest[k].ctx = LockContext(nest[k].what)
          /\ ~Crossing(nest[k].thread, nest[k].what)
          /\ \A j \in 1 .. n : nest[j].what = nest[k].what => j = k
      BY <1>a, <3>1 DEF ItemsHeld
    <3>3. ~after(nest[k].thread, nest[k].what)
      BY <1>7, <1>8, <3>1, <3>2
    <3>4. \A j \in 1 .. n + 1 : nest'[j].what = nest'[k].what => j = k
      BY <1>5, <1>7, <1>9, <3>1, <3>2
    <3> QED BY <1>1, <3>1, <3>2, <3>3, <3>4
  <2> QED BY <2>1, <2>2
<1>11. HeldItems'
  <2> SUFFICES ASSUME NEW u \in Threads, NEW m \in Locks, owner[m] = u, ~after(u, m)
               PROVE  \E k \in 1 .. n + 1 : nest'[k].what = m /\ nest'[k].thread = u
    BY <1>1, <1>5 DEF HeldItems, Crossing
  <2>1. CASE m = l
    BY <1>2, <1>5, <1>9, <2>1
  <2>2. CASE m # l
    <3>1. ~Crossing(u, m)
      BY <1>8, <2>2
    <3>2. PICK k \in 1 .. n : nest[k].what = m /\ nest[k].thread = u
      BY <1>a, <3>1 DEF HeldItems
    <3> QED BY <1>5, <1>9, <3>2
  <2> QED BY <2>1, <2>2
<1>12. NoHandlerUnderSpinLock'
  <2> SUFFICES ASSUME NEW k \in 1 .. n + 1, nest'[k].what = "irq" PROVE nest'[k].under = {}
    BY <1>5 DEF NoHandlerUnderSpinLock
  <2> QED BY <1>5, <1>6, <1>9, <1>a DEF NoHandlerUnderSpinLock
<1>13. ASSUME NEW u \in Threads \ {t}, Atomic(u)' PROVE Atomic(u)
  <2>1. \A k \in 1 .. Len(nest') :
          nest'[k].thread = u => \E j \in 1 .. n : nest[j] = nest'[k]
    BY <1>5, <1>9
  <2> QED BY <1>1, <1>13, <2>1, AtomicSame DEF IsFrame
<1>14. \A m \in Locks : lock_state'[m]["GENERIC_LOCK"] = 0
  <2>1. ty # "GENERIC_LOCK"
    BY <1>1, <1>a DEF Untried
  <2>2. st["GENERIC_LOCK"] = lock_state[l]["GENERIC_LOCK"]
    <3>1. lock_state[l] \in [LockTypes -> Int] /\ "GENERIC_LOCK" \in LockTypes
      BY <1>2, <1>t DEF TypeOK, LockTypes
    <3> QED BY <2>1, <3>1
  <2>3. \A m \in Locks : lock_state[m]["GENERIC_LOCK"] = 0
    BY <1>a DEF Untried
  <2> HIDE DEF st
  <2> QED BY <1>2, <1>3, <2>2, <2>3
<1>15. \A u \in Threads \ {t} : pc[u] = "locked" =>
          lock_state'[call[u].lock] = lock_state[call[u].lock]
  <2> SUFFICES ASSUME NEW u \in Threads \ {t}, pc[u] = "locked"
               PROVE  call[u].lock \in Locks \ {l}
    BY <1>3
  <2> QED BY <1>2, <1>t, CallType DEF LockInv, Ownership
<1>16. Waiting' /\ Untried'
  BY <1>3, <1>13, <1>14, <1>15, <1>a, <1>t, OthersWait
<1> QED BY <1>10, <1>11, <1>12, <1>16

(* The check before an unlock function drops the item and the state.       *)
LEMMA UnlockPreKept ==
  ASSUME LockInv, OneCPU, NEW t \in Threads, NEW l \in Locks, NEW ty \in LockTypes,
         UnlockPre(t, l, ty), ~Kill("assert")
  PROVE  /\ ItemsHeld' /\ HeldItems' /\ Waiting' /\ Untried' /\ NoHandlerUnderSpinLock'
         /\ Lifo => \E k \in 1 .. Len(nest) : IsNewest(t, k) /\ nest' = Without(k)
<1>t. TypeOK /\ t # NONE
  BY SetsAssumption DEF LockInv
<1>a. ItemsHeld /\ HeldItems /\ Waiting /\ Untried /\ NoHandlerUnderSpinLock
  BY DEF OneCPU
<1>g. lock_state[l]["GENERIC_LOCK"] # 1
  BY <1>a DEF Untried
<1> DEFINE after(u, m) == pc'[u] \in {"locked", "unlock"} /\ call'[u].lock = m
           st == [lock_state[l] EXCEPT ![ty] = @ - 1]
<1>1. /\ pc[t] = "run" /\ pc' = [pc EXCEPT ![t] = "unlock"]
      /\ call' = [call EXCEPT ![t] = [lock |-> l, type |-> ty]]
      /\ lock_state' = [lock_state EXCEPT ![l] = st]
      /\ MayUnlock(t, l, ty)
      /\ UNCHANGED owner
  BY <1>g DEF UnlockPre
<1>2. PICK k \in 1 .. Len(nest) :
        nest[k].what = l /\ nest' = Without(k) /\ (Lifo => IsNewest(t, k))
  BY <1>g DEF UnlockPre, ItemOf
<1>3. owner[l] = t /\ ty # "GENERIC_LOCK"
  BY <1>1, <1>g DEF MayUnlock
<1>4. /\ pc'[t] = "unlock" /\ call'[t].lock = l
      /\ \A u \in Threads \ {t} : pc'[u] = pc[u] /\ call'[u] = call[u]
      /\ \A m \in Locks \ {l} : lock_state'[m] = lock_state[m]
      /\ lock_state'[l] = st
  BY <1>1, <1>t DEF TypeOK
<1>5. /\ \A i \in 1 .. Len(nest') : \E j \in 1 .. Len(nest) : j # k /\ nest'[i] = nest[j]
      /\ \A j \in 1 .. Len(nest) : j # k => \E i \in 1 .. Len(nest') : nest'[i] = nest[j]
      /\ \A i, j \in 1 .. Len(nest') :
           nest'[i].what \in Locks /\ nest'[i].what = nest'[j].what => i = j
  BY <1>2, <1>a, <1>t, ClosedItems
<1>6. /\ \A m : after(t, m) <=> m = l
      /\ \A m : ~Crossing(t, m)
      /\ \A u \in Threads \ {t} : \A m : after(u, m) <=> Crossing(u, m)
  BY <1>1, <1>4 DEF Crossing
<1>7. \A j \in 1 .. Len(nest) : nest[j].thread \in Threads /\ (j # k => nest[j].what # l)
  <2>1. \A j \in 1 .. Len(nest) : nest[j].thread \in Threads
    BY <1>t, ItemThread
  <2> QED BY <1>2, <1>a, <2>1 DEF ItemsHeld
<1>8. ItemsHeld'
  <2> SUFFICES ASSUME NEW i \in 1 .. Len(nest'), nest'[i].what \in Locks
               PROVE  /\ owner'[nest'[i].what] = nest'[i].thread
                      /\ nest'[i].ctx = LockContext(nest'[i].what)
                      /\ ~after(nest'[i].thread, nest'[i].what)
    BY <1>5 DEF ItemsHeld, LockContext, Crossing
  <2>1. PICK j \in 1 .. Len(nest) : j # k /\ nest'[i] = nest[j]
    BY <1>5
  <2>2. nest[j].thread \in Threads /\ nest[j].what # l
    BY <1>7, <2>1
  <2>3. /\ owner[nest[j].what] = nest[j].thread
        /\ nest[j].ctx = LockContext(nest[j].what)
        /\ ~Crossing(nest[j].thread, nest[j].what)
    BY <1>a, <2>1 DEF ItemsHeld
  <2>4. ~after(nest[j].thread, nest[j].what)
    BY <1>6, <2>1, <2>2, <2>3
  <2> QED BY <1>1, <2>1, <2>3, <2>4
<1>9. HeldItems'
  <2> SUFFICES ASSUME NEW u \in Threads, NEW m \in Locks, owner[m] = u, ~after(u, m)
               PROVE  \E i \in 1 .. Len(nest') : nest'[i].what = m /\ nest'[i].thread = u
    BY <1>1 DEF HeldItems, Crossing
  <2>1. m # l
    BY <1>3, <1>6
  <2>2. ~Crossing(u, m)
    BY <1>6, <2>1
  <2>3. PICK j \in 1 .. Len(nest) : nest[j].what = m /\ nest[j].thread = u
    BY <1>a, <2>2 DEF HeldItems
  <2>4. j # k
    BY <1>2, <2>1, <2>3
  <2> QED BY <1>5, <2>3, <2>4
<1>10. NoHandlerUnderSpinLock'
  BY <1>5, <1>a DEF NoHandlerUnderSpinLock
<1>11. ASSUME NEW u \in Threads \ {t}, Atomic(u)' PROVE Atomic(u)
  <2>1. \A m \in SpinLocks : owner'[m] = u => owner[m] = u
    BY <1>1
  <2>2. \A i \in 1 .. Len(nest') : \E j \in 1 .. Len(nest) : nest'[i] = nest[j]
    BY <1>5
  <2> QED BY <1>11, <2>1, <2>2, AtomicSame DEF IsFrame
<1>12. \A m \in Locks : lock_state'[m]["GENERIC_LOCK"] = 0
  <2>1. st["GENERIC_LOCK"] = lock_state[l]["GENERIC_LOCK"]
    <3>1. lock_state[l] \in [LockTypes -> Int] /\ "GENERIC_LOCK" \in LockTypes
      BY <1>t DEF TypeOK, LockTypes
    <3> QED BY <1>3, <3>1
  <2>2. \A m \in Locks : lock_state[m]["GENERIC_LOCK"] = 0
    BY <1>a DEF Untried
  <2> HIDE DEF st
  <2> QED BY <1>4, <2>1, <2>2
<1>13. \A u \in Threads \ {t} : pc[u] = "locked" =>
          lock_state'[call[u].lock] = lock_state[call[u].lock]
  <2> SUFFICES ASSUME NEW u \in Threads \ {t}, pc[u] = "locked"
               PROVE  call[u].lock \in Locks \ {l}
    BY <1>4
  <2> QED BY <1>3, <1>t, CallType DEF LockInv, Ownership
<1>14. Waiting' /\ Untried'
  BY <1>4, <1>11, <1>12, <1>13, <1>a, <1>t, OthersWait
<1> QED BY <1>2, <1>8, <1>9, <1>10, <1>14

(* The kernel takes the lock back.                                         *)
LEMMA KernelUnlockKept ==
  ASSUME LockInv, OneCPU, NEW t \in Threads, KernelUnlock(t)
  PROVE  ItemsHeld' /\ HeldItems' /\ Waiting' /\ Untried' /\ NoHandlerUnderSpinLock'
<1> SUFFICES ASSUME NEW l, l = call[t].lock
             PROVE  ItemsHeld' /\ HeldItems' /\ Waiting' /\ Untried' /\ NoHandlerUnderSpinLock'
  OBVIOUS
<1>1. /\ pc[t] = "unlock" /\ pc' = [pc EXCEPT ![t] = "run"]
      /\ call' = [call EXCEPT ![t] = NONE]
      /\ owner' = [owner EXCEPT ![l] = NONE]
      /\ UNCHANGED <<lock_state, nest>>
  BY DEF KernelUnlock
<1>t. TypeOK /\ \A u \in Threads : u # NONE
  BY SetsAssumption DEF LockInv
<1>a. ItemsHeld /\ HeldItems /\ Waiting /\ Untried /\ NoHandlerUnderSpinLock
  BY DEF OneCPU
<1>2. l \in Locks /\ owner[l] = t /\ Crossing(t, l)
  BY <1>1, <1>t, CallType DEF LockInv, Ownership, Crossing
<1>3. /\ pc'[t] = "run" /\ \A u \in Threads \ {t} : pc'[u] = pc[u] /\ call'[u] = call[u]
      /\ owner'[l] = NONE /\ \A m \in Locks \ {l} : owner'[m] = owner[m]
  BY <1>1, <1>2, <1>t DEF TypeOK
<1>4. \A k \in 1 .. Len(nest) : nest[k].thread \in Threads /\ nest[k].what # l
  <2>1. \A k \in 1 .. Len(nest) : nest[k].thread \in Threads
    BY <1>t, ItemThread
  <2> QED BY <1>2, <1>a, <2>1 DEF ItemsHeld
<1>5. /\ \A m : ~Crossing(t, m)'
      /\ \A m : Crossing(t, m) => m = l
      /\ \A u \in Threads \ {t} : \A m : Crossing(u, m)' <=> Crossing(u, m)
  BY <1>1, <1>3 DEF Crossing
<1>6. ItemsHeld'
  BY <1>1, <1>3, <1>4, <1>5, <1>a DEF ItemsHeld, LockContext
<1>7. HeldItems'
  <2> SUFFICES ASSUME NEW u \in Threads, NEW m \in Locks, owner'[m] = u, ~Crossing(u, m)'
               PROVE  \E k \in 1 .. Len(nest) : nest[k].what = m /\ nest[k].thread = u
    BY <1>1 DEF HeldItems
  <2>1. m # l /\ owner[m] = u
    BY <1>3, <1>t
  <2>2. ~Crossing(u, m)
    BY <1>5, <2>1
  <2> QED BY <1>a, <2>1, <2>2 DEF HeldItems
<1>8. NoHandlerUnderSpinLock'
  BY <1>1, <1>a DEF NoHandlerUnderSpinLock
<1>9. ASSUME NEW u \in Threads \ {t}, Atomic(u)' PROVE Atomic(u)
  <2>1. \A m \in SpinLocks : owner'[m] = u => owner[m] = u
    BY <1>3, <1>t DEF Locks
  <2> QED BY <1>1, <1>9, <2>1, AtomicSame
<1>10. \A m \in Locks : lock_state'[m]["GENERIC_LOCK"] = 0
  BY <1>1, <1>a DEF Untried
<1>11. Waiting' /\ Untried'
  BY <1>1, <1>3, <1>9, <1>10, <1>a, <1>t, OthersWait
<1> QED BY <1>6, <1>7, <1>8, <1>11

-----------------------------------------------------------------------------
(* No check stops the driver.                                              *)

(* A function that returns finds its contexts on the stacks.               *)
LEMMA LeavePops ==
  ASSUME TypeOK, OneCPU, NEW t \in Threads, LeaveFunction(t)
  PROVE  /\ UNCHANGED <<blocking_context, lock_state, owner, thread, path>>
         /\ \E k \in 1 .. Len(nest) : IsNewest(t, k) /\ IsFrame(nest[k]) /\ nest' = Without(k)
<1>1. PICK k \in 1 .. Len(nest) :
        /\ IsNewest(t, k) /\ IsFrame(nest[k])
        /\ \/ blocking_context_current <= 0
           \/ nest[k].what # "poll" /\ user_context_current <= 0
           \/ /\ nest' = Without(k)
              /\ UNCHANGED <<blocking_context, lock_state, owner, thread, path>>
  BY DEF LeaveFunction
<1>2. ~(blocking_context_current <= 0)
  <2> SUFFICES ASSUME NEW n, n = Len(nest) PROVE ~(n <= 0)
    BY DEF OneCPU
  <2>1. n \in Nat /\ k \in 1 .. n
    BY LenProperties DEF TypeOK
  <2> QED BY <2>1
<1>3. nest[k].what # "poll" => ~(user_context_current <= 0)
  <2> SUFFICES ASSUME nest[k].what # "poll", NEW c, c = Cardinality(Frames) PROVE ~(c <= 0)
    BY DEF OneCPU
  <2>1. k \in Frames
    BY <1>1 DEF Frames, IsFrame
  <2>2. c \in Nat /\ c # 0
    BY <2>1, FramesFinite, FS_EmptySet
  <2> QED BY <2>2
<1> QED BY <1>1, <1>2, <1>3

(* mem_flags_test agrees with the kernel.                                  *)
LEMMA FlagsAgree ==
  ASSUME ~SMP, TypeOK, OneCPU, NEW t \in Threads
  PROVE  ~mem_flags_test(t)
<1> SUFFICES ASSUME mem_flags_test(t) PROVE FALSE
  OBVIOUS
<1>1. pc[t] = "run" /\ CanRun(t) /\ ~MemFlagsAgree(t)
  BY DEF mem_flags_test
<1>2. /\ kernel_blocking_state = BLOCKING_NO <=> Atomic(t)
      /\ MayBlock <=> ~Atomic(t)
  BY <1>1, RunningTells
<1> QED BY <1>1, <1>2 DEF MemFlagsAgree

(* A thread that waits for a mutex may sleep, and the framework knows it:  *)
(* nobody else can have forbidden it.                                      *)
LEMMA NoBlockWhileWaiting ==
  ASSUME ~SMP, TypeOK, OneCPU, NEW t \in Threads, CanRun(t), ~Atomic(t)
  PROVE  MayBlock /\ \A k \in 1 .. Len(nest) : nest[k].ctx # BLOCKING_NO
<1>1. \A k \in 1 .. Len(nest) : nest[k].ctx # BLOCKING_NO
  BY ItemAtomic, OthersSleep DEF OneCPU
<1> QED BY <1>1, TopTells DEF OneCPU

(* The check after a lock function passes.                                 *)
LEMMA LockPostPasses ==
  ASSUME ~SMP, LockInv, OneCPU, NEW t \in Threads, LockPost(t)
  PROVE  ~Kill("assert") /\ ~Kill("blocking")
<1>t. TypeOK
  BY DEF LockInv
<1> SUFFICES ASSUME NEW l, l = call[t].lock, NEW ty, ty = call[t].type
             PROVE  ~Kill("assert") /\ ~Kill("blocking")
  OBVIOUS
<1> DEFINE st == [lock_state[l] EXCEPT ![ty] = @ + 1]
<1>1. pc[t] = "locked" /\ CanRun(t)
  BY DEF LockPost
<1>2. l \in Locks /\ ty \in LockTypes
  BY <1>1, <1>t, CallType
<1>3. lock_state[l] \in [LockTypes -> Int] /\ \A a \in LockTypes : lock_state[l][a] = 0
  BY <1>1, <1>2, <1>t DEF OneCPU, Waiting, TypeOK
<1>4. \A a \in LockTypes : st[a] = IF a = ty THEN 1 ELSE 0
  BY <1>2, <1>3
<1>5. st[ty] = 1 /\ verify_lock_state(st)
  <2> HIDE DEF st
  <2> QED BY <1>2, <1>4 DEF verify_lock_state
<1>6. l \in Mutexes => MayBlock
  <2> SUFFICES ASSUME l \in Mutexes PROVE MayBlock
    OBVIOUS
  <2>1. ~Atomic(t)
    BY <1>1 DEF OneCPU, Waiting
  <2> QED BY <1>1, <1>t, <2>1, NoBlockWhileWaiting
<1>7. path' = path
  <2> HIDE DEF st
  <2>1. \/ ~(st[ty] = 1 /\ verify_lock_state(st))
        \/ l \in Mutexes /\ ~MayBlock
        \/ path' = path
    BY DEF LockPost, st
  <2> QED BY <1>5, <1>6, <2>1
<1> QED BY <1>7 DEF OneCPU, Kill

(* The check before an unlock function passes.                             *)
LEMMA UnlockPrePasses ==
  ASSUME LockInv, OneCPU, NEW t \in Threads, NEW l \in Locks, NEW ty \in LockTypes,
         UnlockPre(t, l, ty)
  PROVE  ~Kill("assert")
<1>t. TypeOK /\ verify_lock_state(lock_state[l])
  BY DEF LockInv, Tracked
<1> DEFINE st == [lock_state[l] EXCEPT ![ty] = @ - 1]
<1>1. lock_state[l]["GENERIC_LOCK"] = 0
  BY DEF OneCPU, Untried
<1>2. pc[t] = "run" /\ MayUnlock(t, l, ty)
  BY DEF UnlockPre
<1>3. lock_state[l] \in [LockTypes -> Int] /\ lock_state[l][ty] = 1 /\ owner[l] = t
  BY <1>1, <1>2, <1>t DEF MayUnlock, TypeOK
<1>4. \A a \in LockTypes : st[a] = IF a = ty THEN 0 ELSE lock_state[l][a]
  BY <1>3
<1>5. st[ty] = 0 /\ verify_lock_state(st)
  <2> HIDE DEF st
  <2> QED BY <1>4, <1>t DEF verify_lock_state
<1>6. ~(blocking_context_current <= 0)
  <2>1. ~Crossing(t, l)
    BY <1>2 DEF Crossing
  <2>2. PICK k \in 1 .. Len(nest) : nest[k].what = l
    BY <1>3, <2>1 DEF OneCPU, HeldItems
  <2> SUFFICES ASSUME NEW n, n = Len(nest) PROVE ~(n <= 0)
    BY DEF OneCPU
  <2>3. n \in Nat /\ k \in 1 .. n
    BY <1>t, LenProperties DEF TypeOK
  <2> QED BY <2>3
<1>7. path' = path
  <2> HIDE DEF st
  <2>1. \/ ~(st[ty] = 0 /\ verify_lock_state(st))
        \/ blocking_context_current <= 0
        \/ path' = path
    BY <1>1 DEF UnlockPre, st
  <2> QED BY <1>5, <1>6, <2>1
<1> QED BY <1>7 DEF OneCPU, Kill

-----------------------------------------------------------------------------
(* Every step of one CPU keeps the invariant.                              *)

(* A step that leaves locks, threads and nest alone.                       *)
LEMMA OneCPUAlone ==
  ASSUME OneCPU,
         UNCHANGED <<blocking_context, blocking_context_current, user_context_current,
                     lock_state, owner, thread, nest, path>>
  PROVE  OneCPU'
<1>1. NoBlockOnTop' /\ StackTells' /\ NoHandlerUnderSpinLock'
  BY DEF OneCPU, NoBlockOnTop, StackTells, NoHandlerUnderSpinLock
<1>2. ItemsHeld' /\ HeldItems'
  BY DEF OneCPU, ItemsHeld, HeldItems, Crossing, LockContext
<1>3. Untried' /\ Waiting'
  BY DEF OneCPU, Untried, Waiting, Atomic, HeldSpinLocks
<1>4. Frames' = Frames
  BY DEF Frames
<1> QED BY <1>1, <1>2, <1>3, <1>4 DEF OneCPU

(* A step that does not touch the stack of contexts.                       *)
LEMMA StackAlone ==
  ASSUME OneCPU, UNCHANGED <<blocking_context, nest>>
  PROVE  NoBlockOnTop' /\ StackTells'
  BY DEF OneCPU, NoBlockOnTop, StackTells

(* A driver function is entered.                                           *)
LEMMA EnterKept ==
  ASSUME ~SMP, TypeOK, OneCPU, NEW t \in Threads, NEW what \in {"entry", "poll", "irq"},
         NEW b \in Contexts, pc[t] = "run", CanRun(t), b # BLOCKING_NO => ~Atomic(t),
         what = "irq" => HeldSpinLocks(t) = {},
         push_blocking_state(b), Opened(t, what, b), Len(nest') < MAX_NESTING,
         UNCHANGED <<lock_state, owner, thread>>
  PROVE  /\ NoBlockOnTop' /\ StackTells'
         /\ ItemsHeld' /\ HeldItems' /\ Waiting' /\ Untried' /\ NoHandlerUnderSpinLock'
<1>1. \A k \in 1 .. Len(nest) : nest[k].ctx = BLOCKING_NO =>
        nest[k].thread = t /\ b = BLOCKING_NO
  BY OthersSleep, NoBlockWhileWaiting DEF OneCPU
<1>2. NoBlockOnTop' /\ StackTells'
  BY <1>1, PushStack DEF OneCPU
<1>3. ItemsHeld' /\ HeldItems' /\ Waiting' /\ Untried' /\ NoHandlerUnderSpinLock'
  BY FrameOpened
<1> QED BY <1>2, <1>3

(* Every step of one CPU keeps the invariant; the counts come from         *)
(* BlockingBalanced and UserBalanced.                                      *)
LEMMA NextOneCPU ==
  ASSUME OneCPUDriver, LockInv, OneCPU, NestingLimited', [Next]_vars
  PROVE  OneCPU'
<1>t. TypeOK /\ ~SMP /\ Lifo /\ ~Trylocks /\ ~Interruptible
  BY DEF LockInv, OneCPUDriver
<1>1. CASE UNCHANGED vars
  BY <1>1, OneCPUAlone DEF vars
<1>2. ASSUME NEW t \in Threads, ThreadNext(t) PROVE OneCPU'
  <2>a. BlockingBalanced' /\ UserBalanced'
    <3>1. BlockingBalanced /\ UserBalanced
      BY DEF OneCPU, BlockingBalanced, UserBalanced
    <3> QED BY <1>t, <3>1, NextBalanced, NextUser
  <2>b. \A what \in {"entry", "poll", "irq"} : what \in Locks \cup {"entry", "poll", "irq"}
    OBVIOUS
  <2>c. BLOCKING_NO \in Contexts
    BY DEF BLOCKING_NO, Contexts
  <2>d. ASSUME path' = path PROVE path' = "running" /\ Len(nest') < MAX_NESTING
    BY <2>d DEF OneCPU, NestingLimited
  <2>q. ASSUME path' = path, NoBlockOnTop', StackTells',
               ItemsHeld', HeldItems', Waiting', Untried', NoHandlerUnderSpinLock'
        PROVE  OneCPU'
    BY <2>a, <2>d, <2>q DEF OneCPU, BlockingBalanced, UserBalanced
  <2>1. CASE \E c \in EntryContexts : EntryFunction(t, c[1], c[2])
    <3>1. PICK c \in EntryContexts : EntryFunction(t, c[1], c[2])
      BY <2>1
    <3>2. c[1] \in Contexts
      BY TypesAssumption
    <3>3. /\ pc[t] = "run" /\ CanRun(t) /\ (c[1] # BLOCKING_NO => ~Atomic(t))
          /\ push_blocking_state(c[1]) /\ Opened(t, "entry", c[1])
          /\ UNCHANGED <<lock_state, owner, thread, path>>
      BY <3>1 DEF EntryFunction
    <3>4. /\ NoBlockOnTop' /\ StackTells'
          /\ ItemsHeld' /\ HeldItems' /\ Waiting' /\ Untried' /\ NoHandlerUnderSpinLock'
      BY <1>t, <2>d, <3>2, <3>3, EnterKept
    <3> QED BY <2>q, <3>3, <3>4
  <2>2. CASE PollFunction(t)
    <3>3. /\ pc[t] = "run" /\ CanRun(t)
          /\ push_blocking_state(BLOCKING_NO) /\ Opened(t, "poll", BLOCKING_NO)
          /\ UNCHANGED <<lock_state, owner, thread, path>>
      BY <2>2 DEF PollFunction
    <3>4. /\ NoBlockOnTop' /\ StackTells'
          /\ ItemsHeld' /\ HeldItems' /\ Waiting' /\ Untried' /\ NoHandlerUnderSpinLock'
      BY <1>t, <2>c, <2>d, <3>3, EnterKept
    <3> QED BY <2>q, <3>3, <3>4
  <2>3. CASE InterruptHandler(t)
    <3>3. /\ pc[t] = "run" /\ CanRun(t) /\ MayBlock
          /\ push_blocking_state(BLOCKING_NO) /\ Opened(t, "irq", BLOCKING_NO)
          /\ UNCHANGED <<lock_state, owner, thread, path>>
      BY <2>3 DEF InterruptHandler, can_call_interrupt_handlers
    <3>1. HeldSpinLocks(t) = {}
      <4>1. ~Atomic(t)
        BY <1>t, <3>3, RunningTells
      <4> QED BY <4>1 DEF Atomic
    <3>4. /\ NoBlockOnTop' /\ StackTells'
          /\ ItemsHeld' /\ HeldItems' /\ Waiting' /\ Untried' /\ NoHandlerUnderSpinLock'
      BY <1>t, <2>c, <2>d, <3>1, <3>3, EnterKept
    <3> QED BY <2>q, <3>3, <3>4
  <2>4. CASE LeaveFunction(t)
    <3>1. /\ UNCHANGED <<blocking_context, lock_state, owner, thread, path>>
          /\ pc[t] = "run" /\ CanRun(t)
      BY <1>t, <2>4, LeavePops DEF LeaveFunction
    <3>2. PICK k \in 1 .. Len(nest) : IsNewest(t, k) /\ IsFrame(nest[k]) /\ nest' = Without(k)
      BY <1>t, <2>4, LeavePops
    <3>3. NoBlockOnTop' /\ StackTells'
      BY <1>t, <3>1, <3>2, OthersSleep, PopStack DEF OneCPU
    <3>4. ItemsHeld' /\ HeldItems' /\ Waiting' /\ Untried' /\ NoHandlerUnderSpinLock'
      BY <1>t, <3>1, <3>2, FrameClosed
    <3> QED BY <2>q, <3>1, <3>3, <3>4
  <2>5. CASE set_device_interrupts(t)
    BY <2>5, OneCPUAlone DEF set_device_interrupts
  <2>6. CASE mem_flags_test(t)
    BY <1>t, <2>6, FlagsAgree
  <2>7. CASE \E l \in Locks : generic_lock_allocator(t, l)
    BY <2>7, OneCPUAlone DEF generic_lock_allocator
  <2>8. CASE \E l \in Locks, ty \in LockTypes : LockPre(t, l, ty)
    <3>1. PICK l \in Locks, ty \in LockTypes : LockPre(t, l, ty)
      BY <2>8
    <3>2. UNCHANGED <<blocking_context, nest, path>>
      BY <3>1 DEF LockPre
    <3> QED BY <1>t, <2>q, <3>1, <3>2, StackAlone, LockPreKept
  <2>9. CASE KernelLock(t)
    <3>2. UNCHANGED <<blocking_context, nest, path>>
      BY <2>9 DEF KernelLock
    <3> QED BY <1>t, <2>9, <2>q, <3>2, StackAlone, KernelLockKept
  <2>10. CASE LockPost(t)
    <3> SUFFICES ASSUME NEW l, l = call[t].lock PROVE OneCPU'
      OBVIOUS
    <3>1. ~Kill("assert") /\ ~Kill("blocking")
      BY <1>t, <2>10, LockPostPasses
    <3>2. /\ pc[t] = "locked" /\ CanRun(t)
          /\ push_blocking_state(LockContext(l))
          /\ IF owner[l] = t THEN Opened(t, l, LockContext(l)) ELSE UNCHANGED nest
          /\ UNCHANGED path
      BY <2>10, <3>1 DEF LockPost
    <3>3. l \in Locks /\ Opened(t, l, LockContext(l))
      BY <1>t, <3>2, CallType DEF LockInv, Ownership
    <3>4. LockContext(l) \in Contexts /\ (LockContext(l) # BLOCKING_NO => l \in Mutexes)
      BY DEF LockContext, Contexts, BLOCKING_YES, BLOCKING_NO
    <3>5. LockContext(l) # BLOCKING_NO => ~Atomic(t)
      BY <3>2, <3>4 DEF OneCPU, Waiting
    <3>6. \A k \in 1 .. Len(nest) : nest[k].ctx = BLOCKING_NO =>
            nest[k].thread = t /\ LockContext(l) = BLOCKING_NO
      BY <1>t, <3>2, <3>5, OthersSleep, NoBlockWhileWaiting DEF OneCPU
    <3>7. NoBlockOnTop' /\ StackTells'
      BY <1>t, <2>d, <3>2, <3>3, <3>4, <3>6, PushStack DEF OneCPU
    <3>8. ItemsHeld' /\ HeldItems' /\ Waiting' /\ Untried' /\ NoHandlerUnderSpinLock'
      BY <2>10, <3>1, LockPostKept
    <3> QED BY <2>q, <3>2, <3>7, <3>8
  <2>11. CASE \E l \in SpinLocks : KernelTrylock(t, l)
    BY <1>t, <2>11 DEF KernelTrylock
  <2>12. CASE TrylockPost(t)
    BY <2>12 DEF TrylockPost, OneCPU, Untried
  <2>13. CASE \E l \in Locks, ty \in LockTypes : UnlockPre(t, l, ty)
    <3>1. PICK l \in Locks, ty \in LockTypes : UnlockPre(t, l, ty)
      BY <2>13
    <3>2. ~Kill("assert")
      BY <3>1, UnlockPrePasses
    <3>3. CanRun(t) /\ UNCHANGED <<blocking_context, path>>
      BY <3>1, <3>2 DEF UnlockPre
    <3>4. /\ ItemsHeld' /\ HeldItems' /\ Waiting' /\ Untried' /\ NoHandlerUnderSpinLock'
          /\ \E k \in 1 .. Len(nest) : IsNewest(t, k) /\ nest' = Without(k)
      BY <1>t, <3>1, <3>2, UnlockPreKept
    <3>5. NoBlockOnTop' /\ StackTells'
      BY <1>t, <3>3, <3>4, OthersSleep, PopStack DEF OneCPU
    <3> QED BY <2>q, <3>3, <3>4, <3>5
  <2>14. CASE KernelUnlock(t)
    <3>2. UNCHANGED <<blocking_context, nest, path>>
      BY <2>14 DEF KernelUnlock
    <3> QED BY <1>t, <2>14, <2>q, <3>2, StackAlone, KernelUnlockKept
  <2> QED BY <1>2, <2>1, <2>2, <2>3, <2>4, <2>5, <2>6, <2>7, <2>8, <2>9, <2>10, <2>11, <2>12,
             <2>13, <2>14 DEF ThreadNext
<1> QED BY <1>1, <1>2 DEF Next

(* One CPU starts with nothing open.                                       *)
LEMMA InitOneCPU == Init => OneCPU
<1> SUFFICES ASSUME Init PROVE OneCPU
  OBVIOUS
<1>1. nest = <<>> /\ Len(nest) = 0 /\ \A k \in 1 .. Len(nest) : FALSE
  BY DEF Init
<1>2. NoBlockOnTop /\ ItemsHeld /\ NoHandlerUnderSpinLock
  BY <1>1 DEF NoBlockOnTop, ItemsHeld, NoHandlerUnderSpinLock
<1>3. StackTells
  BY <1>1, NestingAssumption DEF Init, StackTells, BLOCKING_NO, BLOCKING_UNDEFINED
<1>4. HeldItems
  BY SetsAssumption DEF Init, HeldItems
<1>5. Untried /\ Waiting
  BY DEF Init, Untried, Waiting, LockTypes
<1>6. user_context_current = Cardinality(Frames)
  <2>1. Frames = {}
    BY <1>1 DEF Frames
  <2> QED BY <2>1, FS_EmptySet DEF Init
<1> QED BY <1>1, <1>2, <1>3, <1>4, <1>5, <1>6 DEF Init, OneCPU

(* Against a well-behaved driver on one CPU no check stops the path.       *)
LEMMA OneCPUMeans == OneCPU => NoFalseAlarm /\ NoHandlerUnderSpinLock
  BY DEF OneCPU, NoFalseAlarm

(* On one CPU no assertion of the context and lock checks fires against a  *)
(* well-behaved driver: generic_lock_state, lock_kernel_state, the pops    *)
(* and mem_flags_test agree with what the driver may do.                   *)
THEOREM OneCPUNoFalseAlarm ==
  ASSUME OneCPUDriver
  PROVE  Spec /\ []NestingLimited => []NoFalseAlarm
<1>1. ~Interruptible
  BY DEF OneCPUDriver
<1> QED BY <1>1, InitLock, NextLock, InitOneCPU, NextOneCPU, OneCPUMeans, PTL DEF Spec

(* On one CPU can_call_interrupt_handlers never lets a handler run in a    *)
(* thread that holds a spin lock.                                          *)
THEOREM OneCPUHandlersHoldNothing ==
  ASSUME OneCPUDriver
  PROVE  Spec /\ []NestingLimited => []NoHandlerUnderSpinLock
<1>1. ~Interruptible
  BY DEF OneCPUDriver
<1> QED BY <1>1, InitLock, NextLock, InitOneCPU, NextOneCPU, OneCPUMeans, PTL DEF Spec
=============================================================================
