--------------------------- MODULE EnterExitProofs ---------------------------
(***************************************************************************)
(* Theorems about EnterExit, for any number of threads and functions, any  *)
(* size of the call stack and any depth of nesting.                        *)
(***************************************************************************)
EXTENDS EnterExit, FiniteSetTheorems, SequenceTheorems, TLAPS

(* The global lock is held by exactly the thread inside a critical section. *)
Mutex == \A t \in Threads : pc[t] \in CriticalSection <=> global_lock = t

(* StackContiguous with the lower bound that makes it inductive: only the  *)
(* thread between Uncount and Pop may see the counter at -1.               *)
NameStack ==
  path = "running" =>
    /\ driver_call_stack \in -1 .. MaxStack - 2
    /\ \A i \in Slots : driver_call_stack_str[i] # NULL <=> i < UsedSlots

(* A pretended failure needs the exploration of return values to be on,    *)
(* and it is never switched off again.                                     *)
BadPathExplored ==
  /\ bad_path => g_sym_retval # 0
  /\ \A t \in Threads :
       /\ pc[t] = "symbolic" => g_sym_retval # 0
       /\ pc[t] \in {"acquire", "register"} /\ req[t].op = "symbolic" => g_sym_retval # 0

(* Whoever got past the prologue of gen_enter_driver came after the        *)
(* registration.                                                           *)
Registration ==
  /\ ~first_time_in_driver => registered
  /\ \A t \in Threads : frames[t] # <<>> \/ pc[t] \notin {"run", "register"} => registered

IInv == TypeOK /\ Mutex /\ NameStack /\ BadPathExplored /\ Registration

USE DEF dataVars, modeVars, startVars, threadVars

-----------------------------------------------------------------------------
(* The program starts in IInv.                                             *)
LEMMA InitInv == Init => IInv
<1> SUFFICES ASSUME Init PROVE IInv
  OBVIOUS
<1>1. TypeOK
  <2>1. g_sym_retval \in 0 .. 2 /\ driver_call_stack \in Int
    BY SizesAssumption DEF Init
  <2>2. frames \in [Threads -> Seq(Frame)]
    BY DEF Init
  <2>3. pc = [t \in Threads |-> "run"] /\ req = [t \in Threads |-> NULL]
    BY DEF Init
  <2>4. driver_call_stack_str \in [Slots -> Fns \cup {NULL}]
    BY DEF Init
  <2> QED BY <2>1, <2>2, <2>3, <2>4 DEF Init, TypeOK
<1>2. Mutex
  BY ThreadsAssumption DEF Init, Mutex, CriticalSection
<1>3. NameStack
  BY SizesAssumption DEF Init, NameStack, UsedSlots, HalfDone, Slots
<1>4. BadPathExplored
  BY DEF Init, BadPathExplored
<1>5. Registration
  BY DEF Init, Registration
<1> QED BY <1>1, <1>2, <1>3, <1>4, <1>5 DEF IInv

(* s2e_kill_state preserves IInv: it only ends the path.                   *)
LEMMA KillInv ==
  ASSUME IInv, NEW reason \in KillReasons, Kill(reason)
  PROVE  IInv'
<1>1. reason # "running"
  BY DEF KillReasons
<1>2. TypeOK'
  BY DEF IInv, TypeOK, Kill
<1>3. Mutex'
  BY DEF IInv, Mutex, Kill
<1>4. NameStack'
  BY <1>1 DEF NameStack, Kill
<1>5. BadPathExplored'
  BY DEF IInv, BadPathExplored, Kill
<1>6. Registration'
  BY DEF IInv, Registration, Kill
<1> QED BY <1>2, <1>3, <1>4, <1>5, <1>6 DEF IInv

(* A thread that is outside the critical section before and after its step *)
(* leaves the lock and the name stack as they were.                        *)
LEMMA OutsideStep ==
  ASSUME IInv, NEW t \in Threads,
         NEW p \in {"run", "register", "acquire", "post_exit", "irq"},
         pc[t] \notin CriticalSection,
         pc' = [pc EXCEPT ![t] = p],
         UNCHANGED <<global_lock, dataVars, path>>
  PROVE  Mutex' /\ NameStack' /\ HalfDone' = HalfDone
<1>1. p \notin CriticalSection
  BY DEF CriticalSection
<1>2. Mutex'
  BY <1>1 DEF IInv, TypeOK, Mutex
<1>3. HalfDone' <=> HalfDone
  BY <1>1 DEF IInv, TypeOK, HalfDone, CriticalSection
<1>4. HalfDone' = HalfDone
  BY <1>3 DEF HalfDone
<1>5. NameStack'
  BY <1>4 DEF IInv, NameStack, UsedSlots
<1> QED BY <1>2, <1>4, <1>5

(* The prologue every generated wrapper runs.                              *)
LEMMA CallFrameworkInv ==
  ASSUME IInv, NEW t \in Threads, NEW r \in Call, CallFramework(t, r),
         r.op = "symbolic" => g_sym_retval # 0,
         r.op # "enter" => frames[t] # <<>>
  PROVE  IInv'
<1> DEFINE p == IF r.op = "enter" /\ first_time_in_driver THEN "register" ELSE "acquire"
<1>1. /\ p \in {"register", "acquire"}
      /\ pc' = [pc EXCEPT ![t] = p]
      /\ req' = [req EXCEPT ![t] = r]
      /\ pc[t] = "run"
      /\ UNCHANGED <<global_lock, dataVars, modeVars, startVars, path, frames, left_empty>>
  BY DEF CallFramework
<1>2. TypeOK'
  BY <1>1 DEF IInv, TypeOK
<1>3. Mutex' /\ NameStack'
  BY <1>1, OutsideStep DEF CriticalSection
<1>4. BadPathExplored'
  BY <1>1 DEF IInv, TypeOK, BadPathExplored
<1>5. Registration'
  <2>1. p # "register" => registered
    BY DEF IInv, Registration
  <2> QED BY <1>1, <2>1 DEF IInv, TypeOK, Registration
<1> QED BY <1>2, <1>3, <1>4, <1>5 DEF IInv

(* A thread that holds the lock and keeps it: only its own place changes.  *)
LEMMA InsideStep ==
  ASSUME IInv, NEW t \in Threads, NEW p \in CriticalSection,
         pc[t] \in CriticalSection,
         pc' = [pc EXCEPT ![t] = p],
         UNCHANGED global_lock
  PROVE  /\ Mutex'
         /\ HalfDone <=> pc[t] \in {"count", "pop"}
         /\ HalfDone' <=> p \in {"count", "pop"}
<1>1. Mutex'
  BY DEF IInv, TypeOK, Mutex
<1>2. \A u \in Threads : u # t => pc[u] \notin CriticalSection
  BY DEF IInv, Mutex
<1>3. HalfDone <=> pc[t] \in {"count", "pop"}
  BY <1>2 DEF HalfDone, CriticalSection
<1>4. HalfDone' <=> p \in {"count", "pop"}
  BY <1>2 DEF IInv, TypeOK, HalfDone, CriticalSection
<1> QED BY <1>1, <1>3, <1>4

(* A thread that releases the lock.                                        *)
LEMMA ReleaseStep ==
  ASSUME IInv, NEW t \in Threads,
         NEW p \in {"run", "register", "acquire", "post_exit"},
         pc[t] \in CriticalSection,
         pc' = [pc EXCEPT ![t] = p],
         global_lock' = NULL
  PROVE  /\ Mutex'
         /\ HalfDone <=> pc[t] \in {"count", "pop"}
         /\ ~HalfDone'
<1>1. \A u \in Threads : u # t => pc[u] \notin CriticalSection
  BY DEF IInv, Mutex
<1>2. p \notin CriticalSection
  BY DEF CriticalSection
<1>3. \A u \in Threads : pc'[u] \notin CriticalSection
  BY <1>1, <1>2 DEF IInv, TypeOK
<1>4. Mutex'
  BY <1>3, ThreadsAssumption DEF Mutex
<1>5. HalfDone <=> pc[t] \in {"count", "pop"}
  BY <1>1 DEF HalfDone, CriticalSection
<1>6. ~HalfDone'
  BY <1>3 DEF HalfDone, CriticalSection
<1> QED BY <1>4, <1>5, <1>6

(* Requests stay well formed.                                              *)
LEMMA EnterFromStubType ==
  ASSUME NEW fn \in Fns
  PROVE  EnterFromStub(fn) \in Call /\ EnterFromStub(fn).op = "enter"
  BY DEF EnterFromStub, Call

(* prefn, postfn and stubs only call the framework, with a request that is  *)
(* well formed.                                                            *)
LEMMA DriverFunctionEnteredInv ==
  ASSUME IInv, NEW t \in Threads, NEW fn \in EntryFns, DriverFunctionEntered(t, fn)
  PROVE  IInv'
<1> DEFINE r == [op |-> "enter", wrapper |-> "PREPOSTFN", fn |-> fn,
                 valid |-> FALSE, err |-> FALSE, concrete |-> TRUE]
<1>1. r \in Call /\ r.op = "enter"
  BY DEF Call, Fns
<1>2. CallFramework(t, r)
  BY DEF DriverFunctionEntered
<1> HIDE DEF r
<1> QED BY <1>1, <1>2, CallFrameworkInv

(* The frame a thread returns from is a frame.                             *)
LEMMA TopFrame ==
  ASSUME IInv, NEW t \in Threads, frames[t] # <<>>
  PROVE  frames[t][Len(frames[t])] \in Frame
  BY DEF IInv, TypeOK

(* postfn preserves IInv.                                                  *)
LEMMA DriverFunctionReturnedInv ==
  ASSUME IInv, NEW t \in Threads, NEW err \in BOOLEAN, NEW concrete \in BOOLEAN,
         DriverFunctionReturned(t, err, concrete)
  PROVE  IInv'
<1> DEFINE fn == frames[t][Len(frames[t])].fn
           r == [op |-> "exit", wrapper |-> "PREPOSTFN", fn |-> fn,
                 valid |-> fn \notin VoidFns, err |-> err, concrete |-> concrete]
<1>1. frames[t] # <<>>
  BY DEF DriverFunctionReturned, InDriver
<1>2. fn \in Fns
  BY <1>1, TopFrame DEF Frame
<1>3. CallFramework(t, r)
  BY DEF DriverFunctionReturned
<1> HIDE DEF fn
<1>4. r \in Call /\ r.op = "exit"
  BY <1>2 DEF Call
<1> HIDE DEF r
<1> QED BY <1>1, <1>3, <1>4, CallFrameworkInv

(* The first half of a stub preserves IInv.                                *)
LEMMA KernelFunctionCalledInv ==
  ASSUME IInv, NEW t \in Threads, NEW fn \in KernelFns, KernelFunctionCalled(t, fn)
  PROVE  IInv'
<1> DEFINE r == [op |-> "exit", wrapper |-> "STUBWRAPPER", fn |-> fn,
                 valid |-> TRUE, err |-> FALSE, concrete |-> TRUE]
<1>1. r \in Call /\ r.op = "exit"
  BY DEF Call, Fns
<1>2. CallFramework(t, r) /\ frames[t] # <<>>
  BY DEF KernelFunctionCalled, InDriver
<1> HIDE DEF r
<1> QED BY <1>1, <1>2, CallFrameworkInv

(* The second half of a stub preserves IInv: it asks for a symbolic return *)
(* value only while g_sym_retval is not 0.                                 *)
LEMMA KernelFunctionReturnedInv ==
  ASSUME IInv, NEW t \in Threads, KernelFunctionReturned(t)
  PROVE  IInv'
<1> DEFINE fn == frames[t][Len(frames[t])].fn
           r == IF fn \in SymbolicFns /\ g_sym_retval # 0
                THEN [EnterFromStub(fn) EXCEPT !.op = "symbolic"]
                ELSE EnterFromStub(fn)
<1>1. frames[t] # <<>>
  BY DEF KernelFunctionReturned, InStub
<1>2. fn \in Fns
  BY <1>1, TopFrame DEF Frame
<1>3. CallFramework(t, r)
  BY DEF KernelFunctionReturned
<1> HIDE DEF fn
<1>4. r \in Call /\ (r.op = "symbolic" => g_sym_retval # 0)
  BY <1>2 DEF EnterFromStub, Call
<1> HIDE DEF r
<1> QED BY <1>1, <1>3, <1>4, CallFrameworkInv

(* symdrive_annotation preserves IInv.                                     *)
LEMMA AnnotationInv ==
  ASSUME IInv, NEW t \in Threads, NEW flags \in BOOLEAN, symdrive_annotation(t, flags)
  PROVE  IInv'
  BY DEF IInv, symdrive_annotation, TypeOK, Mutex, NameStack, UsedSlots, HalfDone,
         BadPathExplored, Registration

(* The first entry registers every function before it goes on.             *)
LEMMA RegisterAllInv ==
  ASSUME IInv, NEW t \in Threads, RegisterAll(t)
  PROVE  IInv'
<1>1. CASE registered /\ Kill("assert")
  BY <1>1, KillInv DEF KillReasons
<1>2. CASE ~(registered /\ Kill("assert"))
  <2>1. /\ pc[t] = "register"
        /\ registered' = TRUE
        /\ first_time_in_driver' = FALSE
        /\ pc' = [pc EXCEPT ![t] = "acquire"]
        /\ UNCHANGED <<global_lock, dataVars, modeVars, published, path, req, frames, left_empty>>
    BY <1>2 DEF RegisterAll
  <2>2. TypeOK'
    BY <2>1 DEF IInv, TypeOK
  <2>3. Mutex' /\ NameStack'
    BY <2>1, OutsideStep DEF CriticalSection
  <2>4. BadPathExplored'
    BY <2>1 DEF IInv, TypeOK, BadPathExplored
  <2>5. Registration'
    BY <2>1 DEF Registration
  <2> QED BY <2>2, <2>3, <2>4, <2>5 DEF IInv
<1> QED BY <1>1, <1>2

(* acquire_global_lock preserves IInv: nobody else is in the critical      *)
(* section.                                                                *)
LEMMA AcquireInv ==
  ASSUME IInv, NEW t \in Threads, acquire_global_lock(t)
  PROVE  IInv'
<1> DEFINE p == CASE req[t].op = "symbolic" -> "symbolic"
                  [] req[t].op = "exit" -> "retval"
                  [] OTHER -> StackPhase(req[t])
<1>1. /\ pc[t] = "acquire"
      /\ global_lock = NULL
      /\ global_lock' = t
      /\ pc' = [pc EXCEPT ![t] = p]
      /\ UNCHANGED <<dataVars, modeVars, startVars, path, req, frames, left_empty>>
  BY DEF acquire_global_lock
<1>2. p \in {"symbolic", "retval", "push", "uncount"}
  BY DEF StackPhase
<1>3. p = "symbolic" => req[t].op = "symbolic"
  BY DEF StackPhase
<1> HIDE DEF p
<1>4. p \in CriticalSection /\ p \notin {"count", "pop"}
  BY <1>2 DEF CriticalSection
<1>5. \A u \in Threads : pc[u] \notin CriticalSection
  BY <1>1, ThreadsAssumption DEF IInv, Mutex
<1>6. TypeOK'
  BY <1>1, <1>4 DEF IInv, TypeOK
<1>7. Mutex'
  BY <1>1, <1>4, <1>5 DEF IInv, TypeOK, Mutex
<1>8. NameStack'
  <2>1. ~HalfDone /\ ~HalfDone'
    BY <1>1, <1>4, <1>5 DEF IInv, TypeOK, HalfDone, CriticalSection
  <2> QED BY <1>1, <2>1 DEF IInv, NameStack, UsedSlots
<1>9. BadPathExplored'
  BY <1>1, <1>3, <1>4 DEF IInv, TypeOK, BadPathExplored, CriticalSection
<1>10. Registration'
  BY <1>1 DEF IInv, TypeOK, Registration
<1> QED BY <1>6, <1>7, <1>8, <1>9, <1>10 DEF IInv

(* The return-value half of gen_exit_driver preserves IInv.                *)
LEMMA HandleRetvalInv ==
  ASSUME IInv, NEW t \in Threads, HandleRetval(t)
  PROVE  IInv'
<1> DEFINE r == req[t]
           forgiven == r.valid /\ r.concrete /\ g_symdrive_annotations
           p == StackPhase(r)
<1>1. CASE r.fn = StartingFn
  BY <1>1, KillInv DEF HandleRetval, KillReasons
<1>2. CASE r.fn # StartingFn
  <2>1. /\ pc[t] = "retval"
        /\ g_symdrive_annotations' = (g_symdrive_annotations /\ ~forgiven)
        /\ req' = [req EXCEPT ![t].err = r.err /\ ~forgiven]
        /\ pc' = [pc EXCEPT ![t] = p]
        /\ UNCHANGED <<global_lock, dataVars, bad_path, g_sym_retval, startVars, path,
                       frames, left_empty>>
    BY <1>2 DEF HandleRetval
  <2>2. p \in {"push", "uncount"}
    BY DEF StackPhase
  <2>3. r \in Call
    BY <2>1 DEF IInv, TypeOK
  <2> HIDE DEF p
  <2>4. p \in CriticalSection /\ p \notin {"count", "pop", "symbolic", "acquire", "register"}
    BY <2>2 DEF CriticalSection
  <2>5. TypeOK'
    <3>1. [r EXCEPT !.err = r.err /\ ~forgiven] \in Call
      BY <2>3 DEF IInv, TypeOK, Call
    <3>2. req' = [req EXCEPT ![t] = [r EXCEPT !.err = r.err /\ ~forgiven]]
      BY <2>1
    <3>3. req' \in [Threads -> Call \cup {NULL}] /\ req'[t] \in Call
      BY <3>1, <3>2 DEF IInv, TypeOK
    <3>4. \A u \in Threads : pc'[u] \notin {"run", "post_exit", "irq"} => req'[u] \in Call
      BY <3>2, <3>3, <2>1 DEF IInv, TypeOK
    <3>5. g_symdrive_annotations' \in BOOLEAN
      BY <2>1, <2>3 DEF IInv, TypeOK, Call
    <3> QED BY <3>3, <3>4, <3>5, <2>1, <2>4 DEF IInv, TypeOK
  <2>6. Mutex' /\ (HalfDone' <=> HalfDone)
    BY <2>1, <2>4, InsideStep DEF CriticalSection
  <2>7. NameStack'
    BY <2>1, <2>6 DEF IInv, NameStack, UsedSlots
  <2>8. BadPathExplored'
    <3>1. \A u \in Threads : u # t => pc'[u] = pc[u] /\ req'[u] = req[u]
      BY <2>1 DEF IInv, TypeOK
    <3> QED BY <2>1, <2>4, <3>1 DEF IInv, TypeOK, BadPathExplored
  <2>9. Registration'
    BY <2>1 DEF IInv, TypeOK, Registration
  <2> QED BY <2>5, <2>6, <2>7, <2>8, <2>9 DEF IInv
<1> QED BY <1>1, <1>2

(* push_driver_call_stack fills the first free slot.                       *)
LEMMA PushInv ==
  ASSUME IInv, path = "running", NEW t \in Threads, Push(t)
  PROVE  IInv'
<1>1. CASE ~StackInRange(driver_call_stack)
  BY <1>1, KillInv DEF Push, KillReasons
<1>2. CASE StackInRange(driver_call_stack)
  <2>1. /\ pc[t] = "push"
        /\ driver_call_stack_str' =
             [driver_call_stack_str EXCEPT ![driver_call_stack] = req[t].fn]
        /\ pc' = [pc EXCEPT ![t] = "count"]
        /\ UNCHANGED <<global_lock, driver_call_stack, modeVars, startVars, path, req,
                       frames, left_empty>>
    BY <1>2 DEF Push
  <2>2. req[t].fn \in Fns /\ req[t].fn # NULL
    BY <2>1, FnsAssumption DEF IInv, TypeOK, Call
  <2>3. TypeOK'
    BY <2>1, <2>2 DEF IInv, TypeOK, CriticalSection
  <2>4. Mutex' /\ ~HalfDone /\ HalfDone'
    BY <2>1, InsideStep DEF CriticalSection
  <2>5. NameStack'
    BY <2>1, <2>2, <2>4, <1>2, SizesAssumption
    DEF IInv, TypeOK, NameStack, UsedSlots, Slots, StackInRange
  <2>6. BadPathExplored'
    BY <2>1 DEF IInv, TypeOK, BadPathExplored
  <2>7. Registration'
    BY <2>1 DEF IInv, TypeOK, Registration
  <2> QED BY <2>3, <2>4, <2>5, <2>6, <2>7 DEF IInv
<1> QED BY <1>1, <1>2

(* manage_call_stack's decrement leaves one name above the counter.        *)
LEMMA UncountInv ==
  ASSUME IInv, path = "running", NEW t \in Threads, Uncount(t)
  PROVE  IInv'
<1>1. CASE ~StackInRange(driver_call_stack)
  BY <1>1, KillInv DEF Uncount, KillReasons
<1>2. CASE StackInRange(driver_call_stack)
  <2>1. /\ pc[t] = "uncount"
        /\ driver_call_stack' = driver_call_stack - 1
        /\ pc' = [pc EXCEPT ![t] = "pop"]
        /\ UNCHANGED <<global_lock, driver_call_stack_str, modeVars, startVars, path, req,
                       frames, left_empty>>
    BY <1>2 DEF Uncount
  <2>3. TypeOK'
    BY <2>1 DEF IInv, TypeOK, CriticalSection
  <2>4. Mutex' /\ ~HalfDone /\ HalfDone'
    BY <2>1, InsideStep DEF CriticalSection
  <2>5. NameStack'
    BY <2>1, <2>4, <1>2, SizesAssumption
    DEF IInv, TypeOK, NameStack, UsedSlots, Slots, StackInRange
  <2>6. BadPathExplored'
    BY <2>1 DEF IInv, TypeOK, BadPathExplored
  <2>7. Registration'
    BY <2>1 DEF IInv, TypeOK, Registration
  <2> QED BY <2>3, <2>4, <2>5, <2>6, <2>7 DEF IInv
<1> QED BY <1>1, <1>2

(* manage_call_stack's increment covers the name just pushed.              *)
LEMMA CountInv ==
  ASSUME IInv, path = "running", NEW t \in Threads, Count(t)
  PROVE  IInv'
<1> DEFINE r == req[t]
           n == driver_call_stack + 1
           f == [fn |-> r.fn, wrapper |-> r.wrapper]
<1>1. CASE ~(0 <= n /\ n < MaxStack - 1)
  BY <1>1, KillInv DEF Count, KillReasons
<1>2. CASE 0 <= n /\ n < MaxStack - 1
  <2>1. /\ pc[t] = "count"
        /\ driver_call_stack' = n
        /\ g_sym_retval' = CoverageMode(r)
        /\ global_lock' = NULL
        /\ frames' = [frames EXCEPT ![t] = Append(frames[t], f)]
        /\ req' = [req EXCEPT ![t] = NULL]
        /\ published' = (published \/ r.wrapper = "STUBWRAPPER")
        /\ pc' = [pc EXCEPT ![t] = "run"]
        /\ UNCHANGED <<driver_call_stack_str, bad_path, g_symdrive_annotations,
                       first_time_in_driver, registered, path, left_empty>>
    BY <1>2 DEF Count
  <2>2. g_sym_retval' \in 0 .. 2 /\ (g_sym_retval # 0 => g_sym_retval' # 0)
    BY <2>1 DEF CoverageMode, IInv, TypeOK
  <2>3. TypeOK'
    <3>1. r \in Call
      BY <2>1 DEF IInv, TypeOK
    <3>2. f \in Frame
      BY <3>1 DEF Call, Frame
    <3>3. Append(frames[t], f) \in Seq(Frame)
      BY <3>2 DEF IInv, TypeOK
    <3>4. frames' \in [Threads -> Seq(Frame)]
      BY <3>3, <2>1 DEF IInv, TypeOK
    <3>5. published' \in BOOLEAN
      BY <2>1 DEF IInv, TypeOK
    <3> QED BY <3>4, <3>5, <2>1, <2>2 DEF IInv, TypeOK
  <2>4. Mutex' /\ HalfDone /\ ~HalfDone'
    BY <2>1, ReleaseStep DEF CriticalSection
  <2>5. NameStack'
    BY <2>1, <2>4, <1>2, SizesAssumption DEF IInv, TypeOK, NameStack, UsedSlots
  <2>6. BadPathExplored'
    BY <2>1, <2>2 DEF IInv, TypeOK, BadPathExplored
  <2>7. Registration'
    BY <2>1 DEF IInv, TypeOK, Registration
  <2> QED BY <2>3, <2>4, <2>5, <2>6, <2>7 DEF IInv
<1> QED BY <1>1, <1>2

(* The verdict on a path that leaves the driver is one of four.            *)
LEMMA VerdictType ==
  ASSUME NEW r \in Call
  PROVE  ExitVerdict(r) \in {"running", "failure", "bad", "good"}
  BY DEF ExitVerdict

(* What every outcome of Pop that does not kill the path by an assertion   *)
(* has in common: the gap is closed and the lock released.                 *)
LEMMA PopShift ==
  ASSUME IInv, path = "running", NEW t \in Threads, NEW i \in Slots,
         pc[t] = "pop",
         IsLastSlotOf(i, req[t].fn),
         StackInRange(driver_call_stack)
  PROVE  /\ WithoutSlot(i) \in [Slots -> Fns \cup {NULL}]
         /\ \A j \in Slots : WithoutSlot(i)[j] # NULL <=> j < driver_call_stack
<1>1. req[t].fn # NULL
  BY FnsAssumption DEF IInv, TypeOK, Call
<1>2. HalfDone
  BY DEF HalfDone
<1>3. \A j \in Slots : driver_call_stack_str[j] # NULL <=> j < driver_call_stack + 1
  BY <1>2 DEF IInv, NameStack, UsedSlots
<1>4. i < driver_call_stack + 1 /\ driver_call_stack \in 0 .. MaxStack - 2
  BY <1>1, <1>3, SizesAssumption DEF IInv, NameStack, IsLastSlotOf, StackInRange
<1>5. WithoutSlot(i) \in [Slots -> Fns \cup {NULL}]
  BY SizesAssumption DEF IInv, TypeOK, WithoutSlot, Slots
<1>6. ASSUME NEW j \in Slots
      PROVE  WithoutSlot(i)[j] # NULL <=> j < driver_call_stack
  <2>1. CASE j < i
    BY <2>1, <1>3, <1>4, SizesAssumption DEF WithoutSlot, Slots
  <2>2. CASE j >= i /\ j < MaxStack - 1
    <3>1. j + 1 \in Slots
      BY <2>2, SizesAssumption DEF Slots
    <3>2. WithoutSlot(i)[j] = driver_call_stack_str[j + 1]
      BY <2>2, SizesAssumption DEF WithoutSlot, Slots
    <3>3. driver_call_stack_str[j + 1] # NULL <=> j + 1 < driver_call_stack + 1
      BY <3>1, <1>3
    <3> QED BY <3>2, <3>3, <1>4, SizesAssumption DEF Slots
  <2>3. CASE j = MaxStack - 1
    BY <2>3, <1>4, SizesAssumption DEF WithoutSlot, Slots
  <2> QED BY <2>1, <2>2, <2>3, SizesAssumption DEF Slots
<1> QED BY <1>5, <1>6

(* pop_driver_call_stack and the rest of the crossing preserve IInv.       *)
LEMMA PopInv ==
  ASSUME IInv, path = "running", NEW t \in Threads, Pop(t)
  PROVE  IInv'
<1> DEFINE r == req[t]
<1>1. CASE Kill("assert")
  BY <1>1, KillInv DEF KillReasons
<1>2. CASE ~Kill("assert")
  <2>1. PICK i \in Slots :
          /\ IsLastSlotOf(i, r.fn)
          /\ StackInRange(driver_call_stack)
          /\ driver_call_stack_str' = WithoutSlot(i)
          /\ frames' = [frames EXCEPT ![t] = SubSeq(@, 1, Len(@) - 1)]
          /\ global_lock' = NULL
          /\ req' = [req EXCEPT ![t] = NULL]
          /\ \/ r.op = "exit" /\ FinishExit(t)
             \/ r.op = "enter" /\ FinishEnter(t)
          /\ UNCHANGED <<driver_call_stack, bad_path, startVars>>
    BY <1>2 DEF Pop
  <2>2. pc[t] = "pop"
    BY DEF Pop
  <2>3. r \in Call
    BY <2>2 DEF IInv, TypeOK
  <2>4. PICK p \in {"run", "post_exit"} : pc' = [pc EXCEPT ![t] = p]
    BY <2>1 DEF FinishExit, FinishEnter
  <2>5. g_sym_retval' \in 0 .. 2 /\ (g_sym_retval # 0 => g_sym_retval' # 0)
    BY <2>1 DEF FinishExit, FinishEnter, CoverageMode, IInv, TypeOK
  <2>6. path' \in {"running"} \cup KillReasons
    <3>1. CASE FinishEnter(t)
      BY <3>1 DEF FinishEnter, IInv, TypeOK
    <3>2. CASE FinishExit(t)
      BY <3>2, <2>3, VerdictType DEF FinishExit, KillReasons
    <3> QED BY <3>1, <3>2, <2>1
  <2>7. g_symdrive_annotations' \in BOOLEAN /\ left_empty' \subseteq Threads
    <3>1. CASE FinishEnter(t)
      BY <3>1 DEF FinishEnter, IInv, TypeOK
    <3>2. CASE FinishExit(t)
      <4>1. g_symdrive_annotations' \in BOOLEAN
        BY <3>2, <2>3 DEF FinishExit, IInv, TypeOK, Call
      <4>2. left_empty' \subseteq Threads
        BY <3>2 DEF FinishExit, IInv, TypeOK
      <4> QED BY <4>1, <4>2
    <3> QED BY <3>1, <3>2, <2>1
  <2>8. TypeOK'
    <3>1. SubSeq(frames[t], 1, Len(frames[t]) - 1) \in Seq(Frame)
      BY DEF IInv, TypeOK
    <3>2. frames' \in [Threads -> Seq(Frame)]
      BY <2>1, <3>1 DEF IInv, TypeOK
    <3>3. driver_call_stack_str' \in [Slots -> Fns \cup {NULL}]
      BY <2>1, <2>2, PopShift
    <3> QED BY <3>2, <3>3, <2>1, <2>4, <2>5, <2>6, <2>7 DEF IInv, TypeOK
  <2>9. Mutex' /\ ~HalfDone'
    BY <2>1, <2>2, <2>4, ReleaseStep DEF CriticalSection
  <2>10. NameStack'
    <3>1. \A j \in Slots : driver_call_stack_str'[j] # NULL <=> j < driver_call_stack
      BY <2>1, <2>2, PopShift
    <3>2. UsedSlots' = driver_call_stack
      BY <2>1, <2>9 DEF UsedSlots, IInv, TypeOK
    <3> QED BY <2>1, <3>1, <3>2 DEF IInv, NameStack
  <2>11. BadPathExplored'
    BY <2>1, <2>4, <2>5 DEF IInv, TypeOK, BadPathExplored
  <2>12. Registration'
    BY <2>1, <2>2, <2>4 DEF IInv, TypeOK, Registration
  <2> QED BY <2>8, <2>9, <2>10, <2>11, <2>12 DEF IInv
<1> QED BY <1>1, <1>2

(* gen_make_symbolic_* makes a path bad only while exploration is on.      *)
LEMMA MakeSymbolicInv ==
  ASSUME IInv, path = "running", NEW t \in Threads, MakeSymbolic(t)
  PROVE  IInv'
<1> DEFINE p == IF first_time_in_driver THEN "register" ELSE "acquire"
<1>1. CASE Kill("extra")
  BY <1>1, KillInv DEF KillReasons
<1>2. CASE ~Kill("extra")
  <2>1. /\ pc[t] = "symbolic"
        /\ bad_path' \in {bad_path, TRUE}
        /\ global_lock' = NULL
        /\ req' = [req EXCEPT ![t] = EnterFromStub(req[t].fn)]
        /\ pc' = [pc EXCEPT ![t] = p]
        /\ UNCHANGED <<dataVars, g_sym_retval, g_symdrive_annotations, startVars, path,
                       frames, left_empty>>
    BY <1>2 DEF MakeSymbolic
  <2>2. p \in {"register", "acquire"}
    OBVIOUS
  <2> HIDE DEF p
  <2>3. EnterFromStub(req[t].fn) \in Call /\ EnterFromStub(req[t].fn).op = "enter"
    <3>1. req[t].fn \in Fns
      BY <2>1 DEF IInv, TypeOK, Call
    <3> QED BY <3>1, EnterFromStubType
  <2>4. TypeOK'
    BY <2>1, <2>2, <2>3 DEF IInv, TypeOK
  <2>5. Mutex' /\ ~HalfDone /\ ~HalfDone'
    BY <2>1, <2>2, ReleaseStep DEF CriticalSection
  <2>6. NameStack'
    BY <2>1, <2>5 DEF IInv, NameStack, UsedSlots
  <2>7. BadPathExplored'
    BY <2>1, <2>2, <2>3 DEF IInv, TypeOK, BadPathExplored
  <2>8. Registration'
    BY <2>1, <2>2 DEF IInv, TypeOK, Registration
  <2> QED BY <2>4, <2>5, <2>6, <2>7, <2>8 DEF IInv
<1> QED BY <1>1, <1>2

(* What gen_exit_driver does after the lock is released preserves IInv.    *)
LEMMA PostExitInv ==
  ASSUME IInv, NEW t \in Threads, PostExit(t) \/ PostExitIrq(t)
  PROVE  IInv'
<1>1. PICK p \in {"irq", "run"} : pc' = [pc EXCEPT ![t] = p]
  BY DEF PostExit, PostExitIrq
<1>2. /\ pc[t] \in {"post_exit", "irq"}
      /\ left_empty' \subseteq left_empty
      /\ UNCHANGED <<global_lock, dataVars, modeVars, startVars, path, req, frames>>
  BY DEF PostExit, PostExitIrq
<1>3. TypeOK'
  BY <1>1, <1>2 DEF IInv, TypeOK
<1>4. Mutex' /\ NameStack'
  BY <1>1, <1>2, OutsideStep DEF CriticalSection
<1>5. BadPathExplored'
  BY <1>1, <1>2 DEF IInv, TypeOK, BadPathExplored
<1>6. Registration'
  BY <1>1, <1>2 DEF IInv, TypeOK, Registration
<1> QED BY <1>3, <1>4, <1>5, <1>6 DEF IInv

(* Every step of every thread preserves IInv.                              *)
LEMMA NextInv == IInv /\ [Next]_vars => IInv'
<1> SUFFICES ASSUME IInv, [Next]_vars PROVE IInv'
  OBVIOUS
<1>1. CASE UNCHANGED vars
  BY <1>1 DEF vars, IInv, TypeOK, Mutex, NameStack, UsedSlots, HalfDone,
              BadPathExplored, Registration
<1>2. CASE Next
  <2>1. path = "running"
    BY <1>2 DEF Next
  <2>2. PICK t \in Threads : Outside(t) \/ acquire_global_lock(t) \/ Inside(t)
    BY <1>2 DEF Next
  <2>3. CASE Outside(t)
    BY <2>3, DriverFunctionEnteredInv, DriverFunctionReturnedInv, KernelFunctionCalledInv,
       KernelFunctionReturnedInv, AnnotationInv DEF Outside
  <2>4. CASE acquire_global_lock(t)
    BY <2>4, AcquireInv
  <2>5. CASE Inside(t)
    BY <2>1, <2>5, RegisterAllInv, HandleRetvalInv, PushInv, CountInv, UncountInv, PopInv,
       MakeSymbolicInv, PostExitInv DEF Inside
  <2> QED BY <2>2, <2>3, <2>4, <2>5
<1> QED BY <1>1, <1>2 DEF vars

(* IInv holds in every state of every path.                                *)
THEOREM Invariance == Spec => []IInv
  BY InitInv, NextInv, PTL DEF Spec

(* Type correctness of enter_exit.c's state: in particular no push writes  *)
(* outside driver_call_stack_str.                                          *)
THEOREM TypeCorrect == Spec => []TypeOK
<1>1. IInv => TypeOK
  BY DEF IInv
<1> QED BY <1>1, Invariance, PTL

(* pop_driver_call_stack and push_driver_call_stack keep the names gap-    *)
(* free below driver_call_stack, in every interleaving of any number of    *)
(* threads, and the counter below the end of the array.                    *)
THEOREM Contiguous == Spec => []StackContiguous
<1>1. IInv => StackContiguous
  BY SizesAssumption DEF IInv, NameStack, StackContiguous
<1> QED BY <1>1, Invariance, PTL

(* Nobody is inside a wrapped function before gen_register_all has run.    *)
THEOREM RegisteredFirst == Spec => []RegisteredBeforeUse
<1>1. IInv => RegisteredBeforeUse
  BY DEF IInv, Registration, RegisteredBeforeUse
<1> QED BY <1>1, Invariance, PTL

(* A step of one thread leaves every other thread where it was.            *)
LEMMA OthersStay ==
  ASSUME IInv, NEW u \in Threads, Outside(u) \/ acquire_global_lock(u) \/ Inside(u),
         NEW t \in Threads, t # u
  PROVE  pc'[t] = pc[t]
<1>1. CASE Outside(u)
  BY <1>1 DEF Outside, DriverFunctionEntered, DriverFunctionReturned, KernelFunctionCalled,
              KernelFunctionReturned, symdrive_annotation, CallFramework, IInv, TypeOK
<1>2. CASE acquire_global_lock(u)
  BY <1>2 DEF acquire_global_lock, IInv, TypeOK
<1>3. CASE Inside(u)
  <2>1. CASE RegisterAll(u) \/ HandleRetval(u)
    BY <2>1 DEF RegisterAll, HandleRetval, Kill, IInv, TypeOK
  <2>2. CASE Push(u) \/ Count(u) \/ Uncount(u)
    BY <2>2 DEF Push, Count, Uncount, Kill, IInv, TypeOK
  <2>3. CASE Pop(u)
    BY <2>3 DEF Pop, FinishExit, FinishEnter, Kill, IInv, TypeOK
  <2>4. CASE MakeSymbolic(u) \/ PostExit(u) \/ PostExitIrq(u)
    BY <2>4 DEF MakeSymbolic, PostExit, PostExitIrq, Kill, IInv, TypeOK
  <2> QED BY <1>3, <2>1, <2>2, <2>3, <2>4 DEF Inside
<1> QED BY <1>1, <1>2, <1>3

(* A path on which the driver returns a value to the kernel and that goes  *)
(* on returned a success and never pretended that a kernel function        *)
(* failed.                                                                 *)
THEOREM GenuineReturns == Spec => GenuineReturn
<1> DEFINE Good == \A t \in Threads :
                     /\ pc[t] = "pop" /\ pc'[t] = "post_exit"
                     /\ driver_call_stack' = 0 /\ req[t].valid /\ path' = "running"
                     => /\ ~bad_path
                        /\ ~req[t].err \/ g_symdrive_annotations
<1>1. IInv /\ [Next]_vars => [Good]_vars
  <2> SUFFICES ASSUME IInv, Next,
                      NEW t \in Threads, pc[t] = "pop", pc'[t] = "post_exit",
                      driver_call_stack' = 0, req[t].valid, path' = "running"
               PROVE  ~bad_path /\ (~req[t].err \/ g_symdrive_annotations)
    BY DEF vars
  <2>1. PICK u \in Threads : Outside(u) \/ acquire_global_lock(u) \/ Inside(u)
    BY DEF Next
  <2>2. Pop(t)
    <3>1. u = t
      BY <2>1, OthersStay
    <3>2. ~Outside(t) /\ ~acquire_global_lock(t)
      BY DEF Outside, DriverFunctionEntered, DriverFunctionReturned, KernelFunctionCalled,
             KernelFunctionReturned, symdrive_annotation, CallFramework, acquire_global_lock
    <3>3. Inside(t) => Pop(t)
      BY DEF Inside, RegisterAll, HandleRetval, Push, Count, Uncount, MakeSymbolic,
             PostExit, PostExitIrq
    <3> QED BY <3>1, <3>2, <3>3, <2>1
  <2>3. FinishExit(t) /\ driver_call_stack = 0
    <3>1. ~Kill("assert")
      BY DEF Kill
    <3>2. ~FinishEnter(t)
      BY DEF FinishEnter, IInv, TypeOK
    <3> QED BY <2>2, <3>1, <3>2 DEF Pop
  <2>4. ExitVerdict(req[t]) = "running"
    BY <2>3 DEF FinishExit
  <2> QED BY <2>4 DEF ExitVerdict, IInv, TypeOK, BadPathExplored
<1> QED BY <1>1, Invariance, PTL DEF Spec, GenuineReturn

-----------------------------------------------------------------------------
(* The names on the framework's stack and the threads' real stacks.        *)

(* The frame a call of the framework is about: a call that pops returns    *)
(* from, or through, the newest frame of its thread; a call that pushes    *)
(* has room for one more.                                                  *)
Returning(r) == r.op = "symbolic" \/ ~Pushes(r)

FrameOK(t, r) ==
  IF Returning(r) THEN frames[t] # <<>> /\ frames[t][Len(frames[t])].fn = r.fn
  ELSE Len(frames[t]) < MaxDepth

CallOK(t) ==
  /\ Len(frames[t]) <= MaxDepth
  /\ pc[t] \notin {"run", "post_exit", "irq"} => FrameOK(t, req[t])
  /\ pc[t] \in {"push", "count"} => ~Returning(req[t])
  /\ pc[t] \in {"uncount", "pop"} => Returning(req[t])
  /\ pc[t] = "symbolic" => req[t].op = "symbolic"
  /\ pc[t] = "retval" => req[t].op = "exit"

Calls == \A t \in Threads : CallOK(t)

(* A name that is pushed but not yet counted has no frame yet.             *)
Uncounted(fn) == \E t \in Threads : pc[t] = "count" /\ req[t].fn = fn

Matched ==
  \A fn \in Fns :
    /\ IsFiniteSet(FramesOf(fn))
    /\ Cardinality(SlotsOf(fn)) = Cardinality(FramesOf(fn)) + IF Uncounted(fn) THEN 1 ELSE 0

(* Only the loader can find first_time_in_driver set, and only once.       *)
Once ==
  /\ registered <=> ~first_time_in_driver
  /\ published => registered
  /\ \A t \in Threads : pc[t] = "register" => t = Loader /\ ~registered

(* The inductive invariant behind StackMatchesFrames and NoFalseAssert.    *)
MatchInv == Calls /\ Matched /\ Once /\ UsedSlots >= 0 /\ NoFalseAssert

-----------------------------------------------------------------------------
(* What pushing and popping do to the slots and the frames of one name.    *)

(* There are finitely many slots.                                          *)
LEMMA SlotsFinite ==
  ASSUME NEW fn
  PROVE  /\ IsFiniteSet(SlotsOf(fn)) /\ Cardinality(SlotsOf(fn)) \in Nat
         /\ IsFiniteSet(SlotsOf(fn)') /\ Cardinality(SlotsOf(fn)') \in Nat
<1>1. IsFiniteSet(Slots)
  BY SizesAssumption, FS_Interval DEF Slots
<1>2. SlotsOf(fn) \in SUBSET Slots /\ SlotsOf(fn)' \in SUBSET Slots
  BY DEF SlotsOf
<1> QED BY <1>1, <1>2, FS_Subset, FS_CardinalityType

(* A push writes a free slot.                                              *)
LEMMA SlotPushed ==
  ASSUME TypeOK, NEW n \in Slots, NEW fn \in Fns, driver_call_stack_str[n] = NULL,
         driver_call_stack_str' = [driver_call_stack_str EXCEPT ![n] = fn],
         NEW g \in Fns
  PROVE  Cardinality(SlotsOf(g)') = Cardinality(SlotsOf(g)) + IF g = fn THEN 1 ELSE 0
<1>1. \A j \in Slots : driver_call_stack_str'[j] = IF j = n THEN fn ELSE driver_call_stack_str[j]
  BY DEF TypeOK
<1>2. n \notin SlotsOf(g)
  BY FnsAssumption DEF SlotsOf
<1>3. CASE g = fn
  <2>1. SlotsOf(g)' = SlotsOf(g) \cup {n}
    BY <1>1, <1>3 DEF SlotsOf
  <2> QED BY <1>2, <1>3, <2>1, SlotsFinite, FS_AddElement
<1>4. CASE g # fn
  <2>1. SlotsOf(g)' = SlotsOf(g)
    BY <1>1, <1>2, <1>4 DEF SlotsOf
  <2> QED BY <1>4, <2>1, SlotsFinite
<1> QED BY <1>3, <1>4

(* A pop closes the gap it leaves.                                         *)
LEMMA SlotPopped ==
  ASSUME NEW i \in Slots, NEW fn \in Fns, IsLastSlotOf(i, fn),
         driver_call_stack_str' = WithoutSlot(i), NEW g \in Fns
  PROVE  Cardinality(SlotsOf(g)') = Cardinality(SlotsOf(g)) - IF g = fn THEN 1 ELSE 0
<1> DEFINE S == SlotsOf(g) \ {i}
           T == SlotsOf(g)'
           f == [j \in S |-> IF j < i THEN j ELSE j - 1]
<1>1. /\ MaxStack \in Nat /\ MaxStack >= 2 /\ i \in 0 .. MaxStack - 1 /\ g # NULL
      /\ driver_call_stack_str[i] = fn
  BY SizesAssumption, FnsAssumption DEF Slots, IsLastSlotOf
<1>2. \A j \in 0 .. MaxStack - 1 :
        driver_call_stack_str'[j] = IF j < i THEN driver_call_stack_str[j]
                                    ELSE IF j < MaxStack - 1 THEN driver_call_stack_str[j + 1]
                                    ELSE NULL
  BY DEF WithoutSlot, Slots
<1>3. S = {j \in 0 .. MaxStack - 1 : j # i /\ driver_call_stack_str[j] = g}
  BY DEF SlotsOf, Slots
<1>4. T = {j \in 0 .. MaxStack - 1 : driver_call_stack_str'[j] = g}
  BY DEF SlotsOf, Slots
<1>5. IsFiniteSet(S)
  BY SlotsFinite, FS_RemoveElement
<1> HIDE DEF S, T
<1>6. f \in [S -> T]
  <2> SUFFICES ASSUME NEW j \in S PROVE (IF j < i THEN j ELSE j - 1) \in T
    OBVIOUS
  <2>1. CASE j < i
    BY <1>1, <1>2, <1>3, <1>4, <2>1
  <2>2. CASE ~(j < i)
    <3>1. /\ j - 1 \in 0 .. MaxStack - 1 /\ ~(j - 1 < i) /\ j - 1 < MaxStack - 1
          /\ j - 1 + 1 = j
      BY <1>1, <1>3, <2>2
    <3>2. driver_call_stack_str'[j - 1] = driver_call_stack_str[j]
      BY <1>2, <3>1
    <3> QED BY <1>3, <1>4, <2>2, <3>1, <3>2
  <2> QED BY <2>1, <2>2
<1>7. \A j, k \in S : f[j] = f[k] => j = k
  BY <1>1, <1>3
<1>8. ASSUME NEW j \in T PROVE \E k \in S : f[k] = j
  <2>1. CASE j < i
    <3>1. j \in S /\ f[j] = j
      BY <1>1, <1>2, <1>3, <1>4, <2>1
    <3> QED BY <3>1
  <2>2. CASE ~(j < i)
    <3>1. j < MaxStack - 1
      BY <1>1, <1>2, <1>4, <2>2
    <3>2. j + 1 \in S /\ f[j + 1] = j
      BY <1>1, <1>2, <1>3, <1>4, <2>2, <3>1
    <3> QED BY <3>2
  <2> QED BY <2>1, <2>2
<1> HIDE DEF f
<1>9. f \in Bijection(S, T)
  BY <1>6, <1>7, <1>8 DEF Bijection, Injection, Surjection, IsInjective
<1>10. Cardinality(T) = Cardinality(S)
  BY <1>5, <1>9, FS_Bijection DEF ExistsBijection
<1>11. CASE g = fn
  <2>1. i \in SlotsOf(g)
    BY <1>1, <1>11 DEF SlotsOf
  <2> QED BY <1>10, <1>11, <2>1, SlotsFinite, FS_RemoveElement DEF S, T
<1>12. CASE g # fn
  <2>1. S = SlotsOf(g)
    BY <1>1, <1>12 DEF S, SlotsOf
  <2> QED BY <1>10, <1>12, <2>1, SlotsFinite DEF T
<1> QED BY <1>11, <1>12

(* A thread enters a function.                                             *)
LEMMA FramePushed ==
  ASSUME TypeOK, NEW t \in Threads, NEW f \in Frame, Len(frames[t]) < MaxDepth,
         frames' = [frames EXCEPT ![t] = Append(frames[t], f)],
         NEW g \in Fns, IsFiniteSet(FramesOf(g))
  PROVE  /\ IsFiniteSet(FramesOf(g)')
         /\ Cardinality(FramesOf(g)') = Cardinality(FramesOf(g)) + IF g = f.fn THEN 1 ELSE 0
         /\ Len(frames'[t]) = Len(frames[t]) + 1
<1> DEFINE n == Len(frames[t])
<1>1. n \in Nat /\ MaxDepth \in Nat /\ n < MaxDepth
  BY LenProperties, SizesAssumption DEF TypeOK
<1>2. /\ \A u \in Threads \ {t} : frames'[u] = frames[u]
      /\ frames'[t] = Append(frames[t], f)
  BY DEF TypeOK
<1>3. /\ Len(frames'[t]) = n + 1 /\ frames'[t][n + 1] = f
      /\ \A k \in 1 .. n : frames'[t][k] = frames[t][k]
  BY <1>2, AppendProperties DEF TypeOK
<1>4. FramesOf(g) = {p \in Threads \X (1 .. MaxDepth) :
                       p[2] <= Len(frames[p[1]]) /\ frames[p[1]][p[2]].fn = g}
  BY DEF FramesOf
<1>5. FramesOf(g)' = {p \in Threads \X (1 .. MaxDepth) :
                        p[2] <= Len(frames'[p[1]]) /\ frames'[p[1]][p[2]].fn = g}
  BY DEF FramesOf
<1> HIDE DEF n
<1>6. <<t, n + 1>> \notin FramesOf(g)
  BY <1>1, <1>4 DEF n
<1>7. ASSUME NEW p \in Threads \X (1 .. MaxDepth)
      PROVE  p \in FramesOf(g)' <=> p \in FramesOf(g) \/ (p = <<t, n + 1>> /\ f.fn = g)
  <2> SUFFICES ASSUME NEW u \in Threads, NEW k \in 1 .. MaxDepth, p = <<u, k>>
               PROVE  p \in FramesOf(g)' <=> p \in FramesOf(g) \/ (p = <<t, n + 1>> /\ f.fn = g)
    OBVIOUS
  <2>1. CASE u # t
    BY <1>2, <1>4, <1>5, <2>1
  <2>2. CASE u = t
    <3>1. CASE k = n + 1
      BY <1>1, <1>3, <1>4, <1>5, <2>2, <3>1 DEF n
    <3>2. CASE k # n + 1
      <4>1. k <= n + 1 <=> k <= n
        BY <1>1, <3>2
      <4>2. k <= n => frames'[t][k] = frames[t][k]
        BY <1>1, <1>3
      <4>3. p # <<t, n + 1>>
        BY <3>2
      <4> QED BY <1>3, <1>4, <1>5, <2>2, <4>1, <4>2, <4>3 DEF n
    <3> QED BY <3>1, <3>2
  <2> QED BY <2>1, <2>2
<1>8. CASE g = f.fn
  <2>1. <<t, n + 1>> \in Threads \X (1 .. MaxDepth)
    BY <1>1
  <2> DEFINE q == <<t, n + 1>>
             P == Threads \X (1 .. MaxDepth)
  <2>2. FramesOf(g) \subseteq P /\ FramesOf(g)' \subseteq P /\ q \in P
    BY <1>4, <1>5, <2>1
  <2>3. \A p \in P : p \in FramesOf(g)' <=> p \in FramesOf(g) \/ p = q
    BY <1>7, <1>8
  <2>4. q \notin FramesOf(g)
    BY <1>6
  <2> HIDE DEF q, P
  <2>5. FramesOf(g)' = FramesOf(g) \cup {q}
    BY <2>2, <2>3
  <2>6. /\ IsFiniteSet(FramesOf(g)')
        /\ Cardinality(FramesOf(g)') = Cardinality(FramesOf(g)) + 1
    BY <2>4, <2>5, FS_AddElement
  <2> QED BY <1>3, <1>8, <2>6 DEF n
<1>9. CASE g # f.fn
  <2>1. FramesOf(g)' = FramesOf(g)
    BY <1>4, <1>5, <1>7, <1>9
  <2> QED BY <1>3, <1>9, <2>1, FS_CardinalityType DEF n
<1> QED BY <1>8, <1>9

(* A thread leaves the function it entered last.                           *)
LEMMA FramePopped ==
  ASSUME TypeOK, NEW t \in Threads, frames[t] # <<>>, Len(frames[t]) <= MaxDepth,
         frames' = [frames EXCEPT ![t] = SubSeq(@, 1, Len(@) - 1)],
         NEW g \in Fns, IsFiniteSet(FramesOf(g))
  PROVE  /\ IsFiniteSet(FramesOf(g)')
         /\ Cardinality(FramesOf(g)') =
              Cardinality(FramesOf(g)) - IF g = frames[t][Len(frames[t])].fn THEN 1 ELSE 0
         /\ Len(frames'[t]) = Len(frames[t]) - 1
<1> DEFINE n == Len(frames[t])
           top == frames[t][n]
<1>1. n \in Nat \ {0} /\ MaxDepth \in Nat /\ n <= MaxDepth
  BY LenProperties, EmptySeq, SizesAssumption DEF TypeOK
<1>2. /\ \A u \in Threads \ {t} : frames'[u] = frames[u]
      /\ frames'[t] = SubSeq(frames[t], 1, n - 1)
  BY DEF TypeOK
<1>3. /\ Len(frames'[t]) = n - 1
      /\ \A k \in 1 .. n - 1 : frames'[t][k] = frames[t][k]
  <2>1. frames[t] \in Seq(Frame)
    BY DEF TypeOK
  <2>2. /\ Len(SubSeq(frames[t], 1, n - 1)) = n - 1
        /\ \A k \in 1 .. n - 1 : SubSeq(frames[t], 1, n - 1)[k] = frames[t][k]
    BY <1>1, <2>1
  <2> QED BY <1>2, <2>2
<1>4. FramesOf(g) = {p \in Threads \X (1 .. MaxDepth) :
                       p[2] <= Len(frames[p[1]]) /\ frames[p[1]][p[2]].fn = g}
  BY DEF FramesOf
<1>5. FramesOf(g)' = {p \in Threads \X (1 .. MaxDepth) :
                        p[2] <= Len(frames'[p[1]]) /\ frames'[p[1]][p[2]].fn = g}
  BY DEF FramesOf
<1>6. <<t, n>> \in FramesOf(g) <=> g = top.fn
  BY <1>1, <1>4
<1> HIDE DEF n, top
<1>7. ASSUME NEW p \in Threads \X (1 .. MaxDepth)
      PROVE  p \in FramesOf(g)' <=> p \in FramesOf(g) /\ p # <<t, n>>
  <2> SUFFICES ASSUME NEW u \in Threads, NEW k \in 1 .. MaxDepth, p = <<u, k>>
               PROVE  p \in FramesOf(g)' <=> p \in FramesOf(g) /\ p # <<t, n>>
    OBVIOUS
  <2>1. CASE u # t
    BY <1>2, <1>4, <1>5, <2>1
  <2>2. CASE u = t
    <3>1. CASE k = n
      BY <1>1, <1>3, <1>5, <2>2, <3>1
    <3>2. CASE k # n
      <4>1. k <= n - 1 <=> k <= n
        BY <1>1, <3>2
      <4>2. k <= n - 1 => frames'[t][k] = frames[t][k]
        BY <1>1, <1>3
      <4>3. p # <<t, n>>
        BY <3>2
      <4> QED BY <1>3, <1>4, <1>5, <2>2, <4>1, <4>2, <4>3 DEF n
    <3> QED BY <3>1, <3>2
  <2> QED BY <2>1, <2>2
<1>8. FramesOf(g)' = FramesOf(g) \ {<<t, n>>}
  BY <1>4, <1>5, <1>7
<1>9. CASE g = top.fn
  BY <1>3, <1>6, <1>8, <1>9, FS_RemoveElement DEF n, top
<1>10. CASE g # top.fn
  <2>1. FramesOf(g)' = FramesOf(g)
    BY <1>6, <1>8, <1>10
  <2> QED BY <1>3, <1>10, <2>1, FS_CardinalityType DEF n, top
<1> QED BY <1>9, <1>10

-----------------------------------------------------------------------------
(* Steps that touch neither the names nor the frames.                      *)

(* A thread that is not between Push and Count moves on.                   *)
LEMMA PlaceMoved ==
  ASSUME TypeOK, NEW t \in Threads, pc[t] # "count",
         NEW p, p # "count", pc' = [pc EXCEPT ![t] = p],
         \A u \in Threads \ {t} : req'[u] = req[u], NEW fn
  PROVE  Uncounted(fn)' <=> Uncounted(fn)
<1>1. pc'[t] = p /\ \A u \in Threads \ {t} : pc'[u] = pc[u]
  BY DEF TypeOK
<1> QED BY <1>1 DEF Uncounted

(* Names and frames stay, and so does what is between the two.             *)
LEMMA MatchedAlone ==
  ASSUME Matched, UNCHANGED <<driver_call_stack_str, frames>>,
         \A fn \in Fns : Uncounted(fn)' <=> Uncounted(fn)
  PROVE  Matched'
<1>1. \A fn : SlotsOf(fn)' = SlotsOf(fn) /\ FramesOf(fn)' = FramesOf(fn)
  BY DEF SlotsOf, FramesOf
<1> SUFFICES ASSUME NEW fn \in Fns
             PROVE  /\ IsFiniteSet(FramesOf(fn)')
                    /\ Cardinality(SlotsOf(fn)') =
                         Cardinality(FramesOf(fn)') + IF Uncounted(fn)' THEN 1 ELSE 0
  BY DEF Matched
<1> QED BY <1>1 DEF Matched

(* The other threads are where they were.                                  *)
LEMMA CallsAlone ==
  ASSUME Calls, NEW t \in Threads,
         \A u \in Threads \ {t} :
           pc'[u] = pc[u] /\ req'[u] = req[u] /\ frames'[u] = frames[u],
         CallOK(t)'
  PROVE  Calls'
<1> SUFFICES ASSUME NEW u \in Threads PROVE CallOK(u)'
  BY DEF Calls
<1>1. CASE u # t
  BY <1>1 DEF Calls, CallOK, FrameOK
<1> QED BY <1>1

(* Once is about three flags and who waits for the registration.           *)
LEMMA OnceAlone ==
  ASSUME TypeOK, Once, NEW t \in Threads, NEW p, pc' = [pc EXCEPT ![t] = p], p # "register",
         UNCHANGED <<registered, first_time_in_driver>>, published' => registered
  PROVE  Once'
<1>1. pc'[t] = p /\ \A u \in Threads \ {t} : pc'[u] = pc[u]
  BY DEF TypeOK
<1> QED BY <1>1 DEF Once

(* s2e_kill_state with any reason but an assertion.                        *)
LEMMA KillMatch ==
  ASSUME MatchInv, NEW reason, Kill(reason), reason # "assert"
  PROVE  MatchInv'
<1>1. Calls' /\ Once' /\ UsedSlots' >= 0 /\ NoFalseAssert'
  BY DEF MatchInv, Kill, Calls, CallOK, FrameOK, Once, UsedSlots, HalfDone, NoFalseAssert
<1>2. Matched'
  <2>1. \A fn : Uncounted(fn)' <=> Uncounted(fn)
    BY DEF Kill, Uncounted
  <2> QED BY <2>1, MatchedAlone DEF MatchInv, Kill
<1> QED BY <1>1, <1>2 DEF MatchInv

(* The prologue of the wrappers.                                           *)
LEMMA CallFrameworkMatch ==
  ASSUME IInv, MatchInv, NEW t \in Threads, NEW r \in Call, CallFramework(t, r),
         FrameOK(t, r), r.op = "enter" /\ first_time_in_driver => t = Loader
  PROVE  MatchInv'
<1> DEFINE p == IF r.op = "enter" /\ first_time_in_driver THEN "register" ELSE "acquire"
<1>1. /\ p \in {"register", "acquire"}
      /\ p = "register" => first_time_in_driver /\ t = Loader
      /\ pc' = [pc EXCEPT ![t] = p]
      /\ req' = [req EXCEPT ![t] = r]
      /\ pc[t] = "run"
      /\ UNCHANGED <<global_lock, dataVars, modeVars, startVars, path, frames, left_empty>>
  BY DEF CallFramework
<1> HIDE DEF p
<1>t. TypeOK /\ p \notin CriticalSection /\ pc[t] \notin CriticalSection
  BY <1>1 DEF IInv, CriticalSection
<1>2. /\ pc'[t] = p /\ req'[t] = r
      /\ \A u \in Threads \ {t} : pc'[u] = pc[u] /\ req'[u] = req[u] /\ frames'[u] = frames[u]
  BY <1>1, <1>t DEF TypeOK
<1>3. Calls'
  <2>1. CallOK(t)'
    BY <1>1, <1>2 DEF MatchInv, Calls, CallOK, FrameOK
  <2> QED BY <1>2, <2>1, CallsAlone DEF MatchInv
<1>4. Matched'
  <2>1. \A fn \in Fns : Uncounted(fn)' <=> Uncounted(fn)
    BY <1>1, <1>2, <1>t, PlaceMoved
  <2> QED BY <1>1, <2>1, MatchedAlone DEF MatchInv
<1>5. Once'
  BY <1>1, <1>2 DEF MatchInv, Once
<1>6. UsedSlots' >= 0
  <2>1. HalfDone' = HalfDone
    BY <1>1, <1>t, OutsideStep
  <2> QED BY <1>1, <2>1 DEF MatchInv, UsedSlots
<1> QED BY <1>1, <1>3, <1>4, <1>5, <1>6 DEF MatchInv, NoFalseAssert

(* The wrappers.                                                           *)
LEMMA OutsideMatch ==
  ASSUME IInv, MatchInv, NEW t \in Threads, Outside(t)
  PROVE  MatchInv'
<1>a. first_time_in_driver /\ t # Loader => ~published /\ frames[t] = <<>>
  BY DEF IInv, Registration, MatchInv, Once
<1>b. Len(frames[t]) <= MaxDepth
  BY DEF MatchInv, Calls, CallOK
<1>1. ASSUME NEW fn \in EntryFns, DriverFunctionEntered(t, fn) PROVE MatchInv'
  <2> DEFINE r == [op |-> "enter", wrapper |-> "PREPOSTFN", fn |-> fn,
                   valid |-> FALSE, err |-> FALSE, concrete |-> TRUE]
  <2>1. r \in Call /\ ~Returning(r)
    BY DEF Call, Fns, Returning, Pushes
  <2>2. CallFramework(t, r) /\ Len(frames[t]) < MaxDepth /\ (t # Loader => published)
    BY <1>1 DEF DriverFunctionEntered
  <2> HIDE DEF r
  <2>3. FrameOK(t, r)
    BY <2>1, <2>2 DEF FrameOK
  <2> QED BY <1>a, <2>1, <2>2, <2>3, CallFrameworkMatch
<1>2. ASSUME NEW err \in BOOLEAN, NEW concrete \in BOOLEAN,
             DriverFunctionReturned(t, err, concrete)
      PROVE  MatchInv'
  <2> DEFINE fn == frames[t][Len(frames[t])].fn
             r == [op |-> "exit", wrapper |-> "PREPOSTFN", fn |-> fn,
                   valid |-> fn \notin VoidFns, err |-> err, concrete |-> concrete]
  <2>1. frames[t] # <<>>
    BY <1>2 DEF DriverFunctionReturned, InDriver
  <2>2. fn \in Fns
    BY <2>1, TopFrame DEF Frame
  <2>3. CallFramework(t, r)
    BY <1>2 DEF DriverFunctionReturned
  <2>4. r \in Call /\ r.op = "exit" /\ Returning(r) /\ r.fn = fn
    <3> HIDE DEF fn
    <3> QED BY <2>2 DEF Call, Returning, Pushes
  <2> HIDE DEF r
  <2>5. FrameOK(t, r)
    BY <2>1, <2>4 DEF FrameOK
  <2> QED BY <2>3, <2>4, <2>5, CallFrameworkMatch
<1>3. ASSUME NEW fn \in KernelFns, KernelFunctionCalled(t, fn) PROVE MatchInv'
  <2> DEFINE r == [op |-> "exit", wrapper |-> "STUBWRAPPER", fn |-> fn,
                   valid |-> TRUE, err |-> FALSE, concrete |-> TRUE]
  <2>1. r \in Call /\ r.op = "exit" /\ ~Returning(r)
    BY DEF Call, Fns, Returning, Pushes
  <2>2. CallFramework(t, r) /\ Len(frames[t]) < MaxDepth
    BY <1>3 DEF KernelFunctionCalled
  <2> HIDE DEF r
  <2>3. FrameOK(t, r)
    BY <2>1, <2>2 DEF FrameOK
  <2> QED BY <2>1, <2>2, <2>3, CallFrameworkMatch
<1>4. ASSUME KernelFunctionReturned(t) PROVE MatchInv'
  <2> DEFINE fn == frames[t][Len(frames[t])].fn
             r == IF fn \in SymbolicFns /\ g_sym_retval # 0
                  THEN [EnterFromStub(fn) EXCEPT !.op = "symbolic"]
                  ELSE EnterFromStub(fn)
  <2>1. frames[t] # <<>>
    BY <1>4 DEF KernelFunctionReturned, InStub
  <2>2. fn \in Fns
    BY <2>1, TopFrame DEF Frame
  <2>3. CallFramework(t, r)
    BY <1>4 DEF KernelFunctionReturned
  <2>4. r \in Call /\ Returning(r) /\ r.fn = fn
    <3> HIDE DEF fn
    <3> QED BY <2>2 DEF EnterFromStub, Call, Returning, Pushes
  <2> HIDE DEF r
  <2>5. FrameOK(t, r)
    BY <2>1, <2>4 DEF FrameOK
  <2> QED BY <1>a, <2>1, <2>3, <2>4, <2>5, CallFrameworkMatch
<1>5. ASSUME NEW flags \in BOOLEAN, symdrive_annotation(t, flags) PROVE MatchInv'
  <2>1. Calls' /\ Once' /\ UsedSlots' >= 0 /\ NoFalseAssert'
    BY <1>5 DEF MatchInv, symdrive_annotation, Calls, CallOK, FrameOK, Once, UsedSlots,
                HalfDone, NoFalseAssert
  <2>2. \A fn : Uncounted(fn)' <=> Uncounted(fn)
    BY <1>5 DEF symdrive_annotation, Uncounted
  <2>3. Matched'
    BY <1>5, <2>2, MatchedAlone DEF MatchInv, symdrive_annotation
  <2> QED BY <2>1, <2>3 DEF MatchInv
<1> QED BY <1>1, <1>2, <1>3, <1>4, <1>5 DEF Outside

-----------------------------------------------------------------------------
(* The critical sections.                                                  *)

(* A thread that moves on with the same request, the same names and frames *)
(* and the same counter.                                                   *)
LEMMA MovesOn ==
  ASSUME IInv, MatchInv, NEW t \in Threads, pc[t] # "count",
         NEW p, p \notin {"count", "register"}, pc' = [pc EXCEPT ![t] = p],
         \A u \in Threads \ {t} : req'[u] = req[u],
         UNCHANGED <<dataVars, startVars, frames, path>>,
         CallOK(t)', HalfDone' <=> HalfDone
  PROVE  MatchInv'
<1>t. TypeOK
  BY DEF IInv
<1>1. \A u \in Threads \ {t} : pc'[u] = pc[u] /\ req'[u] = req[u] /\ frames'[u] = frames[u]
  BY <1>t DEF TypeOK
<1>2. Calls'
  BY <1>1, CallsAlone DEF MatchInv
<1>3. Matched'
  <2>1. \A fn \in Fns : Uncounted(fn)' <=> Uncounted(fn)
    BY <1>t, PlaceMoved
  <2> QED BY <2>1, MatchedAlone DEF MatchInv
<1>4. Once'
  BY <1>t, OnceAlone DEF MatchInv, Once
<1>5. UsedSlots' >= 0
  BY DEF MatchInv, UsedSlots
<1> QED BY <1>2, <1>3, <1>4, <1>5 DEF MatchInv, NoFalseAssert

(* gen_register_all_param finds no function registered.                    *)
LEMMA RegisterAllMatch ==
  ASSUME IInv, MatchInv, NEW t \in Threads, RegisterAll(t)
  PROVE  MatchInv'
<1>1. /\ pc[t] = "register" /\ ~registered /\ t = Loader
      /\ registered' = TRUE /\ first_time_in_driver' = FALSE
      /\ pc' = [pc EXCEPT ![t] = "acquire"]
      /\ UNCHANGED <<global_lock, dataVars, modeVars, published, path, req, frames, left_empty>>
  BY DEF RegisterAll, MatchInv, Once
<1>t. TypeOK
  BY DEF IInv
<1>2. pc'[t] = "acquire" /\ \A u \in Threads \ {t} : pc'[u] = pc[u]
  BY <1>1, <1>t DEF TypeOK
<1>3. Calls'
  <2>1. CallOK(t)'
    BY <1>1, <1>2 DEF MatchInv, Calls, CallOK, FrameOK
  <2> QED BY <1>1, <1>2, <2>1, CallsAlone DEF MatchInv
<1>4. Matched'
  <2>1. \A fn \in Fns : Uncounted(fn)' <=> Uncounted(fn)
    BY <1>1, <1>t, PlaceMoved
  <2> QED BY <1>1, <2>1, MatchedAlone DEF MatchInv
<1>5. Once'
  BY <1>1, <1>2 DEF MatchInv, Once
<1>6. UsedSlots' >= 0
  <2>1. HalfDone' <=> HalfDone
    BY <1>1, OutsideStep DEF CriticalSection
  <2> QED BY <1>1, <2>1 DEF MatchInv, UsedSlots
<1> QED BY <1>1, <1>3, <1>4, <1>5, <1>6 DEF MatchInv, NoFalseAssert

(* acquire_global_lock                                                     *)
LEMMA AcquireMatch ==
  ASSUME IInv, MatchInv, NEW t \in Threads, acquire_global_lock(t)
  PROVE  MatchInv'
<1> DEFINE p == CASE req[t].op = "symbolic" -> "symbolic"
                  [] req[t].op = "exit" -> "retval"
                  [] OTHER -> StackPhase(req[t])
<1>1. /\ pc[t] = "acquire" /\ global_lock = NULL /\ global_lock' = t
      /\ pc' = [pc EXCEPT ![t] = p]
      /\ UNCHANGED <<dataVars, modeVars, startVars, path, req, frames, left_empty>>
  BY DEF acquire_global_lock
<1>t. TypeOK
  BY DEF IInv
<1>2. /\ p \in {"symbolic", "retval", "push", "uncount"}
      /\ p = "symbolic" => req[t].op = "symbolic"
      /\ p = "retval" => req[t].op = "exit"
      /\ p = "push" => ~Returning(req[t])
      /\ p = "uncount" => Returning(req[t])
  BY DEF StackPhase, Returning
<1> HIDE DEF p
<1>3. pc'[t] = p
  BY <1>1, <1>t DEF TypeOK
<1>4. CallOK(t)'
  BY <1>1, <1>2, <1>3 DEF MatchInv, Calls, CallOK, FrameOK, Returning, Pushes
<1>5. HalfDone' <=> HalfDone
  BY <1>1, <1>2, <1>t DEF TypeOK, HalfDone
<1> QED BY <1>1, <1>2, <1>4, <1>5, MovesOn

(* The return-value half of gen_exit_driver changes no name.               *)
LEMMA HandleRetvalMatch ==
  ASSUME IInv, MatchInv, NEW t \in Threads, HandleRetval(t)
  PROVE  MatchInv'
<1> DEFINE r == req[t]
           forgiven == r.valid /\ r.concrete /\ g_symdrive_annotations
           e == r.err /\ ~forgiven
           p == StackPhase(r)
<1>1. CASE r.fn = StartingFn
  BY <1>1, KillMatch DEF HandleRetval
<1>2. CASE r.fn # StartingFn
  <2>1. /\ pc[t] = "retval"
        /\ req' = [req EXCEPT ![t].err = e]
        /\ pc' = [pc EXCEPT ![t] = p]
        /\ UNCHANGED <<global_lock, dataVars, startVars, path, frames>>
    BY <1>2 DEF HandleRetval
  <2>t. TypeOK /\ r \in Call
    BY <2>1 DEF IInv, TypeOK
  <2> HIDE DEF e
  <2>2. /\ pc'[t] = p /\ \A u \in Threads \ {t} : req'[u] = req[u]
        /\ req'[t] = [r EXCEPT !.err = e]
    BY <2>1, <2>t DEF TypeOK
  <2>3. req'[t].fn = r.fn /\ req'[t].op = r.op /\ req'[t].wrapper = r.wrapper
    BY <2>2, <2>t DEF Call
  <2>4. Returning(req[t])' <=> Returning(req[t])
    BY <2>3 DEF Returning, Pushes
  <2>5. p \in {"push", "uncount"}
    BY DEF StackPhase
  <2>6. /\ p = "push" => ~Returning(r)
        /\ p = "uncount" => Returning(r)
    <3>1. r.op = "exit"
      BY <2>1 DEF MatchInv, Calls, CallOK
    <3> QED BY <3>1 DEF StackPhase, Returning
  <2> HIDE DEF p
  <2>7. CallOK(t)'
    BY <2>1, <2>2, <2>3, <2>4, <2>5, <2>6 DEF MatchInv, Calls, CallOK, FrameOK
  <2>8. HalfDone' <=> HalfDone
    BY <2>1, <2>5, <2>t DEF TypeOK, HalfDone
  <2> QED BY <2>1, <2>2, <2>5, <2>7, <2>8, MovesOn
<1> QED BY <1>1, <1>2

(* gen_make_symbolic_*: the call goes on as an entry from the same stub.   *)
LEMMA MakeSymbolicMatch ==
  ASSUME IInv, MatchInv, NEW t \in Threads, MakeSymbolic(t)
  PROVE  MatchInv'
<1>1. CASE Kill("extra")
  BY <1>1, KillMatch
<1>2. CASE ~Kill("extra")
  <2>1. /\ pc[t] = "symbolic"
        /\ req' = [req EXCEPT ![t] = EnterFromStub(req[t].fn)]
        /\ pc' = [pc EXCEPT ![t] = IF first_time_in_driver THEN "register" ELSE "acquire"]
        /\ UNCHANGED <<dataVars, startVars, path, frames>>
    BY <1>2 DEF MakeSymbolic
  <2>t. TypeOK
    BY DEF IInv
  <2>2. ~first_time_in_driver
    BY <2>1 DEF IInv, Registration, MatchInv, Once
  <2>3. pc' = [pc EXCEPT ![t] = "acquire"]
    BY <2>1, <2>2
  <2>4. /\ pc'[t] = "acquire" /\ \A u \in Threads \ {t} : req'[u] = req[u]
        /\ req'[t] = EnterFromStub(req[t].fn)
    BY <2>1, <2>3, <2>t DEF TypeOK
  <2>5. /\ req'[t].fn = req[t].fn /\ req'[t].op = "enter" /\ req'[t].wrapper = "STUBWRAPPER"
    BY <2>4 DEF EnterFromStub
  <2>6. Returning(req[t])' /\ Returning(req[t])
    BY <2>1, <2>5 DEF Returning, Pushes, MatchInv, Calls, CallOK
  <2>7. CallOK(t)'
    BY <2>1, <2>4, <2>5, <2>6 DEF MatchInv, Calls, CallOK, FrameOK
  <2>8. HalfDone' <=> HalfDone
    BY <2>1, <2>3, <2>t DEF TypeOK, HalfDone
  <2> QED BY <2>1, <2>3, <2>4, <2>7, <2>8, MovesOn
<1> QED BY <1>1, <1>2

(* After the lock is released nothing is in flight.                        *)
LEMMA PostExitMatch ==
  ASSUME IInv, MatchInv, NEW t \in Threads, PostExit(t) \/ PostExitIrq(t)
  PROVE  MatchInv'
<1>1. PICK p \in {"irq", "run"} : pc' = [pc EXCEPT ![t] = p]
  BY DEF PostExit, PostExitIrq
<1>2. /\ pc[t] \in {"post_exit", "irq"}
      /\ UNCHANGED <<dataVars, startVars, path, req, frames>>
  BY DEF PostExit, PostExitIrq
<1>3. TypeOK /\ pc'[t] = p
  BY <1>1 DEF IInv, TypeOK
<1>4. CallOK(t)'
  BY <1>2, <1>3 DEF MatchInv, Calls, CallOK
<1>5. HalfDone' <=> HalfDone
  BY <1>1, <1>2, <1>3 DEF TypeOK, HalfDone
<1> QED BY <1>1, <1>2, <1>4, <1>5, MovesOn

(* Nobody else is between Push and Count while a thread holds the lock.    *)
LEMMA AloneInside ==
  ASSUME IInv, NEW t \in Threads, pc[t] \in CriticalSection, NEW fn
  PROVE  /\ Uncounted(fn) <=> pc[t] = "count" /\ req[t].fn = fn
         /\ \A u \in Threads \ {t} : pc[u] \notin CriticalSection
<1>1. \A u \in Threads \ {t} : pc[u] \notin CriticalSection
  BY DEF IInv, Mutex
<1> QED BY <1>1 DEF Uncounted, CriticalSection

(* push_driver_call_stack finds the counter in range and the slot free.    *)
LEMMA PushMatch ==
  ASSUME IInv, MatchInv, path = "running", NEW t \in Threads, Push(t)
  PROVE  MatchInv'
<1> DEFINE n == driver_call_stack
           f == req[t].fn
<1>t. TypeOK /\ pc[t] = "push" /\ pc[t] \in CriticalSection /\ "count" \in CriticalSection
  BY DEF IInv, Push, CriticalSection
<1>1. ~HalfDone
  BY <1>t, AloneInside DEF HalfDone, CriticalSection
<1>2. /\ n \in Slots /\ StackInRange(n) /\ n >= 0
      /\ driver_call_stack_str[n] = NULL
  <2>1. /\ n >= 0 /\ n \in -1 .. MaxStack - 2
        /\ \A i \in Slots : driver_call_stack_str[i] # NULL <=> i < n
    BY <1>1 DEF MatchInv, UsedSlots, IInv, NameStack
  <2> QED BY <2>1, SizesAssumption DEF StackInRange, Slots
<1>3. /\ driver_call_stack_str' = [driver_call_stack_str EXCEPT ![n] = f]
      /\ pc' = [pc EXCEPT ![t] = "count"]
      /\ UNCHANGED <<global_lock, driver_call_stack, modeVars, startVars, path, req,
                     frames, left_empty>>
  BY <1>2 DEF Push
<1>4. f \in Fns
  BY <1>t DEF TypeOK, Call
<1>5. pc'[t] = "count" /\ \A u \in Threads \ {t} : pc'[u] = pc[u]
  BY <1>3, <1>t DEF TypeOK
<1>6. Calls'
  <2>1. CallOK(t)'
    BY <1>t, <1>3, <1>5 DEF MatchInv, Calls, CallOK, FrameOK
  <2> QED BY <1>3, <1>5, <2>1, CallsAlone DEF MatchInv
<1>7. Matched'
  <2> SUFFICES ASSUME NEW fn \in Fns
               PROVE  /\ IsFiniteSet(FramesOf(fn)')
                      /\ Cardinality(SlotsOf(fn)') =
                           Cardinality(FramesOf(fn)') + IF Uncounted(fn)' THEN 1 ELSE 0
    BY DEF Matched
  <2>1. FramesOf(fn)' = FramesOf(fn) /\ IsFiniteSet(FramesOf(fn))
    BY <1>3 DEF FramesOf, MatchInv, Matched
  <2>2. ~Uncounted(fn)
    BY <1>t, AloneInside
  <2>3. Uncounted(fn)' <=> fn = f
    <3>1. \A u \in Threads \ {t} : pc'[u] # "count"
      BY <1>t, <1>5, AloneInside DEF CriticalSection
    <3> QED BY <1>3, <1>5, <3>1 DEF Uncounted
  <2>4. Cardinality(SlotsOf(fn)') = Cardinality(SlotsOf(fn)) + IF fn = f THEN 1 ELSE 0
    BY <1>t, <1>2, <1>3, <1>4, SlotPushed
  <2>5. Cardinality(SlotsOf(fn)) = Cardinality(FramesOf(fn))
    BY <2>1, <2>2, FS_CardinalityType DEF MatchInv, Matched
  <2>6. Cardinality(FramesOf(fn)) \in Nat
    BY <2>1, FS_CardinalityType
  <2> QED BY <2>1, <2>3, <2>4, <2>5, <2>6
<1>8. Once'
  BY <1>3, <1>t, OnceAlone DEF MatchInv, Once
<1>9. UsedSlots' >= 0
  BY <1>2, <1>3, <1>t DEF UsedSlots, TypeOK
<1> QED BY <1>3, <1>6, <1>7, <1>8, <1>9 DEF MatchInv, NoFalseAssert

(* manage_call_stack's increment: the name pushed gets its frame.          *)
LEMMA CountMatch ==
  ASSUME IInv, MatchInv, path = "running", NEW t \in Threads, Count(t)
  PROVE  MatchInv'
<1> DEFINE r == req[t]
           n == driver_call_stack + 1
           f == [fn |-> r.fn, wrapper |-> r.wrapper]
<1>1. CASE ~(0 <= n /\ n < MaxStack - 1)
  BY <1>1, KillMatch DEF Count
<1>2. CASE 0 <= n /\ n < MaxStack - 1
  <2>1. /\ pc[t] = "count"
        /\ driver_call_stack' = n
        /\ frames' = [frames EXCEPT ![t] = Append(frames[t], f)]
        /\ req' = [req EXCEPT ![t] = NULL]
        /\ published' = (published \/ r.wrapper = "STUBWRAPPER")
        /\ pc' = [pc EXCEPT ![t] = "run"]
        /\ UNCHANGED <<driver_call_stack_str, first_time_in_driver, registered, path>>
    BY <1>2 DEF Count
  <2>t. /\ TypeOK /\ pc[t] \in CriticalSection /\ r \in Call /\ Len(frames[t]) < MaxDepth
        /\ registered
    BY <2>1 DEF IInv, TypeOK, CriticalSection, MatchInv, Calls, CallOK, FrameOK, Registration
  <2>f. f \in Frame /\ f.fn = r.fn
    BY <2>t DEF Call, Frame
  <2> HIDE DEF f
  <2>2. /\ pc'[t] = "run"
        /\ \A u \in Threads \ {t} : pc'[u] = pc[u] /\ req'[u] = req[u] /\ frames'[u] = frames[u]
    BY <2>1, <2>t DEF TypeOK
  <2>3. Matched'
    <3> SUFFICES ASSUME NEW fn \in Fns
                 PROVE  /\ IsFiniteSet(FramesOf(fn)')
                        /\ Cardinality(SlotsOf(fn)') =
                             Cardinality(FramesOf(fn)') + IF Uncounted(fn)' THEN 1 ELSE 0
      BY DEF Matched
    <3>1. SlotsOf(fn)' = SlotsOf(fn) /\ IsFiniteSet(FramesOf(fn))
      BY <2>1 DEF SlotsOf, MatchInv, Matched
    <3>2. Uncounted(fn) <=> fn = r.fn
      BY <2>1, <2>t, AloneInside
    <3>3. ~Uncounted(fn)'
      <4>1. \A u \in Threads \ {t} : pc'[u] # "count"
        BY <2>t, <2>2, AloneInside DEF CriticalSection
      <4> QED BY <2>2, <4>1 DEF Uncounted
    <3>4. /\ IsFiniteSet(FramesOf(fn)')
          /\ Cardinality(FramesOf(fn)') = Cardinality(FramesOf(fn)) + IF fn = f.fn THEN 1 ELSE 0
      BY <2>1, <2>t, <2>f, <3>1, FramePushed
    <3>5. Cardinality(SlotsOf(fn)) = Cardinality(FramesOf(fn)) + IF fn = f.fn THEN 1 ELSE 0
      BY <2>f, <3>2 DEF MatchInv, Matched
    <3>6. Cardinality(FramesOf(fn)') \in Nat
      BY <3>4, FS_CardinalityType
    <3> QED BY <3>1, <3>3, <3>4, <3>5, <3>6
  <2>4. Calls'
    <3>1. Len(frames'[t]) = Len(frames[t]) + 1
      <4>1. r.fn \in Fns
        BY <2>t DEF Call
      <4>2. IsFiniteSet(FramesOf(r.fn))
        BY <4>1 DEF MatchInv, Matched
      <4> QED BY <2>1, <2>t, <2>f, <4>1, <4>2, FramePushed
    <3>2. Len(frames'[t]) <= MaxDepth
      <4>1. Len(frames[t]) \in Nat
        BY <2>t, LenProperties DEF TypeOK
      <4> QED BY <2>t, <3>1, <4>1, SizesAssumption
    <3>3. CallOK(t)'
      BY <2>2, <3>2 DEF CallOK
    <3> QED BY <2>2, <3>3, CallsAlone DEF MatchInv
  <2>5. Once'
    BY <2>1, <2>t, OnceAlone DEF MatchInv
  <2>6. UsedSlots' >= 0
    BY <1>2, <2>1, <2>t DEF UsedSlots, TypeOK
  <2> QED BY <2>1, <2>3, <2>4, <2>5, <2>6 DEF MatchInv, NoFalseAssert
<1> QED BY <1>1, <1>2

(* A thread that leaves finds its own function on the stack.               *)
LEMMA OnStack ==
  ASSUME IInv, MatchInv, NEW t \in Threads, pc[t] \in {"uncount", "pop"}
  PROVE  \E i \in Slots : driver_call_stack_str[i] = req[t].fn
<1> DEFINE f == req[t].fn
           m == Len(frames[t])
<1>1. TypeOK /\ f \in Fns /\ pc[t] \in CriticalSection
  BY DEF IInv, TypeOK, Call, CriticalSection
<1>2. frames[t] # <<>> /\ frames[t][m].fn = f /\ m <= MaxDepth
  BY DEF MatchInv, Calls, CallOK, FrameOK
<1>3. m \in Nat /\ m # 0
  BY <1>1, <1>2, LenProperties, EmptySeq DEF TypeOK
<1>4. <<t, m>> \in FramesOf(f)
  <2> HIDE DEF m
  <2>1. m \in 1 .. MaxDepth /\ m <= m
    BY <1>2, <1>3, SizesAssumption
  <2> QED BY <1>2, <2>1 DEF FramesOf, m
<1> HIDE DEF f, m
<1>5. IsFiniteSet(FramesOf(f)) /\ Cardinality(FramesOf(f)) \in Nat \ {0}
  BY <1>1, <1>4, FS_CardinalityType, FS_EmptySet DEF MatchInv, Matched
<1>6. ~Uncounted(f)
  BY <1>1, AloneInside
<1>7. Cardinality(SlotsOf(f)) # 0
  BY <1>1, <1>5, <1>6 DEF MatchInv, Matched
<1>8. SlotsOf(f) # {}
  BY <1>7, FS_EmptySet
<1> QED BY <1>8 DEF SlotsOf, f

(* manage_call_stack's decrement finds the caller's name on the stack, so  *)
(* the counter is not 0.                                                   *)
LEMMA UncountMatch ==
  ASSUME IInv, MatchInv, path = "running", NEW t \in Threads, Uncount(t)
  PROVE  MatchInv'
<1> DEFINE n == driver_call_stack
           f == req[t].fn
<1>t. TypeOK /\ pc[t] = "uncount" /\ pc[t] \in CriticalSection
  BY DEF IInv, Uncount, CriticalSection
<1>1. ~HalfDone
  BY <1>t, AloneInside DEF HalfDone, CriticalSection
<1>2. f \in Fns
  BY <1>t DEF TypeOK, Call
<1>3. PICK i \in Slots : driver_call_stack_str[i] = f
  BY <1>t, OnStack
<1>4. n \in 1 .. MaxStack - 2
  <2>1. f # NULL /\ n \in -1 .. MaxStack - 2 /\ i < n
    BY <1>1, <1>2, <1>3, FnsAssumption DEF UsedSlots, IInv, NameStack
  <2> QED BY <2>1, SizesAssumption DEF Slots
<1>5. /\ driver_call_stack' = n - 1
      /\ pc' = [pc EXCEPT ![t] = "pop"]
      /\ UNCHANGED <<global_lock, driver_call_stack_str, modeVars, startVars, path, req,
                     frames, left_empty>>
  BY <1>4, SizesAssumption DEF Uncount, StackInRange
<1>6. pc'[t] = "pop" /\ \A u \in Threads \ {t} : pc'[u] = pc[u]
  BY <1>5, <1>t DEF TypeOK
<1>7. Calls'
  <2>1. CallOK(t)'
    BY <1>t, <1>5, <1>6 DEF MatchInv, Calls, CallOK, FrameOK
  <2> QED BY <1>5, <1>6, <2>1, CallsAlone DEF MatchInv
<1>8. Matched'
  <2>1. \A fn \in Fns : Uncounted(fn)' <=> Uncounted(fn)
    BY <1>5, <1>t, PlaceMoved
  <2> QED BY <1>5, <2>1, MatchedAlone DEF MatchInv
<1>9. Once'
  BY <1>5, <1>t, OnceAlone DEF MatchInv, Once
<1>10. UsedSlots' >= 0
  BY <1>4, <1>5 DEF UsedSlots
<1> QED BY <1>5, <1>7, <1>8, <1>9, <1>10 DEF MatchInv, NoFalseAssert

(* pop_driver_call_stack finds the name and the counter in range.          *)
LEMMA PopMatch ==
  ASSUME IInv, MatchInv, path = "running", NEW t \in Threads, Pop(t)
  PROVE  MatchInv'
<1> DEFINE r == req[t]
<1>t. TypeOK /\ pc[t] = "pop" /\ pc[t] \in CriticalSection /\ r \in Call /\ r.fn \in Fns
  BY DEF IInv, TypeOK, Pop, CriticalSection, Call
<1>f. frames[t] # <<>> /\ frames[t][Len(frames[t])].fn = r.fn /\ Len(frames[t]) <= MaxDepth
  BY <1>t DEF MatchInv, Calls, CallOK, FrameOK
<1>1. PICK j \in Slots : driver_call_stack_str[j] = r.fn
  BY <1>t, OnStack
<1>2. HalfDone /\ driver_call_stack \in 0 .. MaxStack - 2 /\ StackInRange(driver_call_stack)
  <2>1. HalfDone /\ driver_call_stack \in -1 .. MaxStack - 2 /\ driver_call_stack_str[j] # NULL
    BY <1>t, <1>1, FnsAssumption DEF HalfDone, IInv, NameStack
  <2>2. j < driver_call_stack + 1
    BY <2>1 DEF IInv, NameStack, UsedSlots
  <2> QED BY <2>1, <2>2, SizesAssumption DEF StackInRange, Slots
<1>3. PICK i \in Slots, p \in {"run", "post_exit"} :
        /\ IsLastSlotOf(i, r.fn)
        /\ driver_call_stack_str' = WithoutSlot(i)
        /\ frames' = [frames EXCEPT ![t] = SubSeq(@, 1, Len(@) - 1)]
        /\ req' = [req EXCEPT ![t] = NULL]
        /\ pc' = [pc EXCEPT ![t] = p]
        /\ path' # "assert"
        /\ UNCHANGED <<driver_call_stack, startVars>>
  <2>2. PICK i \in Slots :
          /\ IsLastSlotOf(i, r.fn)
          /\ driver_call_stack_str' = WithoutSlot(i)
          /\ frames' = [frames EXCEPT ![t] = SubSeq(@, 1, Len(@) - 1)]
          /\ req' = [req EXCEPT ![t] = NULL]
          /\ FinishExit(t) \/ FinishEnter(t)
          /\ UNCHANGED <<driver_call_stack, startVars>>
    BY <1>1, <1>2 DEF Pop
  <2>3. FinishExit(t) => path' # "assert"
    BY <1>t, VerdictType DEF FinishExit
  <2>4. FinishEnter(t) => path' # "assert"
    BY DEF FinishEnter
  <2>5. PICK p \in {"run", "post_exit"} : pc' = [pc EXCEPT ![t] = p]
    BY <2>2 DEF FinishExit, FinishEnter
  <2> QED BY <2>2, <2>3, <2>4, <2>5
<1>4. /\ pc'[t] = p
      /\ \A u \in Threads \ {t} : pc'[u] = pc[u] /\ req'[u] = req[u] /\ frames'[u] = frames[u]
  BY <1>3, <1>t DEF TypeOK
<1>5. Matched'
  <2> SUFFICES ASSUME NEW fn \in Fns
               PROVE  /\ IsFiniteSet(FramesOf(fn)')
                      /\ Cardinality(SlotsOf(fn)') =
                           Cardinality(FramesOf(fn)') + IF Uncounted(fn)' THEN 1 ELSE 0
    BY DEF Matched
  <2>1. IsFiniteSet(FramesOf(fn)) /\ Cardinality(FramesOf(fn)) \in Nat
    BY FS_CardinalityType DEF MatchInv, Matched
  <2>2. ~Uncounted(fn) /\ ~Uncounted(fn)'
    <3>1. \A u \in Threads \ {t} : pc'[u] # "count"
      BY <1>t, <1>4, AloneInside DEF CriticalSection
    <3> QED BY <1>t, <1>4, <3>1, AloneInside DEF Uncounted
  <2>3. /\ IsFiniteSet(FramesOf(fn)')
        /\ Cardinality(FramesOf(fn)') = Cardinality(FramesOf(fn)) - IF fn = r.fn THEN 1 ELSE 0
    BY <1>3, <1>t, <1>f, <2>1, FramePopped
  <2>4. Cardinality(SlotsOf(fn)') = Cardinality(SlotsOf(fn)) - IF fn = r.fn THEN 1 ELSE 0
    BY <1>3, <1>t, SlotPopped
  <2>5. Cardinality(SlotsOf(fn)) = Cardinality(FramesOf(fn))
    BY <2>1, <2>2 DEF MatchInv, Matched
  <2>6. Cardinality(FramesOf(fn)') \in Nat
    BY <2>3, FS_CardinalityType
  <2> QED BY <2>2, <2>3, <2>4, <2>5, <2>6
<1>6. Calls'
  <2>1. Len(frames'[t]) = Len(frames[t]) - 1
    <3>1. IsFiniteSet(FramesOf(r.fn))
      BY <1>t DEF MatchInv, Matched
    <3> QED BY <1>3, <1>t, <1>f, <3>1, FramePopped
  <2>2. Len(frames'[t]) <= MaxDepth
    <3>1. Len(frames[t]) \in Nat
      BY <1>t, LenProperties DEF TypeOK
    <3> QED BY <1>f, <2>1, <3>1, SizesAssumption
  <2>3. CallOK(t)'
    BY <1>4, <2>2 DEF CallOK
  <2> QED BY <1>4, <2>3, CallsAlone DEF MatchInv
<1>7. Once'
  BY <1>3, <1>t, OnceAlone DEF MatchInv, Once
<1>8. UsedSlots' >= 0
  BY <1>2, <1>3 DEF UsedSlots
<1> QED BY <1>3, <1>5, <1>6, <1>7, <1>8 DEF MatchInv, NoFalseAssert

-----------------------------------------------------------------------------
(* Every step of every thread preserves MatchInv.                          *)
LEMMA NextMatch == IInv /\ MatchInv /\ [Next]_vars => MatchInv'
<1> SUFFICES ASSUME IInv, MatchInv, [Next]_vars PROVE MatchInv'
  OBVIOUS
<1>1. CASE UNCHANGED vars
  <2>1. Calls' /\ Once' /\ UsedSlots' >= 0 /\ NoFalseAssert'
    BY <1>1 DEF vars, MatchInv, Calls, CallOK, FrameOK, Once, UsedSlots, HalfDone, NoFalseAssert
  <2>2. \A fn : Uncounted(fn)' <=> Uncounted(fn)
    BY <1>1 DEF vars, Uncounted
  <2>3. Matched'
    BY <1>1, <2>2, MatchedAlone DEF vars, MatchInv
  <2> QED BY <2>1, <2>3 DEF MatchInv
<1>2. CASE Next
  <2>1. path = "running"
    BY <1>2 DEF Next
  <2>2. PICK t \in Threads : Outside(t) \/ acquire_global_lock(t) \/ Inside(t)
    BY <1>2 DEF Next
  <2>3. CASE Outside(t)
    BY <2>3, OutsideMatch
  <2>4. CASE acquire_global_lock(t)
    BY <2>4, AcquireMatch
  <2>5. CASE Inside(t)
    BY <2>1, <2>5, RegisterAllMatch, HandleRetvalMatch, PushMatch, CountMatch, UncountMatch,
       PopMatch, MakeSymbolicMatch, PostExitMatch DEF Inside
  <2> QED BY <2>2, <2>3, <2>4, <2>5
<1> QED BY <1>1, <1>2

(* Nothing is open at the start.                                           *)
LEMMA InitMatch == Init => MatchInv
<1> SUFFICES ASSUME Init PROVE MatchInv
  OBVIOUS
<1>1. \A t \in Threads : pc[t] = "run" /\ frames[t] = <<>> /\ Len(frames[t]) = 0
  BY DEF Init
<1>2. Calls
  BY <1>1, SizesAssumption DEF Calls, CallOK
<1>3. Matched
  <2> SUFFICES ASSUME NEW fn \in Fns
               PROVE  /\ IsFiniteSet(FramesOf(fn))
                      /\ Cardinality(SlotsOf(fn)) =
                           Cardinality(FramesOf(fn)) + IF Uncounted(fn) THEN 1 ELSE 0
    BY DEF Matched
  <2>1. FramesOf(fn) = {}
    <3>1. \A p \in Threads \X (1 .. MaxDepth) : ~(p[2] <= Len(frames[p[1]]))
      BY <1>1, SizesAssumption
    <3> QED BY <3>1 DEF FramesOf
  <2>2. SlotsOf(fn) = {}
    BY FnsAssumption DEF Init, SlotsOf
  <2>3. ~Uncounted(fn)
    BY <1>1 DEF Uncounted
  <2> QED BY <2>1, <2>2, <2>3, FS_EmptySet
<1>4. Once
  BY <1>1 DEF Init, Once
<1>5. UsedSlots >= 0
  BY DEF Init, UsedSlots
<1> QED BY <1>2, <1>3, <1>4, <1>5 DEF Init, MatchInv, NoFalseAssert

(* With the lock free, the names on driver_call_stack_str are, each as     *)
(* often, the functions the threads are really inside of.                  *)
THEOREM StackIsFrames == Spec => []StackMatchesFrames
<1>1. IInv /\ MatchInv => StackMatchesFrames
  <2> SUFFICES ASSUME IInv, MatchInv, global_lock = NULL, NEW fn \in Fns
               PROVE  Cardinality(SlotsOf(fn)) = Cardinality(FramesOf(fn))
    BY DEF StackMatchesFrames
  <2>1. ~Uncounted(fn)
    BY ThreadsAssumption DEF IInv, Mutex, CriticalSection, Uncounted
  <2> QED BY <2>1, FS_CardinalityType DEF MatchInv, Matched
<1> QED BY <1>1, InitInv, NextInv, InitMatch, NextMatch, PTL DEF Spec

(* The framework's own assertions never fire: the counter is in range at   *)
(* every push and pop, the caller's name is always found, and the          *)
(* registration runs once.                                                 *)
THEOREM NoAssertFires == Spec => []NoFalseAssert
<1>1. MatchInv => NoFalseAssert
  BY DEF MatchInv
<1> QED BY <1>1, InitInv, NextInv, InitMatch, NextMatch, PTL DEF Spec
=============================================================================
