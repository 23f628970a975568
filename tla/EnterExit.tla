------------------------------ MODULE EnterExit ------------------------------
(***************************************************************************)
(* gtf/enter_exit.c and gtf/global_lock.c: the bookkeeping that runs every *)
(* time control crosses the boundary between the driver and the kernel.    *)
(*                                                                         *)
(* SymGen (splitter_dri.ml) wraps every driver function in a prefn / post- *)
(* fn pair and every kernel function in a stub, so that                    *)
(*   - a driver function starts with gen_enter_driver(fn, PREPOSTFN) and   *)
(*     ends with gen_exit_driver(fn, PREPOSTFN);                           *)
(*   - a kernel function is preceded by gen_exit_driver(fn, STUBWRAPPER),  *)
(*     followed by gen_make_symbolic_int/ptr when its return value is a    *)
(*     standard one, and then by gen_enter_driver(fn, STUBWRAPPER).        *)
(* Threads run these wrappers concurrently; the state is protected by the  *)
(* global spin lock, except first_time_in_driver and the read of           *)
(* driver_call_stack that follows release_global_lock in gen_exit_driver.  *)
(*                                                                         *)
(* One behaviour is one S2E path.  s2e_kill_state ends the path: path then *)
(* holds the reason and nothing else happens.                              *)
(***************************************************************************)
EXTENDS Integers, Sequences, FiniteSets

CONSTANTS
  Threads,      \* kernel threads that run driver code
  Loader,       \* the thread that runs init_module
  EntryFns,     \* driver functions (wrapped in prefn/postfn)
  VoidFns,      \* driver functions whose wrapper passes retval_valid = 0
  KernelFns,    \* kernel functions (wrapped in stubs)
  SymbolicFns,  \* kernel functions whose return value is made symbolic
  StartingFn,   \* module parameter g_sym_starting_fn, or NULL
  SymRetvals,   \* values the module parameter g_sym_retval may have at load time
  MaxStack,     \* driver_call_stack_max
  MaxDepth,     \* bound: frames one thread may have open
  NULL

Fns == EntryFns \cup KernelFns
Slots == 0 .. MaxStack - 1

ASSUME ThreadsAssumption == Loader \in Threads /\ NULL \notin Threads
ASSUME FnsAssumption ==
  /\ VoidFns \subseteq EntryFns
  /\ SymbolicFns \subseteq KernelFns
  /\ EntryFns \cap KernelFns = {}
  /\ NULL \notin Fns
  /\ StartingFn \in Fns \cup {NULL}
ASSUME SizesAssumption ==
  /\ MaxStack \in Nat /\ MaxStack >= 2
  /\ MaxDepth \in Nat
  /\ SymRetvals \subseteq 0 .. 2

VARIABLES
  global_lock,             \* the thread that holds the lock, or NULL
  driver_call_stack,       \* number of wrapped functions on the call stacks
  driver_call_stack_str,   \* their names
  bad_path,                \* this path assumed a return value the kernel did not give
  g_sym_retval,            \* how return values are explored
  g_symdrive_annotations,  \* the driver asked for its return value to be forgiven
  first_time_in_driver,    \* static flag of gen_enter_driver
  registered,              \* gen_register_all has run
  published,               \* the driver has called into the kernel, which may know it now
  path,                    \* "running", or why the path was killed
  pc,                      \* what each thread is doing
  req,                     \* the framework call each thread is making
  frames,                  \* the wrapped functions each thread is inside of
  left_empty               \* threads whose last exit emptied the driver

dataVars == <<driver_call_stack, driver_call_stack_str>>
modeVars == <<bad_path, g_sym_retval, g_symdrive_annotations>>
startVars == <<first_time_in_driver, registered, published>>
threadVars == <<pc, req, frames, left_empty>>
vars == <<global_lock, dataVars, modeVars, startVars, path, threadVars>>

-----------------------------------------------------------------------------
Call == [op: {"enter", "exit", "symbolic"},
         wrapper: {"STUBWRAPPER", "PREPOSTFN"},
         fn: Fns,
         valid: BOOLEAN,      \* retval_valid
         err: BOOLEAN,        \* IS_ERR_VALUE(retval)
         concrete: BOOLEAN]   \* s2e_is_symbolic_symdrive(retval) == 0

Frame == [fn: Fns, wrapper: {"STUBWRAPPER", "PREPOSTFN"}]

KillReasons == {"assert", "overflow", "failure", "bad", "good", "coverage", "extra"}

CriticalSection == {"retval", "push", "count", "uncount", "pop", "symbolic"}

(* One type invariant for the call-stack variables and the threads.        *)
TypeOK ==
  /\ global_lock \in Threads \cup {NULL}
  /\ driver_call_stack \in Int
  /\ driver_call_stack_str \in [Slots -> Fns \cup {NULL}]
  /\ bad_path \in BOOLEAN
  /\ g_sym_retval \in 0 .. 2
  /\ g_symdrive_annotations \in BOOLEAN
  /\ first_time_in_driver \in BOOLEAN
  /\ registered \in BOOLEAN
  /\ published \in BOOLEAN
  /\ path \in {"running"} \cup KillReasons
  /\ pc \in [Threads -> {"run", "register", "acquire", "post_exit", "irq"} \cup CriticalSection]
  /\ req \in [Threads -> Call \cup {NULL}]
  /\ \A t \in Threads : pc[t] \notin {"run", "post_exit", "irq"} => req[t] \in Call
  /\ frames \in [Threads -> Seq(Frame)]
  /\ left_empty \subseteq Threads

Init ==
  /\ global_lock = NULL
  /\ driver_call_stack = 0
  /\ driver_call_stack_str = [i \in Slots |-> NULL]
  /\ bad_path = FALSE
  /\ g_sym_retval \in SymRetvals
  /\ g_symdrive_annotations = FALSE
  /\ first_time_in_driver = TRUE
  /\ registered = FALSE
  /\ published = FALSE
  /\ path = "running"
  /\ pc = [t \in Threads |-> "run"]
  /\ req = [t \in Threads |-> NULL]
  /\ frames = [t \in Threads |-> <<>>]
  /\ left_empty = {}

-----------------------------------------------------------------------------
(* The generated wrappers: who may make which framework call.              *)

InDriver(t) == frames[t] # <<>> /\ frames[t][Len(frames[t])].wrapper = "PREPOSTFN"
InStub(t) == frames[t] # <<>> /\ frames[t][Len(frames[t])].wrapper = "STUBWRAPPER"

(* s2e_kill_state: the path is over; its half-finished updates are never   *)
(* seen again, so they are not recorded.                                   *)
Kill(reason) ==
  /\ path' = reason
  /\ UNCHANGED <<global_lock, dataVars, modeVars, startVars, threadVars>>

(* Mutant: registration forgotten on entry points.                         *)
CallFrameworkStubOnly(t, r) ==
  /\ pc[t] = "run"
  /\ req' = [req EXCEPT ![t] = r]
  /\ pc' = [pc EXCEPT ![t] =
              IF r.op = "enter" /\ r.wrapper = "STUBWRAPPER" /\ first_time_in_driver
              THEN "register" ELSE "acquire"]
  /\ UNCHANGED <<global_lock, dataVars, modeVars, startVars, path, frames, left_empty>>

(* The unprotected prologue of gen_enter_driver: test first_time_in_driver. *)
CallFramework(t, r) ==
  /\ pc[t] = "run"
  /\ req' = [req EXCEPT ![t] = r]
  /\ pc' = [pc EXCEPT ![t] =
              IF r.op = "enter" /\ first_time_in_driver THEN "register" ELSE "acquire"]
  /\ UNCHANGED <<global_lock, dataVars, modeVars, startVars, path, frames, left_empty>>

(* prefn: the kernel calls an entry point (also from an interrupt or while *)
(* it runs a kernel function for the driver), or one driver function calls *)
(* another.  Nobody but the loader can reach the driver before the driver  *)
(* has made itself known to the kernel.                                    *)
DriverFunctionEntered(t, fn) ==
  /\ Len(frames[t]) < MaxDepth
  /\ t # Loader => published
  /\ CallFramework(t, [op |-> "enter", wrapper |-> "PREPOSTFN", fn |-> fn,
                       valid |-> FALSE, err |-> FALSE, concrete |-> TRUE])

(* postfn: a driver function returns; void functions pass no return value. *)
DriverFunctionReturned(t, err, concrete) ==
  LET fn == frames[t][Len(frames[t])].fn IN
  /\ InDriver(t)
  /\ fn \in VoidFns => ~err /\ concrete
  /\ CallFramework(t, [op |-> "exit", wrapper |-> "PREPOSTFN", fn |-> fn,
                       valid |-> fn \notin VoidFns, err |-> err, concrete |-> concrete])

(* Stub, first half: _retval_ was just set to 0, and retval_valid is 1.    *)
KernelFunctionCalled(t, fn) ==
  /\ InDriver(t)
  /\ Len(frames[t]) < MaxDepth
  /\ CallFramework(t, [op |-> "exit", wrapper |-> "STUBWRAPPER", fn |-> fn,
                       valid |-> TRUE, err |-> FALSE, concrete |-> TRUE])

EnterFromStub(fn) ==
  [op |-> "enter", wrapper |-> "STUBWRAPPER", fn |-> fn,
   valid |-> TRUE, err |-> FALSE, concrete |-> TRUE]

(* Stub, second half: gen_make_symbolic_* returns at once when             *)
(* g_sym_retval is 0; otherwise it takes the lock.                         *)
KernelFunctionReturned(t) ==
  LET fn == frames[t][Len(frames[t])].fn IN
  /\ InStub(t)
  /\ CallFramework(t, IF fn \in SymbolicFns /\ g_sym_retval # 0
                      THEN [EnterFromStub(fn) EXCEPT !.op = "symbolic"]
                      ELSE EnterFromStub(fn))

(* symdrive_annotation(flags), called by hand from driver code, no lock.   *)
symdrive_annotation(t, flags) ==
  /\ pc[t] = "run"
  /\ InDriver(t)
  /\ g_symdrive_annotations' = flags
  /\ UNCHANGED <<global_lock, dataVars, bad_path, g_sym_retval, startVars, path, threadVars>>

(* Mutant: first_time_in_driver is never cleared.                          *)
RegisterAllNoReset(t) ==
  /\ pc[t] = "register"
  /\ \/ registered /\ Kill("assert")
     \/ /\ ~registered
        /\ registered' = TRUE
        /\ pc' = [pc EXCEPT ![t] = "acquire"]
        /\ UNCHANGED <<global_lock, dataVars, modeVars, first_time_in_driver, published, path,
                       req, frames, left_empty>>

(* gen_register_all_param(): gen_register_one asserts that no function is  *)
(* in the table yet, so a second registration kills the path.              *)
RegisterAll(t) ==
  /\ pc[t] = "register"
  /\ \/ registered /\ Kill("assert")
     \/ /\ ~registered
        /\ registered' = TRUE
        /\ first_time_in_driver' = FALSE
        /\ pc' = [pc EXCEPT ![t] = "acquire"]
        /\ UNCHANGED <<global_lock, dataVars, modeVars, published, path, req, frames, left_empty>>

-----------------------------------------------------------------------------
(* The critical sections of gen_enter_driver, gen_exit_driver and          *)
(* gen_make_symbolic_int/ptr.                                              *)

(* manage_call_stack: entering a driver function and leaving for a kernel  *)
(* function push a name; the two opposite crossings pop one.               *)
Pushes(r) == (r.op = "enter") <=> (r.wrapper = "PREPOSTFN")

StackPhase(r) == IF Pushes(r) THEN "push" ELSE "uncount"

acquire_global_lock(t) ==
  /\ pc[t] = "acquire"
  /\ global_lock = NULL
  /\ global_lock' = t
  /\ pc' = [pc EXCEPT ![t] = CASE req[t].op = "symbolic" -> "symbolic"
                               [] req[t].op = "exit" -> "retval"
                               [] OTHER -> StackPhase(req[t])]
  /\ UNCHANGED <<dataVars, modeVars, startVars, path, req, frames, left_empty>>

(* gen_exit_driver up to verify_invariants: handle_max_coverage(EXIT) ends *)
(* every path out of the starting function; a concrete return value        *)
(* consumes a pending annotation, which turns it into a success.           *)
HandleRetval(t) ==
  LET r == req[t]
      forgiven == r.valid /\ r.concrete /\ g_symdrive_annotations IN
  /\ pc[t] = "retval"
  /\ \/ r.fn = StartingFn /\ Kill("coverage")
     \/ /\ r.fn # StartingFn
        /\ g_symdrive_annotations' = (g_symdrive_annotations /\ ~forgiven)
        /\ req' = [req EXCEPT ![t].err = r.err /\ ~forgiven]
        /\ pc' = [pc EXCEPT ![t] = StackPhase(r)]
        /\ UNCHANGED <<global_lock, dataVars, bad_path, g_sym_retval, startVars, path,
                       frames, left_empty>>

StackInRange(n) == 0 <= n /\ n < MaxStack

(* push_driver_call_stack *)
Push(t) ==
  /\ pc[t] = "push"
  /\ \/ ~StackInRange(driver_call_stack) /\ Kill("assert")
     \/ /\ StackInRange(driver_call_stack)
        /\ driver_call_stack_str' =
             [driver_call_stack_str EXCEPT ![driver_call_stack] = req[t].fn]
        /\ pc' = [pc EXCEPT ![t] = "count"]
        /\ UNCHANGED <<global_lock, driver_call_stack, modeVars, startVars, path, req,
                       frames, left_empty>>

(* handle_max_coverage(ENTRANCE): reaching the starting function switches  *)
(* to exhaustive exploration of return values.                             *)
CoverageMode(r) == IF r.op = "enter" /\ r.fn = StartingFn THEN 1 ELSE g_sym_retval

(* The rest of manage_call_stack and verify_invariants after a push, then  *)
(* release_global_lock.  After a push the stack is not empty, so           *)
(* gen_exit_driver's verify_retval does not apply.                         *)
Count(t) ==
  LET r == req[t]
      n == driver_call_stack + 1 IN
  /\ pc[t] = "count"
  /\ \/ ~(0 <= n /\ n < MaxStack - 1) /\ Kill("overflow")
     \/ /\ 0 <= n /\ n < MaxStack - 1
        /\ driver_call_stack' = n
        /\ g_sym_retval' = CoverageMode(r)
        /\ global_lock' = NULL
        /\ frames' = [frames EXCEPT ![t] = Append(@, [fn |-> r.fn, wrapper |-> r.wrapper])]
        /\ req' = [req EXCEPT ![t] = NULL]
        /\ published' = (published \/ r.wrapper = "STUBWRAPPER")
        /\ pc' = [pc EXCEPT ![t] = "run"]
        /\ UNCHANGED <<driver_call_stack_str, bad_path, g_symdrive_annotations,
                       first_time_in_driver, registered, path, left_empty>>

Uncount(t) ==
  /\ pc[t] = "uncount"
  /\ \/ ~StackInRange(driver_call_stack) /\ Kill("assert")
     \/ /\ StackInRange(driver_call_stack)
        /\ driver_call_stack' = driver_call_stack - 1
        /\ pc' = [pc EXCEPT ![t] = "pop"]
        /\ UNCHANGED <<global_lock, driver_call_stack_str, modeVars, startVars, path, req,
                       frames, left_empty>>

(* pop_driver_call_stack: the highest slot holding fn is closed up.        *)
IsLastSlotOf(i, fn) ==
  /\ driver_call_stack_str[i] = fn
  /\ \A j \in Slots : j > i => driver_call_stack_str[j] # fn

(* Mutants: the last slot dropped; the top slot popped instead of slot i;  *)
(* slot i only set to NULL.                                                *)
WithoutSlotShort(i) ==
  [j \in 0 .. MaxStack - 2 |-> IF j < i THEN driver_call_stack_str[j]
                               ELSE driver_call_stack_str[j + 1]]

WithoutTopSlot(i) ==
  [j \in Slots |-> IF j < driver_call_stack THEN driver_call_stack_str[j] ELSE NULL]

WithoutSlotNoShift(i) == [driver_call_stack_str EXCEPT ![i] = NULL]

WithoutSlot(i) ==
  [j \in Slots |-> IF j < i THEN driver_call_stack_str[j]
                   ELSE IF j < MaxStack - 1 THEN driver_call_stack_str[j + 1]
                   ELSE NULL]

(* Mutant: bad_path is not looked at.                                      *)
ExitVerdictNoBadPath(r) ==
  CASE ~r.valid \/ g_sym_retval = 0 -> "running"
    [] r.valid /\ r.err /\ ~g_symdrive_annotations -> "failure"
    [] r.valid /\ g_sym_retval = 1 -> "good"
    [] OTHER -> "running"

(* verify_retval and verify_symretval at EXIT with an empty stack: the     *)
(* reason to kill the path, or "running".                                  *)
ExitVerdict(r) ==
  LET err == r.err /\ ~g_symdrive_annotations IN
  CASE ~r.valid                      -> "running"   \* s2e_concretize_kill
    [] r.valid /\ err                -> "failure"
    [] r.valid /\ ~err /\ g_sym_retval = 0 -> "running"   \* s2e_concretize_kill
    [] r.valid /\ ~err /\ g_sym_retval # 0 /\ bad_path -> "bad"
    [] r.valid /\ ~err /\ g_sym_retval = 1 /\ ~bad_path -> "good"
    [] OTHER                         -> "running"   \* s2e_deprioritize

(* Leaving a driver function: when the stack is empty the return value     *)
(* decides whether the path goes on.  reset_new_objects then clears marks  *)
(* of the object tracker that nothing here reads.                          *)
FinishExit(t) ==
  LET r == req[t]
      empty == driver_call_stack = 0
      verdict == IF empty THEN ExitVerdict(r) ELSE "running" IN
  /\ path' = verdict
  /\ g_symdrive_annotations' = (g_symdrive_annotations /\ ~(empty /\ r.valid))
  /\ left_empty' = IF empty THEN left_empty \cup {t} ELSE left_empty \ {t}
  /\ pc' = [pc EXCEPT ![t] = "post_exit"]
  /\ UNCHANGED g_sym_retval

(* Coming back from a kernel function.                                     *)
FinishEnter(t) ==
  /\ g_sym_retval' = CoverageMode(req[t])
  /\ pc' = [pc EXCEPT ![t] = "run"]
  /\ UNCHANGED <<path, g_symdrive_annotations, left_empty>>

Pop(t) ==
  LET r == req[t] IN
  /\ pc[t] = "pop"
  /\ \/ (\A i \in Slots : driver_call_stack_str[i] # r.fn) /\ Kill("assert")
     \/ \E i \in Slots :
          /\ IsLastSlotOf(i, r.fn)
          /\ \/ ~StackInRange(driver_call_stack) /\ Kill("assert")
             \/ /\ StackInRange(driver_call_stack)
                /\ driver_call_stack_str' = WithoutSlot(i)
                /\ frames' = [frames EXCEPT ![t] = SubSeq(@, 1, Len(@) - 1)]
                /\ global_lock' = NULL
                /\ req' = [req EXCEPT ![t] = NULL]
                /\ \/ r.op = "exit" /\ FinishExit(t)
                   \/ r.op = "enter" /\ FinishEnter(t)
                /\ UNCHANGED <<driver_call_stack, bad_path, startVars>>

(* gen_make_symbolic_int/ptr: keep the kernel's return value, pretend it   *)
(* failed (which makes this a bad path), or drop any other value.  The     *)
(* stub then calls gen_enter_driver.                                       *)
MakeSymbolic(t) ==
  /\ pc[t] = "symbolic"
  /\ \/ Kill("extra")
     \/ /\ bad_path' \in {bad_path, TRUE}
        /\ global_lock' = NULL
        /\ req' = [req EXCEPT ![t] = EnterFromStub(req[t].fn)]
        /\ pc' = [pc EXCEPT ![t] = IF first_time_in_driver THEN "register" ELSE "acquire"]
        /\ UNCHANGED <<dataVars, g_sym_retval, g_symdrive_annotations, startVars, path,
                       frames, left_empty>>

(* The end of gen_exit_driver, after release_global_lock: driver_call_stack *)
(* is read again to decide whether interrupt handlers are called.          *)
PostExit(t) ==
  /\ pc[t] = "post_exit"
  /\ pc' = [pc EXCEPT ![t] = IF driver_call_stack = 0 THEN "irq" ELSE "run"]
  /\ left_empty' = left_empty \ {t}
  /\ UNCHANGED <<global_lock, dataVars, modeVars, startVars, path, req, frames>>

(* Mutant: handlers are called for as long as nobody is in the driver.     *)
PostExitIrqWhileEmpty(t) ==
  /\ pc[t] = "irq"
  /\ pc' = [pc EXCEPT ![t] = IF driver_call_stack = 0 THEN "irq" ELSE "run"]
  /\ UNCHANGED <<global_lock, dataVars, modeVars, startVars, path, req, frames, left_empty>>

(* call_interrupt_handlers; the handlers themselves are driver functions   *)
(* entered like any other, see IrqTable for which ones.                    *)
PostExitIrq(t) ==
  /\ pc[t] = "irq"
  /\ pc' = [pc EXCEPT ![t] = "run"]
  /\ UNCHANGED <<global_lock, dataVars, modeVars, startVars, path, req, frames, left_empty>>

-----------------------------------------------------------------------------
(* The steps a thread takes by itself once it has called the framework.    *)
Inside(t) ==
  \/ RegisterAll(t)
  \/ HandleRetval(t)
  \/ Push(t)
  \/ Count(t)
  \/ Uncount(t)
  \/ Pop(t)
  \/ MakeSymbolic(t)
  \/ PostExit(t)
  \/ PostExitIrq(t)

(* What the driver and the kernel may do next.                             *)
Outside(t) ==
  \/ \E fn \in EntryFns : DriverFunctionEntered(t, fn)
  \/ \E err, concrete \in BOOLEAN : DriverFunctionReturned(t, err, concrete)
  \/ \E fn \in KernelFns : KernelFunctionCalled(t, fn)
  \/ KernelFunctionReturned(t)
  \/ \E flags \in BOOLEAN : symdrive_annotation(t, flags)

Next ==
  /\ path = "running"
  /\ \E t \in Threads : Outside(t) \/ acquire_global_lock(t) \/ Inside(t)

Spec == Init /\ [][Next]_vars

(* The framework's own code always runs on, and the kernel's spin locks    *)
(* are ticket locks: a waiting thread gets its turn.                       *)
Running(A) == path = "running" /\ A

Fairness ==
  \A t \in Threads : /\ WF_vars(Running(Inside(t)))
                     /\ SF_vars(Running(acquire_global_lock(t)))

FairSpec == Spec /\ Fairness

-----------------------------------------------------------------------------
(* Properties.                                                             *)

(* Slots of driver_call_stack_str in use: all below driver_call_stack, and *)
(* one more between the two halves of a push or of a pop.                  *)
HalfDone == \E t \in Threads : pc[t] \in {"count", "pop"}

UsedSlots == driver_call_stack + (IF HalfDone THEN 1 ELSE 0)

(* pop_driver_call_stack closes the gap it leaves ("Don't just set to NULL *)
(* since we'll otherwise have problems with the driver_call_stack index"): *)
(* on a live path the names fill exactly the slots below                   *)
(* driver_call_stack, whatever the order in which threads leave, and the   *)
(* counter never reaches the end of the array.                             *)
StackContiguous ==
  path = "running" =>
    /\ driver_call_stack < MaxStack - 1
    /\ \A i \in Slots : driver_call_stack_str[i] # NULL <=> i < UsedSlots

FramesOf(fn) ==
  {p \in Threads \X (1 .. MaxDepth) :
     p[2] <= Len(frames[p[1]]) /\ frames[p[1]][p[2]].fn = fn}

SlotsOf(fn) == {i \in Slots : driver_call_stack_str[i] = fn}

(* With the lock free, every function some thread is inside of is on the   *)
(* framework's one shared stack exactly as often as the threads' real      *)
(* stacks hold it: removing the topmost equal name instead of one's own is *)
(* good enough.                                                            *)
StackMatchesFrames ==
  path = "running" /\ global_lock = NULL =>
    \A fn \in Fns : Cardinality(SlotsOf(fn)) = Cardinality(FramesOf(fn))

(* The framework's own sanity checks (driver_call_stack in range, "fn not  *)
(* found", a function registered twice) never fire, however the threads    *)
(* interleave: only the nesting limit kills a path without a cause in the  *)
(* driver.                                                                 *)
NoFalseAssert == path # "assert"

(* gen_lookup_MJRcheck asserts that the calling function is registered:    *)
(* nobody is inside a wrapped function before registration has happened.   *)
RegisteredBeforeUse ==
  path = "running" /\ (\E t \in Threads : frames[t] # <<>>) => registered

(* A path that returns to the kernel through a function with a return      *)
(* value, leaving nobody in the driver, reported success (or was forgiven  *)
(* by an annotation) and never pretended that a kernel function failed.    *)
GenuineReturn ==
  [][\A t \in Threads :
       /\ pc[t] = "pop" /\ pc'[t] = "post_exit"
       /\ driver_call_stack' = 0 /\ req[t].valid /\ path' = "running"
       => /\ ~bad_path
          /\ ~req[t].err \/ g_symdrive_annotations]_vars

(* gen_exit_driver: "Call interrupt handlers if we're returning to the     *)
(* kernel."                                                                *)
EmptyExitCallsIrqs ==
  [][\A t \in Threads :
       pc[t] = "post_exit" /\ pc'[t] # "post_exit" /\ t \in left_empty
       => pc'[t] = "irq"]_vars

(* No thread waits for the global lock for ever: every call of the         *)
(* framework returns, unless the path is killed first.                     *)
CallCompletes ==
  \A t \in Threads : pc[t] = "acquire" ~> (pc[t] = "run" \/ path # "running")
=============================================================================
