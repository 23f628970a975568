# TLA+ verification of the SymDrive test framework (driver_optimizer)

The repository holds SymDrive: a CIL-based source transformer (SymGen,
`cil/src/ext/drivers/`) that wraps a Linux or FreeBSD driver, and a test framework
(`gtf/`) that is linked with the wrapped driver and checks, under the S2E symbolic
execution engine, that the driver obeys the kernel's rules. The modules here model the
framework: the bookkeeping it does whenever control crosses the driver/kernel boundary,
and the state machines behind its checks. One behaviour of a module is one S2E *path*;
`s2e_kill_state`, which every failed assertion calls, ends the path.

## 1. Inventory

| Component | State | Operations | Interaction | What is hard | What makes it correct |
|---|---|---|---|---|---|
| Boundary crossing, `gtf/enter_exit.c`, `gtf/global_lock.c` | `driver_call_stack`, `driver_call_stack_str[32]`, `bad_path`, `g_sym_retval`, `g_symdrive_annotations`, `first_time_in_driver`, the global lock | `gen_enter_driver`, `gen_exit_driver`, `gen_make_symbolic_*`, `symdrive_annotation` | called by every generated wrapper on every thread; calls the interrupt table | threads share one name stack; reads after the lock is released | the stack agrees with the real stacks; only genuine successes return |
| Generated wrappers, `splitter_dri.ml`, `root_annot_dri.ml` | a cached check pointer per wrapper | prefn/postfn, stubs | call the boundary, the checks and the function tracker in a fixed order | order of check, crossing and kernel call | see the users |
| Contexts and locks, `gtf/test_state.c`, lock checks in `gtf/misc_checks/main.c` | blocking and user context stacks (16 entries), tracked lock states | `push/pop_blocking_state`, `push/pop_user_state`, `generic_lock_state`, `can_call_interrupt_handlers` | lock checks run before and after the kernel's lock functions; crossings push contexts | stack limits; several threads, one stack; locks released out of order; trylock | contexts balanced; tracker agrees with the kernel's locks |
| Object tracker, `gtf/test_state.c`, allocation checks in `gtf/misc_checks/` | a map from address to (origin, size, new), `objs_dirty` | `generic_allocator`, `generic_free`, `generic_lock_allocator`, `assert_allocated(_weak)`, `reset_new_objects` | called by most pre/post checks, on the other side of the kernel's own function; locks share the map | reallocation of an address, two meanings of one number, objects handed to the kernel, refusal by the kernel, origins shared by two kinds | an address is tracked exactly while the driver has it |
| Hash table, `gtf/hashtable/` | chains, size, load limit, count | `hashtable_insert/search/remove/enumerate` | used by the object tracker and the function tracker | expansion, allocation failures half way | a map |
| Interrupts, `gtf/misc_checks/irq.c` | 16 slots: number, `dev_id`, enabled; an ongoing flag; calls per source line | `request_threaded_irq`, `free_irq`, `enable_irq`, `disable_irq`, `call_interrupt_handlers` | called on crossings; handlers re-enter the driver | shared lines, re-entrance, races on the ongoing flag, rate limit | a handler runs only while allocated and enabled |
| Registration checks, `gtf/test_state.c`, `gtf/structs/*.c`, `gtf/misc_checks/{main,pci,i2c,spi,platform}.c` | call state per driver kind, bus and class of the driver, PCI device state, state of the network device | register/unregister, probe, enable/disable, open/stop/xmit, init_module | pre/post checks of the generated wrappers | long sequences of legal calls; refusal between pre and post; the kernel probes and opens from other threads | recorded states agree with the kernel; a well-behaved driver is not killed |
| Function tracker, `gtf/function_tracker.c`, `gtf/symbol_lookup.c` | a table from function to its two strings, the static variable of each wrapper | `gen_register_one`, `gen_convert_fn`, `gen_lookup_MJRcheck` | called by every wrapper | the static variable is unlocked, shared and goes stale | one call is bracketed by one check, and by its own |
| Entry-point tests, `gtf/testing_ep.c`, `testing_ep_control.c`, `app_ep_control.c` | `ep_state`, the arrays of test functions | `ep_init_*`, `ep_test`, the control device | filled by the registration checks, run on a user's request | arrays filled by position, records never taken back | a number calls the function it names, on a driver and device that belong together |
| Fake buses, `gtf/bus_generic_pci.c`, `bus_platform.c`, `bus_i2c.c`, `bus_spi.c` | `pci_cur_device`, the private structure of each bus, what the kernel was given | `initialize_*`, `free_*`, `stub_xfer` | initialised by the framework module, give devices to the driver under test | devices refused half way, cards that come and go | all or none of the devices; everything is taken back |
| Framework module, `gtf/init_module.c` | module parameters, which parts are up | load, unload | initialises all of the above | order of initialisation and failure in the middle | parts are up while they are used |
| DMA and mbuf wrappers (FreeBSD), `gtf/misc_checks/freebsd.c` | dma tag table | `bus_dma_*` | object tracker | table growth | - |
| Symbolic devices: GPIO, MII, PCI config space | none to speak of | return symbolic values | S2E | - | - |
| S2E shims, headers, `s2e_wrappers.c` | none | hypercalls | external | - | - |
| CIL | - | - | vendored compiler infrastructure | - | - |

## 2. Modules

### EnterExit (with MCEnterExit, EnterExitProofs)

Models `enter_exit.c` and `global_lock.c` as run by the wrappers that `splitter_dri.ml`
generates. Every variable carries the name of the C variable it stands for; in addition
`pc` says where in the framework each thread is, `req` holds the arguments of the call it
makes, `frames` is its real call stack of wrapped functions, `path` is "running" or the
reason the path was killed, `published` says that the driver has called the kernel (before
that, only the loader can be in the driver), and `left_empty` remembers who emptied the
driver for a property.

* `DriverFunctionEntered/Returned`, `KernelFunctionCalled/Returned`: the wrappers. A driver
  function may be entered whenever the thread runs driver code (a direct call), waits in a
  kernel function (a callback, or an interrupt handler called from `gen_enter_driver`) or is
  outside the driver (an entry point).
* `RegisterAll`: the unprotected first-time registration.
* `acquire_global_lock` ... `Pop`, `MakeSymbolic`: the critical sections, in the order of the
  C code. A push writes the name, then the counter; a pop counts, then removes the topmost
  equal name and closes the gap. The last step of each section also releases the lock.
* `PostExit`, `PostExitIrq`: the second read of `driver_call_stack`, without the lock.

Abstracted: names are model values; a return value is (valid, error, concrete); S2E's
forking is nondeterminism; search hints (`s2e_prioritize`, ...) and messages are left out.
`handle_interesting_function` is compiled out in the source.

Fairness (`FairSpec`): a thread inside the framework keeps running (weak), and a thread that
waits for the spin lock gets it (strong; the kernel's spin locks are ticket locks, FreeBSD's
spin mutexes are not formally fair, so there the property is an idealisation). No fairness is assumed of the driver.

### LockState (with MCLockState, LockStateProofs)

Models the execution contexts and the lock protocol of `test_state.c`, driven by the lock
checks of `misc_checks/main.c`, the entry-point checks of `structs/` and the handler check
of `misc_checks/irq.c`. The variables are the C ones, plus the kernel's view (`owner`) and
the truth the stacks are supposed to reflect (`nest`: what is open, in order of opening).

* `EntryFunction`, `PollFunction`, `InterruptHandler`, `LeaveFunction`: contexts pushed
  before and popped after a driver function. `push_blocking_state` includes the write to
  `blocking_context[MAX_NESTING]`, which in `global_state_struct` is the index itself.
* `LockPre`, `KernelLock`, `LockPost`: the check before, the kernel's function, the check
  after. Checks run under the global lock and are one step; other threads run between the
  three. `KernelTrylock`/`TrylockPost` and `UnlockPre`/`KernelUnlock` are the same for
  `spin_trylock` and the unlock functions; `generic_lock_allocator` is `spin_lock_init`.
* `mem_flags_test`: the GFP flag check; only the step that kills is there, since the other
  changes nothing.

The driver is well behaved by construction of the guards (it releases what it holds, with
the matching function, and sleeps only where it may), so a killed path is a false alarm.
`SMP = FALSE` means that no other thread runs while one may not sleep. Abstracted: lock
addresses, messages, the four spin-lock flavours (a set of types).

### IrqTable (with MCIrqTable, IrqTableProofs)

Models the Linux half of `misc_checks/irq.c`: `sym_irq`, `sym_num_requests`,
`sym_irq_ongoing` and `sym_irq_lines` under their own names, the kernel's view
(`registered`, `disabled`) and, per thread, the stack of passes it is in. The checks of
request, free, enable and disable are separate from the kernel's functions, on the side of
the call where the code has them. The pass holds no lock, so every read and every write of
a shared variable in it is a step: `call_interrupt_handlers` (the tests), `ReadOngoing` and
`BeginPass` (`sym_irq_ongoing++`), for each entry `SkipSlot` or `EnabledSlot`, `ReadCount`
and `StoreCount` (`sym_irq_lines[LINE]++`), then `MayCall` and `CallHandler`, or
`TooManyCalls` and `KeepCount` or `MustReset` and `ResetCount`; and at the end `LeaveLoop`
and `EndPass` (`sym_irq_ongoing--`). `reg` is what a thread has read and not yet written
back; a comparison after a store may use either that or a fresh read, as the compiler
likes. A handler is driver code and may do anything the driver may do in atomic context,
also cross the boundary (`HandlerReturns` ends it). A pass that has found an entry enabled
and meets it free calls a NULL handler: the path ends in "oops".

`SMP = TRUE` lets any thread step between any two of these steps: several CPUs, or one with
a preemptible kernel, since interrupts are off only from line 523 to line 562 of `irq.c`.
`SMP = FALSE` is one CPU whose kernel is not preemptive; the pass never sleeps, so nobody
else runs until it is over, but for the handlers it calls. Whether
`can_call_interrupt_handlers` says yes is a free choice here, because LockState models it.
Counts are unsigned chars (`% 256`).

### HashTable, ObjectMap (with MCHashTable, HashTableProofs)

`ObjectMap` is what the two users of the table expect: a map with insert, search, remove,
a refused insert, and the enumeration that clears `new_object`. `HashTable` is
`gtf/hashtable/hashtable.c`: chains as sequences, `tablelength`, `primeindex`, `loadlimit`
and `entrycount`. Users hold the global lock, so operations do not overlap, but an
insertion is several steps: `hashtable_insert` (count, decide), `hashtable_expand` or one
of its two ways out (`MaxCapacity`, `ExpandFails`), `MoveEntry` for each entry,
`FinishExpand`, then `AddEntry` or, without memory, `NoEntry`. The refinement mapping sends
the entries of both tables to a function from keys to values. Abstracted: addresses and the
hash function are arbitrary; freeing an entry's memory is left out.

### EntryPoints

A table: the contexts that the check of each entry point in `gtf/structs/` pushes before the
driver's function and pops after it. It supplies LockState's `EntryContexts`.

### ObjectTracker (with MCObjectTracker, ObjectTrackerProofs)

Models the object tracker and the checks that drive it. An allocator check is a record of
the kind of object the kernel makes, the origin and the size the check records, and what it
does when the kernel refuses; a free check is the set of origins it accepts. Eighteen
allocators, fourteen free functions and the checks that want a tracked buffer
(`usb_control_msg`, `usb_submit_urb`, `copy_from_user`) are such records, so the code that
they share, `generic_allocator`, `generic_free` and `assert_allocated`, is modelled once.

`heap` is the kernel's view. `CallAllocator`, `KernelAlloc` or `KernelRefuses`, `AllocPost`
are the three parts of an allocation, `FreePre` and `KernelFree` the two of a free; other
threads run in between, and the kernel may hand out an address again at once.
`KernelPacket`, `XmitPre`, `XmitOK`, `XmitBusy`, `netif_rx` and `KernelConsumes` are the life
of a packet, which is the driver's without having been allocated by it.
With `Faulty`, the driver also frees and uses what it must not.

The table has one entry per number, and legal calls can give one number to two things
(`Shares`, `Clone`): `device_register` is given the driver's own `struct device`, usually
from `kmalloc`; `device_create_file` is recorded under the attribute, which two devices may
share; bus addresses, ports and physical addresses are numbers of spaces of their own, and a
buffer may be mapped twice; a clone shares its packet's buffer. `generic_lock_allocator` puts
locks in the same table: a lock at the start of a tracked object keeps the object's record,
any other gets a key that nothing removes. The model makes all these calls. `lost` holds the
addresses that a check is known to be wrong about from then on, because of one of them or for
the other reasons of section 5; the properties leave those addresses out and say so.
`call` is the only trace of a pointer that the driver has and the tracker has not.

Abstracted: sizes are small, with one value for "unknown" (-1 as unsigned); the origin list
is that of the Linux build; `print_object` and messages are left out.

### Registration (with MCRegistration, RegistrationProofs)

Models `set_call_state`, `set_driver_bus`, `set_driver_class` and `set_device_state` as the
checks use them. Register and unregister functions of seven kinds of driver and the five
probe functions are records that say how their checks differ (strict or not, which field,
whether the device must have an address range and an interrupt line, whether the outcome of
`register_netdev` is compared). Each call is its check before, the
kernel's function and its check after, for registration, the PCI device (`Enable`,
`Disable`) and the network device (`RegisterNetdev`, `UnregisterNetdev`); `Rx` is
`netif_rx` and `__napi_schedule`; `Suspend` and `Resume` are entry points that may disable
and enable the device. The kernel's view is `kreg`, `kdev`, `knet`, `kopen`,
`kenabled`; it refuses at will, probes as soon as it has the driver and opens as soon as it
has the network device, from any thread.

`Judge` counts illegal calls against `MaxFaults`. A path ends in "assert" where the check is
meant to fire, in "known" where this model names a false alarm (listed in section 5), and
`NoFalseAlarm` says that there are no others: "known" is set only under the condition written
at the check, so a path stopped for any other reason is a violation. A nested entry point, and a receive
function called by an interrupt handler, is modelled as another thread's: the checks keep
nothing per thread. The driver makes registration calls only from the functions that set up
and tear down. `carrier` merges the parameter `g_sym_kill_carrier_off` with the static
`called_before`, whose value no longer matters once the parameter is off.

### FunctionTracker (with MCFunctionTracker, FunctionTrackerProofs)

Models `gen_register_one`, `gen_convert_fn` (two assignments under the global lock),
`gen_lookup_MJRcheck` and the wrapper around it: test of the static variable, lookup under
the lock, store, check before, function, check after. The static variable `cache` is read
and written without the lock. Names are pairs; `symbol_lookup` finds a check or not
(`Checked`) and falls back to the default check. Special wrappers (`Special`) name their
check themselves.

### Buses, EntryTests, Framework (with MCFramework, FrameworkProofs)

`Buses` has one action per `initialize_*` and `free_*` function of the fake buses, each with
every failure its code has, the hot-plugging of the card, and the i2c transfers that panic.
`EntryTests` extends it: registration and probe as seen by `ep_init_*`, and
`ep_test_generic` with its categories, arrays and forks. `Framework` composes the two under
`linux_init` and `linux_cleanup`: the parts come up in `InitOrder` and go down in
`FreeOrder`, a driver is loaded in between, talks to the chips from its probe on, and a user's test may arrive as soon as the
control device is registered, also before the buses are there.

### How the modules fit together

EnterExit calls the interrupt pass at a crossing (its `irq` step stands for a whole pass of
IrqTable); IrqTable's handlers push the contexts of LockState, which in turn decides whether
a pass may start; LockState's lock objects and ObjectTracker's `objs` are keys of the map
that HashTable implements (ObjectMap's enumeration is `reset_new_objects`). Registration and
ObjectTracker share the packets' `netif_rx` and `ndo_start_xmit`, of which each keeps its own
part. EntryTests is told by the checks of Registration what to test.

## 3. Runs

| Run | Result | Distinct states | Shows |
|---|---|---|---|
| EnterExit_threads | pass | 829,730 | two threads, three nested functions each, a stack of 6 slots so that the limit is reached: the name stack is gap-free and agrees with the real stacks, no sanity check fires falsely, registration comes first, returns are genuine |
| EnterExit_coverage | pass | 141,231 | `g_sym_starting_fn` set, the mode changes in mid-path: no framework call waits for ever |
| EnterExit_exitirq | violation | | the thread that empties the driver may skip the interrupt handlers |
| LockState_up | pass | 376,800 | one CPU, two threads, all the contexts that entry points push: the context stacks balance, the tracker is sound, no check fires against the well-behaved driver, no handler runs under a spin lock |
| LockState_smp | pass | 377,988 | threads at the same time, trylocks, release in any order, a context stack that overflows: the tracker is still sound |
| IrqTable_up | pass | 438,960 | three devices on their own lines, one CPU that is not preempted: table, count and kernel agree, one pass at a time, each line within its budget, handlers only where allowed, no false alarm |
| IrqTable_smp | pass | 887,548 | three threads at the same time, their passes interleaved read by read, one shared line, a table that gets full: whatever updates are lost, table and kernel still agree |
| HashTable_map | pass | 45,449 | four colliding keys, two expansions, allocations that fail at any point: the table implements the map and counts its keys |
| ObjectTracker_faults | pass | 1,461,467 | two threads allocate, free, transmit and initialise locks over two addresses that the kernel reuses at once or that get two meanings, legally or not: the table is what the driver has, no wrong free reaches the kernel, legal calls are reported only at addresses in `lost`, the new-object flag covers the table |
| Registration_kinds | pass | 1,414,484 | a PCI and an i2c driver with a network device, suspend and resume, two threads, one illegal call: recorded states agree with the kernel's, what the strict checks let through is safe, no false alarm but the named ones |
| FunctionTracker_race | pass | 329,499 | three threads convert and call two functions: no half-set purpose is looked up, the static variables are current and calls are bracketed by one check, but for functions converted after their first lookup |
| Framework_load | pass | 2,816,532 | loading with any set of buses, any chip addresses, any failure and a card that comes and goes: parts are up while they are used, chips come all or none, nothing is left behind, tests call what their number names |

The run with `expect: violation` states what a comment of the repository says and shows that
the code does otherwise; `PROJECT.json` quotes the line.

### Bounds

* EnterExit: `MaxStack` is 32 in the code and 6 in the two passing runs, so that two
  threads with `MaxDepth` 3 can reach the end of the array; the proofs cover every size.
* LockState: `MAX_NESTING` is 16 in the code. LockState_up has 6 with `MaxOpen` (functions
  and locks open at a time) 4, below the limit; LockState_smp has 3 and 3, so that the stack
  overflows (section 5). Four open items are enough for a function, a lock, a handler and
  another lock, or for two threads with two each.
* IrqTable: 16 entries, 5 calls per line and a reset above 100 in the code; 3, 2 and 4 in
  IrqTable_up, so that a line's budget is used up and the count is reset twice (`MaxResets`);
  2 entries for 3 devices in IrqTable_smp, so that the table is full. There `Drift` bounds
  what lost updates would let grow: the flag is at least -1, a line calls two handlers, two
  passes are open at a time, in one thread or in two; enough for every kind of lost update
  and for a pass that meets a freed entry.
* HashTable: sizes 2, 3 and 5 instead of 53, 97, ...; the keys collide at each of them and
  the third key exceeds the load limit of the last one (`MaxCapacity`).
* ObjectTracker: two threads, so that one is given what the other has just freed; two
  addresses, so that an operation on one is seen to leave the other alone; five of the
  eighteen allocators, one for each way to record a size, to treat a refusal and to name an
  address twice, two of them sharing an origin; all free functions. `OneLost`: one address is
  lost or the driver has made illegal calls, not both, so that there is always an address
  left that is judged. `MaxSane` 1 gives a size that is too small (0), one
  that is right, one that is too large, and "unknown".
* Registration: one strict kind (pci) and one that is not (i2c), which between them run every
  check; two threads; `MaxFaults` 1, since the path after an illegal call that was let
  through is the interesting one; `netif_rx` alone, whose code `__napi_schedule` repeats. The
  device sleeps only while the driver has made no illegal call (`SleepsWell`).
* FunctionTracker: three threads (two in a wrapper for the first time and one that converts
  the function), one plain and one special function, two purposes of which one has a check.
* Framework: two cards, so that a second one can turn up; two chips and addresses 0 (unused),
  5 and 6, so that the list can be empty, short, full or hold an address twice; two drivers,
  one without power management; test numbers out of range on either side (-1, 47), BEGIN (0)
  and one in the middle; BEGIN forks every case. `MaxHotplug` 2 allows a card to go and come
  back.

### Fairness

Only EnterExit_coverage has a liveness property (`CallCompletes`); its fairness is described
with the module. Deadlock is checked in every run: a path that has ended stutters (`Killed`
and `Ended` in the MC modules), so a deadlock would be a live path on which nobody can move.
MCRegistration lets a driver at fault stutter too, since one that registers from the wrong
place may wait for itself. LockState has one spin lock and one mutex in its runs, and a
driver that holds a spin lock takes no mutex, so the driver itself has no lock order to get
wrong.

## 4. Proofs

All proofs are checked by TLAPS for every value of the constants that the named assumptions
allow (any number of threads, locks, devices, drivers, keys, cards; any sizes). Every
invariant that a run checks is also a theorem, in some cases under a hypothesis that is named
below and stated in the theorem. Each inductive invariant was first checked by TLC as an
invariant of the component's run.

| Proof module | Theorem | Property | Hypothesis |
|---|---|---|---|
| EnterExitProofs | `TypeCorrect`, `Contiguous`, `RegisteredFirst`, `GenuineReturns` | `TypeOK`, `StackContiguous`, `RegisteredBeforeUse`, `GenuineReturn` | |
| | `StackIsFrames`, `NoAssertFires` | `StackMatchesFrames`, `NoFalseAssert` | |
| LockStateProofs | `TypeCorrect` | `TypeOK` | |
| | `TrackerIsSound` | `TrackerSound` | no interrupted mutex |
| | `BlockingStaysBalanced` | `BlockingBalanced` | no interrupted mutex, `[]NestingLimited` |
| | `UserStaysBalanced` | `UserBalanced` | `[]NestingLimited` |
| | `OneCPUNoFalseAlarm`, `OneCPUHandlersHoldNothing` | `NoFalseAlarm`, `NoHandlerUnderSpinLock` | `OneCPUDriver`, `[]NestingLimited` |
| IrqTableProofs | `TypesHold`, `CountIsRight`, `TableIsWithinKernel` | `TypeOK`, `RequestsCounted`, `TableWithinKernel` | |
| | `BudgetHolds`, `OnePass` | `LineBudget`, `OnePassAtATime` | `~SMP` |
| | `HandlersAreAllowed` | `HandlerAllowed` | `~SMP`, `OwnLine` |
| | `NoAlarm` | `NoFalseAlarm` | `~SMP`, `OwnLine`, `Capacity` |
| HashTableProofs | `TypeCorrect`, `CountIsRight`, `Implements` | `TypeOK`, `CountRight`, `ImplementsMap` | |
| ObjectTrackerProofs | `TypeCorrect`, `TrackerIsRight`, `FreesAreSafe`, `AlarmsAreTrue`, `DirtyIsEnough` | `TypeOK`, `TrackerAgrees`, `FreeSafe`, `NoFalseAlarm`, `DirtyCoversNew` | |
| RegistrationProofs | `RecordsAgree`, `StrictCallsAreSafe`, `DeviceCallsAreSafe`, `NoLegalCallStopped` | `StateAgrees`, `StrictCallsSafe`, `DeviceCallsSafe`, `NoFalseAlarm` | |
| FunctionTrackerProofs | `LookupsMeetWholePurposes`, `CachesAreCurrent`, `CallsAreBracketed` | `NeverHalf`, `CacheCurrent`, `SameCheck` | |
| FrameworkProofs | `FrameworkIsWellFormed`, `ChipsComeTogether`, `NothingIsLeft`, `TestsCallTheirFunction`, `TestsUseAPair` | `WellFormed`, `AllChipsOrNone`, `NothingLeft`, `RightFunction`, `RightPair` | |

The arguments:

* `EnterExitProofs`. The inductive invariant `IInv` adds: the holder of the global lock is
  exactly the thread in a critical section (`Mutex`), without which two half-done pushes could
  overlap; the lower bound of the counter between the two halves of a pop (`NameStack`); that
  pretended failures need the exploration mode, which is never switched off
  (`BadPathExplored`); and that whoever got past the prologue came after the registration
  (`Registration`). `MatchInv` is on top of it: each name has as many slots as there are frames
  of its function, and one more between the writing of the name and the counting (`Matched`).
  A pop removes the topmost equal name, which need not be the thread's own; counting per name,
  and not comparing the order, is why that does no harm. The slots above and below a closed gap
  are matched by a bijection (`SlotPopped`). With `Calls` (a thread that pops has the frame it
  returns from) a pop always finds its name, so the assertion "fn not found" cannot fire.
* `LockStateProofs`. `LockInv` adds to `TrackerSound` that a thread between the kernel's
  function and the check owns its lock (`Ownership`), which is what a lock function that
  returns `-EINTR` breaks. The blocking and user stacks count what is open; the only way for
  them to get out of step is a path that opens `MAX_NESTING` contexts. `OneCPU` explains why
  the checks are right on one CPU although the stack is global and the rules are about
  threads: the items that forbid blocking are the newest ones and all of one thread
  (`NoBlockOnTop`), because nobody else runs meanwhile and locks are released in reverse
  order. The top of the stack therefore tells whether the running thread may sleep
  (`TopTells`, `RunningTells`), and that is all the checks look at. `ItemsHeld` and `HeldItems`
  connect the stack with the kernel's owners. `OneCPUDriver` is `~SMP`, `Lifo`, no trylocks
  and no interrupted mutex. None of it can be dropped: section 5 says what the checks do
  otherwise. With `MaxOpen` at the limit, TLC finds the overflow that `[]NestingLimited`
  excludes.
* `IrqTableProofs`. `TableInv` adds that calls about one line exclude each other (the driver's
  duty) and that in the window between the kernel's function and its check the device is not
  in the table; together with the types it holds however the reads and writes of the passes
  interleave. All that follows is about one CPU whose kernel is not preemptive (`~SMP`). There
  at most one thread is in a pass (`OneInv`), so what it has read is still so when it writes,
  compares or calls (`RegInv`). `BudgetInv`: the handler calls of a line are paid for by its
  count, up to the limit, and by the resets. `OngoingInv`: the flag counts the threads that
  are in a pass, each of which is in one only. `AgreeInv`
  says for every device what the table, the kernel and a thread in the middle of a call know
  of it. It needs a line for each device (`OwnLine`): with shared lines the code acts on the
  first entry of the number (section 5). `Capacity` is that the table has room for all devices:
  otherwise the check of `request_threaded_irq` stops the path ("Driver requesting many many
  IRQs?").
* `HashTableProofs`. `HashInv` says that in both tables every entry is in the chain that its
  hash value leads to, no two entries have the same key, no entry is in both tables, and the
  key that is being inserted is not there yet. Lemmas say what putting an entry in front of a
  chain, cutting one out and resetting a chain do to the set of entries; the map sees only
  that set.
* `ObjectTrackerProofs`, for all eighteen allocators, locks, and numbers with two meanings. The
  invariant says of every address that
  is not in `lost` that what is in the table is the driver's, with an origin that fits its kind
  (`Matches`) and a size that covers it (`Tracked`); that what the driver has is in the table or
  claimed (`Covered`); and that a claim, a thread between the kernel's function and its check,
  excludes every other one (`Claimed`). Lemmas about the tables of checks say that each
  allocator records an origin that fits and that each free function accepts its own kind, and
  another only where the origin is shared. `AlarmsAreTrue` does not say that every legal call
  passes: it says that one is stopped by an assertion only at an address in `lost`, and the
  actions say how an address gets there. `CopyAssumption` keeps copies into pages out.
* `RegistrationProofs`, for any set of the seven kinds and any number of illegal calls. For each
  kind the invariant has the stages of a call: nobody calls (`Idle`), or exactly one thread is
  between the check before and the check after, and the recorded state, the bus and the
  kernel's view are what that stage makes them (`SerialInv`). A strict kind is serialised by
  the checks; one that is not strict only while the driver has made no illegal call, and after
  that the weaker `LooseInv` says that the recorded bus differs from the kernel's view by the
  calls that have returned and not been checked yet. `NetInv` and `DevInv` do the
  same for the network and the PCI device, `EntryInv` says which entry points exclude each
  other, and `ProbeInv` and `OpenInv` what probing and opening imply; from these each check's
  condition follows where the call is legal. `NoLegalCallStopped` is relative to the conditions
  of the false alarms that section 5 lists: outside them no legal call is stopped.
* `FunctionTrackerProofs`. The holder of the global lock is exactly the thread that converts or
  searches; only the function that the holder is converting can be half set, and then with the
  first string of its argument; what a thread between lookup and store carries is current
  unless the function is in `changed`; and the static variable is set as long as a thread is
  behind the store.
* `FrameworkProofs`, for any cards, chips, addresses, drivers, devices and hot-plugging.
  `Connected` accounts for everything the kernel holds: the PCI driver is there exactly if one
  bus has a card, and only one can; the private structure is the current card's; the platform
  device, adapter, clients and SPI bus are those of their bus's structure; and a bus's card is
  the current one unless the card has been changed. `Powered` says that a bus has a card
  exactly while it is wanted and up, so an unloaded framework has left nothing, two wanted
  buses cannot both be up, and a free can only panic after hot-plugging. `UsesBefore` and
  `UsesAfter` are about the two orders. `Recorded` says that every device's driver is one the
  kernel has been given, and that ep_state names the only one, unless there has been a second.

`DeviceCallsSafe` is stated in its proof module and is not a property of a run.

Only model-checked: `CallCompletes` (liveness is out of the prover's reach) and the violated
property of the finding. The theorems about EnterExit, LockState, IrqTable, ObjectTracker,
Registration, FunctionTracker and Framework are about `Spec`; the runs use the MC modules'
`MCSpec` where ended paths stutter, which every `[Next]_vars` allows.

## 5. Observations

Beyond the finding of `PROJECT.json`, seen by varying the constants or while modelling.

Boundary and contexts:

* A bad path survives a return through a void function: `verify_retval` looks at `bad_path`
  only where there is a return value (`enter_exit.c:200`, and not at 275-278; the comment at
  26-28 wants any path killed that returns to the kernel along a pretended branch).
* The push of the sixteenth context is not refused: it writes `blocking_context[MAX_NESTING]`,
  which is the index, and the assertion then reads the new value (`test_state.c:482-486`).
  The stack is silently cut. A path needs `MAX_NESTING` open functions and locks.
* `mutex_lock_interruptible` and `_killable` are recorded as taken whatever they return
  (`misc_checks/main.c:1264`); after an `-EINTR` the next lock is reported as a double lock.
* With `SMP = TRUE`, `NoFalseAlarm` of LockState fails: the contexts are global, so one
  thread's spin lock makes another thread's sleeping call look illegal, although several
  threads are expected in the driver (`enter_exit.c:99`). With trylocks,
  `NoHandlerUnderSpinLock` fails, because a trylock pushes no context (`test_state.c:571`).
* With `Lifo = FALSE` on one CPU, `NoFalseAlarm` fails too: a mutex released under a spin lock
  taken after it pops the spin lock's context, and the next check meets the wrong one.
* `spin_trylock` as the first use of a statically defined lock recurses without end:
  `generic_lock_state` calls itself after `generic_lock_allocator(prepost = 1)`, which adds
  nothing (`test_state.c:934`; the comment at 923 says it recurses once). LockState has it as
  the path end "recursion".
* The check of `check_flags` has another name than its field (`file_operations.c:378`) and
  is never found.

Interrupts and hash table:

* Two devices on one line: `free_irq` of the second one is reported as a wrong parameter
  (`irq.c:193`, 198-199), and `disable_irq` marks only the first entry of the number, so that
  `NoFalseAlarm` and `HandlerAllowed` of IrqTable fail.
* With `SMP = TRUE`, only the table's own bookkeeping holds (IrqTable_smp). The ongoing flag
  is tested, incremented and decremented without a lock (`irq.c:497`, 513, 568), so passes
  overlap, and after a lost update the flag is 0 inside a handler, or stays above 0 and no
  handler is called any more. Two threads may both store the last count within a line's limit
  and both call (`irq.c:534`). `disable_irq` and `free_irq` fit in between the test of an
  entry and the call, whose handler may then be disabled or NULL (`irq.c:533-539`); and
  `free_irq` asserts that no pass is ongoing, which another thread's pass violates
  (`irq.c:195`). The last needs no second CPU: interrupts are off only from line 523 to 562,
  so with a preemptible kernel a thread may lose the CPU between the increment and there, or
  between there and the decrement.
* `hashtable.c:148` says that a failed expansion is tried again at the next insertion. Since
  `primeindex` moves on even if the allocation fails, each failure skips a size, and after
  enough of them the table never grows again. `ImplementsMap` holds all the same.

Object tracker (the addresses in `lost`, and what the model leaves to its assumptions). In the
first four, `generic_allocator` stops a legal path because the number is in the table already
(`test_state.c:713-717`):

* `device_register` of a `struct device` that came from `kmalloc`, or is at the start of
  something that did (`misc_checks/main.c:402-419`): the address is recorded as `KMALLOC`.
* `device_create_file` of one attribute for two devices: `misc_checks/driver_core.c:15`
  records the attribute, not the pair.
* A bus address of `pci_map_single`, a port of `request_region` or a physical address that
  equals a number in the table; a buffer that is mapped twice; a packet whose buffer is shared
  with a clone, as `ndo_start_xmit` records it.
* An allocation at an address where a lock was: `generic_lock_allocator` records a lock that
  is in memory the tracker does not know (yet), and nothing removes the key
  (`test_state.c:772-796`). A lock at the start of a tracked object is harmless.
* `netif_rx` gives the packet away and leaves it in the table: the address is reported as a
  leak at shutdown (`test_state.c:627-629`), or as a double allocation when the kernel uses
  it again.
* `__request_region` and `device_register` record the address although the kernel refused;
  the latter with another origin (`GET_DEVICE`).
* `kmalloc` and `__request_region` share the origin `KMALLOC`: `kfree` of a region, and
  `__release_region` of a buffer, pass.
* `__get_free_pages` is recorded with `1 << order` bytes instead of pages, so a
  `copy_from_user` into it is refused (`CopyAssumption` leaves it out).
* `dev_alloc_skb` and `__alloc_skb` follow the returned pointer without a test; the check of
  `__alloc_skb` passes the address of the size; an "insane" size is printed through a NULL
  pointer. These are the paths that end in "oops".
* The check before `skb_dma_map` always stops the path, and so does a NULL pointer given to
  any free function but `kfree`, `vfree` and `usb_free_urb`.

Registration, the false alarms that the model marks "known":

* a probe of a PCI device whose first address range starts at 0 or whose interrupt line is 0
  (`pci_driver.c:16-20`), as of a device that has only a later range or that uses MSI;
* a second try of a strict registration that was refused; a failing `pci_enable_device` of a
  device that is disabled already, and a second one of an enabled device, which the kernel
  would count;
* `pci_disable_device` in suspend while the network device is registered, which it stays when
  the device sleeps (`pci.c:46-47`);
* a failing `ndo_open`: the check then wants no interrupt line requested, which probe may have
  done, and tests the queue's state with the number of a bit for a mask
  (`net_device_ops.c:72-76`);
* `ndo_start_xmit` of a packet of more than 1536 bytes;
* a second `register_netdev` (the class is never reset), a second `ndo_open` after one that
  succeeded, a second probe of a PCI or USB device;
* `ndo_open`, `ndo_stop` and `ndo_start_xmit` before probe has returned;
  `netif_carrier_off` and `netif_stop_queue` between the kernel's `register_netdev` and its
  check;
* a failing `init_module` after an i2c, SPI or platform driver was added and deleted again;
* `unregister_netdev`, `pci_disable_device` and the outcome of probe when the network device
  is on another bus than a registered PCI driver;
* `netif_rx`, or `__napi_schedule`, on two CPUs at a time.

Also: the check of `capable` always stops the path (`test_state.c:1077-1087`), and a
`misc_deregister` that fails leaves its state in progress.

Function tracker: a function converted to another purpose after its first call keeps its old
check (`changed`); a special wrapper whose function is not registered follows a NULL pointer;
`gen_register_one` takes no lock and relies on running first.

Tests and buses:

* Numbers 43 to 45 of the ethtool category call a null pointer and 42 runs `test_end`: the
  enumeration has four obsolete names that the array has not. The `CALL2` tests use the
  network device without a test, and the power-management tests call `suspend` and `resume`
  without one.
* `ep_state` is never taken back: a test may call the driver with a device whose probe has
  failed or that has lost its driver. Two i2c drivers in one module mix the pairs.
* The i2c stub advertises block transfers on which `stub_xfer` panics, as it does on any
  protocol it does not know.
* When one chip is refused, all are removed and loading goes on without any
  (`alloc_devices`). Two of the buses at a time, or a card that is unbound before unloading,
  panic.

## 6. Not modelled

`PROJECT.json` lists each component with its status. Left out for good: symbolic devices and
S2E shims (no state), the CIL front end and its analyses (sequential compiler code; only the
order of the calls it generates matters, and EnterExit and FunctionTracker take it from
`splitter_dri.ml`), tracing and messages. Left out inside modelled components: rwlocks and
rwsems, the FreeBSD variants of the checks, `free_irqs`, `hashtable_destroy`, iterators; of
the registration checks those that only print, return symbolic values, or note timers,
firmware and work queues; of the object tracker the report at shutdown and the place of a lock inside an object (an
address stands for the start of what is there); a device that is enabled by a function
without a check (`pcim_enable_device`), of which the framework learns nothing; of `init_module.c`
the printing of parameters and the FreeBSD load.

## 7. Plan

What is left, in this order:

1. **Composition** of EnterExit's crossing, LockState's contexts and IrqTable's pass, with
   the free choices of each replaced by the others' state, and a refinement of the whole to
   the framework's promise that handlers run only where the kernel would run them.
2. **rwlocks** in LockState (several holders of a lock), and the FreeBSD half of IrqTable and
   of the object tracker (`misc_checks/freebsd.c`).
3. Proofs about what is left out of the hypotheses: which of the checks of LockState remain
   right on several CPUs, and what `free_irq` and `disable_irq` guarantee on a shared line.
