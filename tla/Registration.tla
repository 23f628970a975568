---------------------------- MODULE Registration ----------------------------
(***************************************************************************)
(* Call-state checks: gtf/test_state.c (set_call_state, set_driver_bus,    *)
(* set_driver_class, set_device_state) as used by the registration checks  *)
(* of gtf/misc_checks and the entry-point checks of gtf/structs.           *)
(*                                                                         *)
(* Each check runs under the global lock, before the call (prepost 0) or   *)
(* after it (prepost 1).  The kernel probes a device inside the driver's   *)
(* registration call or later from another thread; the checks keep no      *)
(* state per thread, so a nested probe is modelled as one of another       *)
(* thread.                                                                 *)
(***************************************************************************)
EXTENDS Naturals

CONSTANTS
  Threads,
  Kinds,       \* driver kinds the driver registers, of AllKinds
  RxCalls,     \* receive functions it calls, of __napi_schedule and netif_rx
  KillCarrierOff,  \* the module parameter g_sym_kill_carrier_off
  MaxFaults,   \* bound on the illegal calls the driver makes
  NONE

-----------------------------------------------------------------------------
(* How the checks of a register function treat its state.  strict: a       *)
(* second call is refused, and the bus is set before the kernel has        *)
(* accepted the driver.                                                    *)
Registers(bus, strict) == [bus |-> bus, strict |-> strict]

__pci_register_driver == Registers("pci", TRUE)
usb_register_driver == Registers("usb", TRUE)
misc_register == Registers("misc", TRUE)
proto_register == Registers("proto", TRUE)
i2c_add_driver == Registers("i2c", FALSE)
spi_register_driver == Registers("spi", FALSE)
platform_driver_register == Registers("platform", FALSE)

(* And of an unregister function: the field that says it is in progress,   *)
(* if any, and whether the driver must be registered.                      *)
Unregisters(bus, field) == [bus |-> bus, field |-> field]

pci_unregister_driver == Unregisters("pci", "unregistered")
usb_deregister == Unregisters("usb", "registered")
misc_deregister == Unregisters("misc", "registered")
proto_unregister == Unregisters("proto", "unregistered")
i2c_del_driver == Unregisters("i2c", "none")
spi_unregister_driver == Unregisters("spi", "none")
platform_driver_unregister == Unregisters("platform", "none")

(* probe: once says that a second probe is refused; resources that the     *)
(* device must have a first address range and an interrupt line; net that  *)
(* the outcome must agree with that of register_netdev.                    *)
Probes(bus, once, resources, net) ==
  [bus |-> bus, once |-> once, resources |-> resources, net |-> net]

pci_driver_probe == Probes("pci", TRUE, TRUE, TRUE)
usb_driver_probe == Probes("usb", TRUE, FALSE, TRUE)
i2c_driver_probe == Probes("i2c", FALSE, FALSE, FALSE)
spi_driver_probe == Probes("spi", FALSE, FALSE, FALSE)
platform_driver_probe == Probes("platform", FALSE, FALSE, FALSE)

AllRegisters == {__pci_register_driver, usb_register_driver, misc_register, proto_register,
  i2c_add_driver, spi_register_driver, platform_driver_register}
AllUnregisters == {pci_unregister_driver, usb_deregister, misc_deregister, proto_unregister,
  i2c_del_driver, spi_unregister_driver, platform_driver_unregister}
AllProbes == {pci_driver_probe, usb_driver_probe, i2c_driver_probe, spi_driver_probe,
  platform_driver_probe}

AllKinds == {f.bus : f \in AllRegisters}
StrictKinds == {f.bus : f \in {g \in AllRegisters : g.strict}}

CallState == {"NOT_CALLED", "IN_PROGRESS", "CALLED_OK", "CALLED_FAILED"}
DeviceState == {"UNDEFINED", "DISABLED", "ENABLED"}

(* What a thread is doing: the entry point it is in, the call it makes.    *)
__napi_schedule == "__napi_schedule"
netif_rx == "netif_rx"
Calls == {"register", "unregister", "register_netdev", "unregister_netdev", "enable", "disable"}
           \cup RxCalls
DeviceEntries == {"probe", "remove", "suspend", "resume"}
Entries == {"out", "init", "cleanup", "open", "stop", "xmit"} \cup DeviceEntries
Out == [fn |-> "out", bus |-> NONE]

(* Where the kernel is with the device of a kind.                          *)
Device == {"unbound", "probing", "bound", "removing", "suspending", "suspended", "resuming"}

Call == [fn: Calls, bus: Kinds \cup {NONE}, ret: {"pending", "ok", "fail"}]

ASSUME KindsAssumption ==
  /\ Kinds \subseteq AllKinds /\ NONE \notin Kinds
  /\ RxCalls \subseteq {__napi_schedule, netif_rx}
  /\ MaxFaults \in Nat /\ KillCarrierOff \in BOOLEAN

ASSUME NoneAssumption == NONE \notin Call

VARIABLES
  registered, unregistered, probed,  \* per kind: how the last call went
  bus,                               \* the kinds recorded by set_driver_bus
  register_netdev, unregister_netdev, opened, rx,   \* ndo_driver_state
  net,                               \* the kind whose probe made the class DRIVER_NET
  enabled,                           \* pci_driver_state.enabled
  carrier,                           \* pruning of netif_carrier_off: off, armed, called before
  entry, call,                       \* each thread's entry point and call
  module, kreg, kdev, knet, kopen, kenabled,   \* the kernel's own view
  faults,                            \* illegal calls the driver has made
  path                               \* how the path ended

state == <<registered, unregistered, probed, bus>>
ndo == <<register_netdev, unregister_netdev, opened, rx, net, enabled>>
thread == <<entry, call>>
kernel == <<module, kreg, kdev, knet, kopen, kenabled>>
checks == <<state, ndo, carrier>>
vars == <<checks, thread, kernel, faults, path>>

(* One type invariant.                                                     *)
TypeOK ==
  /\ registered \in [Kinds -> CallState]
  /\ unregistered \in [Kinds -> CallState]
  /\ probed \in [Kinds -> CallState]
  /\ bus \subseteq Kinds
  /\ {register_netdev, unregister_netdev, opened} \subseteq CallState
  /\ rx \in [RxCalls -> CallState]
  /\ enabled \in DeviceState
  /\ carrier \in {"off", "armed", "called_before"}
  /\ {kopen, kenabled} \subseteq BOOLEAN
  /\ faults \in 0 .. MaxFaults
  /\ entry \in [Threads -> [fn: Entries, bus: Kinds \cup {NONE}]]
  /\ call \in [Threads -> Call \cup {NONE}]
  /\ module \in {"no", "init", "loaded", "cleanup", "gone"}
  /\ kreg \subseteq Kinds
  /\ kdev \in [Kinds -> Device]
  /\ {net, knet} \subseteq Kinds \cup {NONE}
  /\ path \in {"running", "assert", "known", "pruned", "oops"}

(* initialize_driver_state: every field is zero.                           *)
Init ==
  /\ registered = [b \in Kinds |-> "NOT_CALLED"]
  /\ unregistered = [b \in Kinds |-> "NOT_CALLED"]
  /\ probed = [b \in Kinds |-> "NOT_CALLED"]
  /\ bus = {}
  /\ register_netdev = "NOT_CALLED" /\ unregister_netdev = "NOT_CALLED" /\ opened = "NOT_CALLED"
  /\ rx = [f \in RxCalls |-> "NOT_CALLED"]
  /\ net = NONE
  /\ enabled = "UNDEFINED"
  /\ carrier = IF KillCarrierOff THEN "armed" ELSE "off"
  /\ entry = [t \in Threads |-> Out]
  /\ call = [t \in Threads |-> NONE]
  /\ module = "no"
  /\ kreg = {}
  /\ kdev = [b \in Kinds |-> "unbound"]
  /\ knet = NONE /\ kopen = FALSE /\ kenabled = FALSE
  /\ faults = 0
  /\ path = "running"

-----------------------------------------------------------------------------
(* A failed assertion ends the path; known marks the false alarms that the *)
(* checks give by design.  A call that is not legal is the driver's fault. *)
Kill(known) ==
  /\ path' = IF known THEN "known" ELSE "assert"
  /\ UNCHANGED <<checks, thread, kernel>>

Judge(legal) ==
  /\ legal \/ faults < MaxFaults
  /\ faults' = IF legal THEN faults ELSE faults + 1

(* The driver can make a call: it runs and is not inside another one.  It  *)
(* registers from the entry points that set up and tear down, and has the  *)
(* PCI device at hand in those about it.                                   *)
InDriver(t) == entry[t].fn # "out" /\ call[t] = NONE

InSetup(t) == InDriver(t) /\ entry[t].fn \in {"init", "cleanup", "probe", "remove"}

OnPCI(t) == InDriver(t) /\ entry[t].bus = "pci"

Outside(t) == entry[t].fn = "out" /\ call[t] = NONE

In(t, fns) == entry[t].fn \in fns

Making(fn, b) == \E t \in Threads : call[t] # NONE /\ call[t].fn = fn /\ call[t].bus = b

BeginCall(t, fn, b) ==
  /\ call' = [call EXCEPT ![t] = [fn |-> fn, bus |-> b, ret |-> "pending"]]
  /\ UNCHANGED <<entry, kernel, path>>

Pending(t, fn) == call[t] # NONE /\ call[t].fn = fn /\ call[t].ret = "pending"

Returned(t, fn) == call[t] # NONE /\ call[t].fn = fn /\ call[t].ret # "pending"

KernelReturns(t, ok) ==
  /\ call' = [call EXCEPT ![t].ret = IF ok THEN "ok" ELSE "fail"]
  /\ UNCHANGED <<checks, entry, module, faults, path>>

EndCall(t) ==
  /\ call' = [call EXCEPT ![t] = NONE]
  /\ UNCHANGED <<entry, kernel, faults, path>>

(* The kernel checks its argument with a BUG_ON.                           *)
KernelBug ==
  /\ path' = "oops"
  /\ UNCHANGED <<checks, thread, kernel, faults>>

(* set_call_state: whether the new state is accepted.                      *)
MaySet(old, new) ==
  /\ new = "IN_PROGRESS" => old # "IN_PROGRESS"
  /\ new \in {"CALLED_OK", "CALLED_FAILED"} => old = "IN_PROGRESS"

Outcome(t) == IF call[t].ret = "ok" THEN "CALLED_OK" ELSE "CALLED_FAILED"

(* set_device_state: whether the new state is accepted.                    *)
MaySetDevice(new) == enabled = "UNDEFINED" \/ enabled # new

(* The kernel opens and stops one device at a time.                        *)
Serving == \E t \in Threads : In(t, {"open", "stop"})

(* Some bus has been probed, as ndo_open, ndo_stop and ndo_start_xmit want.*)
SomeProbed == \E b \in Kinds : probed[b] = "CALLED_OK"

-----------------------------------------------------------------------------
(* Registering a driver of a kind.                                         *)

MayRegister(f) ==
  IF f.strict THEN registered[f.bus] = "NOT_CALLED" /\ f.bus \notin bus
              ELSE MaySet(registered[f.bus], "IN_PROGRESS")

RegisterPre(t, f) ==
  LET b == f.bus IN
  /\ InSetup(t)
  /\ Judge(In(t, {"init"}) /\ b \notin kreg /\ ~Making("register", b) /\ ~Making("unregister", b))
  /\ \/ ~MayRegister(f) /\ Kill(registered[b] = "CALLED_FAILED")   \* a retry
     \/ /\ MayRegister(f)
        /\ registered' = [registered EXCEPT ![b] = "IN_PROGRESS"]
        /\ bus' = IF f.strict THEN bus \cup {b} ELSE bus
        /\ BeginCall(t, "register", b)
        /\ UNCHANGED <<unregistered, probed, ndo, carrier>>

(* The kernel accepts a driver it does not have, or refuses.               *)
KernelRegister(t, ok) ==
  /\ Pending(t, "register")
  /\ ok => call[t].bus \notin kreg
  /\ kreg' = IF ok THEN kreg \cup {call[t].bus} ELSE kreg
  /\ KernelReturns(t, ok)
  /\ UNCHANGED <<kdev, knet, kopen, kenabled>>

(* Mutant: the bus is set although the kernel has refused.                 *)
SetsBusAlways(t, f) == ~f.strict

SetsBus(t, f) == call[t].ret = "ok" /\ ~f.strict

RegisterPost(t, f) ==
  LET b == f.bus
      late == SetsBus(t, f) IN
  /\ Returned(t, "register") /\ call[t].bus = b
  /\ \/ (~MaySet(registered[b], Outcome(t)) \/ (late /\ b \in bus)) /\ UNCHANGED faults /\ Kill(FALSE)
     \/ /\ MaySet(registered[b], Outcome(t)) /\ (late => b \notin bus)
        /\ registered' = [registered EXCEPT ![b] = Outcome(t)]
        /\ bus' = IF late THEN bus \cup {b} ELSE bus
        /\ EndCall(t)
        /\ UNCHANGED <<unregistered, probed, ndo, carrier>>

(* Mutant: a second unregistration is not noticed.                         *)
MayUnregisterTwice(f) == f.field # "none" => registered[f.bus] # "NOT_CALLED"

MayUnregister(f) ==
  /\ f.field # "none" => registered[f.bus] = "CALLED_OK"
  /\ f.field = "registered" => f.bus \in bus
  /\ f.field = "unregistered" => MaySet(unregistered[f.bus], "IN_PROGRESS")

UnregisterPre(t, f) ==
  LET b == f.bus IN
  /\ InSetup(t)
  /\ Judge(In(t, {"init", "cleanup"}) /\ b \in kreg /\ ~Making("unregister", b) /\ ~Making("register", b))
  /\ \/ ~MayUnregister(f) /\ Kill(FALSE)
     \/ /\ MayUnregister(f)
        /\ registered' = IF f.field = "registered" THEN [registered EXCEPT ![b] = "IN_PROGRESS"]
                                                   ELSE registered
        /\ unregistered' = IF f.field = "unregistered" THEN [unregistered EXCEPT ![b] = "IN_PROGRESS"]
                                                       ELSE unregistered
        /\ BeginCall(t, "unregister", b)
        /\ UNCHANGED <<bus, probed, ndo, carrier>>

(* The kernel unbinds the device first; it must have the driver.           *)
KernelUnregister(t) ==
  LET b == call[t].bus IN
  /\ Pending(t, "unregister")
  /\ \/ b \notin kreg /\ KernelBug
     \/ /\ b \in kreg /\ kdev[b] = "unbound"
        /\ kreg' = kreg \ {b}
        /\ KernelReturns(t, TRUE)
        /\ UNCHANGED <<kdev, knet, kopen, kenabled>>

UnregisterPost(t, f) ==
  LET b == f.bus IN
  /\ Returned(t, "unregister") /\ call[t].bus = b
  /\ \/ b \notin bus /\ UNCHANGED faults /\ Kill(FALSE)
     \/ /\ b \in bus
        /\ registered' = IF f.field = "none" THEN registered ELSE [registered EXCEPT ![b] = "NOT_CALLED"]
        /\ unregistered' = IF f.field = "unregistered" THEN [unregistered EXCEPT ![b] = "NOT_CALLED"]
                                                       ELSE unregistered
        /\ bus' = bus \ {b}
        /\ EndCall(t)
        /\ UNCHANGED <<probed, ndo, carrier>>

-----------------------------------------------------------------------------
(* The PCI device.                                                         *)

(* The kernel counts how often a device is enabled, the check refuses a    *)
(* second time.                                                            *)
EnablePre(t) ==
  /\ OnPCI(t)
  /\ UNCHANGED faults
  /\ \/ enabled = "ENABLED" /\ Kill(TRUE)
     \/ enabled # "ENABLED" /\ BeginCall(t, "enable", "pci") /\ UNCHANGED checks

KernelEnable(t, ok) ==
  /\ Pending(t, "enable")
  /\ kenabled' = (kenabled \/ ok)
  /\ KernelReturns(t, ok)
  /\ UNCHANGED <<kreg, kdev, knet, kopen>>

EnablePost(t) ==
  LET new == IF call[t].ret = "ok" THEN "ENABLED" ELSE "DISABLED" IN
  /\ Returned(t, "enable")
  /\ \/ ~MaySetDevice(new) /\ UNCHANGED faults
        /\ Kill(new = "DISABLED")   \* a failing enable of a disabled device
     \/ /\ MaySetDevice(new)
        /\ enabled' = new
        /\ EndCall(t)
        /\ UNCHANGED <<state, register_netdev, unregister_netdev, opened, rx, net, carrier>>

MayDisable ==
  /\ enabled = "ENABLED"
  /\ register_netdev \in {"NOT_CALLED", "CALLED_FAILED"}
  /\ unregister_netdev \in {"NOT_CALLED", "CALLED_FAILED"}

(* The network device goes before the PCI device is disabled for good, but *)
(* stays when it is suspended.                                             *)
Sleeping(t) == In(t, {"suspend", "resume"})

DisablePre(t) ==
  /\ OnPCI(t)
  /\ Judge(kenabled /\ (knet = "pci" => Sleeping(t)))
  /\ \/ ~MayDisable /\ Kill(Sleeping(t) \/ net \notin {NONE, "pci"})   \* or a net device on another bus
     \/ MayDisable /\ BeginCall(t, "disable", "pci") /\ UNCHANGED checks

KernelDisable(t) ==
  /\ Pending(t, "disable")
  /\ kenabled' = FALSE
  /\ KernelReturns(t, TRUE)
  /\ UNCHANGED <<kreg, kdev, knet, kopen>>

DisablePost(t) ==
  /\ Returned(t, "disable")
  /\ \/ ~MaySetDevice("DISABLED") /\ UNCHANGED faults /\ Kill(FALSE)
     \/ /\ MaySetDevice("DISABLED")
        /\ enabled' = "DISABLED"
        /\ EndCall(t)
        /\ UNCHANGED <<state, register_netdev, unregister_netdev, opened, rx, net, carrier>>

-----------------------------------------------------------------------------
(* The network device.  Its class stays recorded for good.                 *)

RegisterNetdevPre(t, b) ==
  /\ InSetup(t) /\ entry[t].bus = b
  /\ Judge(/\ In(t, {"probe"}) /\ knet = NONE
           /\ \A k \in Kinds : ~Making("register_netdev", k))
  /\ \/ net # NONE /\ Kill(TRUE)    \* also a correct second registration
     \/ net = NONE /\ ~MaySet(register_netdev, "IN_PROGRESS") /\ Kill(FALSE)
     \/ /\ net = NONE /\ MaySet(register_netdev, "IN_PROGRESS")
        /\ register_netdev' = "IN_PROGRESS"
        /\ net' = b
        /\ BeginCall(t, "register_netdev", b)
        /\ UNCHANGED <<state, unregister_netdev, opened, rx, enabled, carrier>>

KernelRegisterNetdev(t, ok) ==
  /\ Pending(t, "register_netdev")
  /\ ok => knet = NONE
  /\ knet' = IF ok THEN call[t].bus ELSE knet
  /\ KernelReturns(t, ok)
  /\ UNCHANGED <<kreg, kdev, kopen, kenabled>>

RegisterNetdevPost(t) ==
  /\ Returned(t, "register_netdev")
  /\ \/ ~MaySet(register_netdev, Outcome(t)) /\ UNCHANGED faults /\ Kill(FALSE)
     \/ /\ MaySet(register_netdev, Outcome(t))
        /\ register_netdev' = Outcome(t)
        /\ EndCall(t)
        /\ UNCHANGED <<state, unregister_netdev, opened, rx, net, enabled, carrier>>

MayUnregisterNetdev ==
  /\ "pci" \in bus => enabled = "ENABLED"
  /\ register_netdev = "CALLED_OK"
  /\ unregister_netdev = "NOT_CALLED"

UnregisterNetdevPre(t) ==
  /\ InSetup(t) /\ In(t, {"probe", "remove"})
  /\ Judge(/\ knet = entry[t].bus
           /\ knet = "pci" => kenabled
           /\ ~Making("unregister_netdev", NONE))
  /\ \/ ~MayUnregisterNetdev /\ Kill(knet \notin {NONE, "pci"} /\ "pci" \in bus)
     \/ /\ MayUnregisterNetdev
        /\ unregister_netdev' = "IN_PROGRESS"
        /\ BeginCall(t, "unregister_netdev", NONE)
        /\ UNCHANGED <<state, register_netdev, opened, rx, net, enabled, carrier>>

(* The kernel first stops a device that is open, inside this call, when no *)
(* other thread is in ndo_open or ndo_stop.                                *)
StopsFirst == kopen => SomeProbed

KernelUnregisterNetdev(t) ==
  /\ Pending(t, "unregister_netdev") /\ ~Serving
  /\ \/ knet = NONE /\ KernelBug
     \/ knet # NONE /\ ~StopsFirst /\ UNCHANGED faults /\ Kill(kdev[knet] = "probing")
     \/ /\ knet # NONE /\ StopsFirst
        /\ knet' = NONE /\ kopen' = FALSE
        /\ KernelReturns(t, TRUE)
        /\ UNCHANGED <<kreg, kdev, kenabled>>

UnregisterNetdevPost(t) ==
  /\ Returned(t, "unregister_netdev")
  /\ register_netdev' = "NOT_CALLED" /\ unregister_netdev' = "NOT_CALLED"
  /\ EndCall(t)
  /\ UNCHANGED <<state, opened, rx, net, enabled, carrier>>

(* netif_carrier_off and netif_stop_queue.                                 *)
Registering == Making("register_netdev", knet)   \* the kernel has it, the check not yet

netif_carrier_off(t) ==
  /\ InDriver(t)
  /\ Judge(knet # NONE)
  /\ \/ register_netdev # "CALLED_OK" /\ Kill(Registering)
     \/ /\ register_netdev = "CALLED_OK" /\ carrier = "armed"
        /\ carrier' = "called_before"
        /\ UNCHANGED <<state, ndo, thread, kernel, path>>
     \/ /\ register_netdev = "CALLED_OK" /\ carrier = "called_before"
        /\ path' = "pruned"
        /\ UNCHANGED <<checks, thread, kernel>>

netif_stop_queue(t) ==
  /\ InDriver(t)
  /\ Judge(knet # NONE)
  /\ register_netdev # "CALLED_OK"
  /\ Kill(Registering)

(* __napi_schedule and netif_rx, from an interrupt handler or a poll: as   *)
(* for a nested probe, a thread of its own.                                *)
RxPre(t, f) ==
  /\ Outside(t) /\ knet # NONE
  /\ UNCHANGED faults
  /\ \/ ~MaySet(rx[f], "IN_PROGRESS") /\ Kill(Making(f, NONE))   \* two at a time
     \/ /\ MaySet(rx[f], "IN_PROGRESS")
        /\ rx' = [rx EXCEPT ![f] = "IN_PROGRESS"]
        /\ BeginCall(t, f, NONE)
        /\ UNCHANGED <<state, register_netdev, unregister_netdev, opened, net, enabled, carrier>>

RxPost(t, f) ==
  /\ call[t] # NONE /\ call[t].fn = f
  /\ \/ ~MaySet(rx[f], "CALLED_OK") /\ UNCHANGED faults /\ Kill(FALSE)
     \/ /\ MaySet(rx[f], "CALLED_OK")
        /\ rx' = [rx EXCEPT ![f] = "CALLED_OK"]
        /\ call' = [call EXCEPT ![t] = NONE]
        /\ UNCHANGED <<state, register_netdev, unregister_netdev, opened, net, enabled, carrier>>
        /\ UNCHANGED <<entry, kernel, faults, path>>

-----------------------------------------------------------------------------
(* Entry points: what the kernel calls, and the checks around it.          *)

EnterDriver(t, fn, b) ==
  /\ entry' = [entry EXCEPT ![t] = [fn |-> fn, bus |-> b]]
  /\ UNCHANGED <<call, faults, path>>

LeaveDriver(t) ==
  /\ entry' = [entry EXCEPT ![t] = Out]
  /\ UNCHANGED <<call, path>>

Inside(t, fn) == entry[t].fn = fn /\ call[t] = NONE

InitModule(t) ==
  /\ Outside(t) /\ module = "no"
  /\ module' = "init"
  /\ EnterDriver(t, "init", NONE)
  /\ UNCHANGED <<checks, kreg, kdev, knet, kopen, kenabled>>

(* Mutant: every kind must be registered.                                  *)
InitAcceptedAll(ok) == ok = (\A b \in Kinds : registered[b] = "CALLED_OK")

(* init_module must have registered a driver, or none when it fails.       *)
InitAccepted(ok) == ok = (\E b \in Kinds : registered[b] = "CALLED_OK")

InitModulePost(t, ok) ==
  /\ Inside(t, "init")
  /\ Judge(ok = (kreg # {}))
  /\ \/ ~InitAccepted(ok) /\ Kill(\E b \in Kinds \ (kreg \cup StrictKinds) : registered[b] = "CALLED_OK")
     \/ /\ InitAccepted(ok)
        /\ module' = IF ok THEN "loaded" ELSE "gone"
        /\ LeaveDriver(t)
        /\ UNCHANGED <<checks, kreg, kdev, knet, kopen, kenabled>>

CleanupModule(t) ==
  /\ Outside(t) /\ module = "loaded"
  /\ module' = "cleanup"
  /\ EnterDriver(t, "cleanup", NONE)
  /\ UNCHANGED <<checks, kreg, kdev, knet, kopen, kenabled>>

CleanupModulePost(t) ==
  /\ Inside(t, "cleanup")
  /\ Judge(kreg = {})
  /\ module' = "gone"
  /\ LeaveDriver(t)
  /\ UNCHANGED <<checks, kreg, kdev, knet, kopen, kenabled>>

(* probe and remove of the one device of a kind.                           *)
MayProbe(f) == IF f.once THEN probed[f.bus] = "NOT_CALLED" ELSE MaySet(probed[f.bus], "IN_PROGRESS")

ProbePre(t, f) ==
  LET b == f.bus IN
  /\ Outside(t) /\ b \in kreg /\ kdev[b] = "unbound"
  /\ \/ ~MayProbe(f) /\ UNCHANGED faults
        /\ Kill(probed[b] \in {"CALLED_OK", "CALLED_FAILED"})   \* probed before
     \/ f.resources /\ UNCHANGED faults /\ Kill(TRUE)   \* no first address range, or interrupt line 0
     \/ /\ MayProbe(f)
        /\ probed' = [probed EXCEPT ![b] = "IN_PROGRESS"]
        /\ kdev' = [kdev EXCEPT ![b] = "probing"]
        /\ EnterDriver(t, "probe", b)
        /\ UNCHANGED <<registered, unregistered, bus, ndo, carrier, module, kreg, knet, kopen, kenabled>>

ProbeAccepted(f, ok) ==
  f.net /\ net # NONE =>
    IF ok THEN register_netdev = "CALLED_OK" ELSE register_netdev \in {"CALLED_FAILED", "NOT_CALLED"}

ProbePost(t, f, ok) ==
  LET b == f.bus IN
  /\ Inside(t, "probe") /\ entry[t].bus = b
  /\ Judge(IF ok THEN knet = b \/ net # b ELSE knet # b)
  /\ \/ ~ProbeAccepted(f, ok) /\ Kill(net \notin {NONE, b})   \* the net device is on another bus
     \/ /\ ProbeAccepted(f, ok)
        /\ probed' = [probed EXCEPT ![b] = IF ok THEN "CALLED_OK" ELSE "CALLED_FAILED"]
        /\ kdev' = [kdev EXCEPT ![b] = IF ok THEN "bound" ELSE "unbound"]
        /\ LeaveDriver(t)
        /\ UNCHANGED <<registered, unregistered, bus, ndo, carrier, module, kreg, knet, kopen, kenabled>>

(* remove, disconnect: the checks only note the context.                   *)
Remove(t, b) ==
  /\ Outside(t) /\ kdev[b] = "bound"
  /\ kdev' = [kdev EXCEPT ![b] = "removing"]
  /\ EnterDriver(t, "remove", b)
  /\ UNCHANGED <<checks, module, kreg, knet, kopen, kenabled>>

RemovePost(t, b) ==
  /\ Inside(t, "remove") /\ entry[t].bus = b
  /\ Judge(knet # b)
  /\ kdev' = [kdev EXCEPT ![b] = "unbound"]
  /\ LeaveDriver(t)
  /\ UNCHANGED <<checks, module, kreg, knet, kopen, kenabled>>

(* suspend and resume of the PCI device: the checks look at nothing.       *)
Suspend(t) ==
  /\ Outside(t) /\ kdev["pci"] = "bound"
  /\ kdev' = [kdev EXCEPT !["pci"] = "suspending"]
  /\ EnterDriver(t, "suspend", "pci")
  /\ UNCHANGED <<checks, module, kreg, knet, kopen, kenabled>>

SuspendPost(t, ok) ==
  /\ Inside(t, "suspend")
  /\ kdev' = [kdev EXCEPT !["pci"] = IF ok THEN "suspended" ELSE "bound"]
  /\ LeaveDriver(t)
  /\ UNCHANGED <<checks, module, kreg, knet, kopen, kenabled, faults>>

Resume(t) ==
  /\ Outside(t) /\ kdev["pci"] = "suspended"
  /\ kdev' = [kdev EXCEPT !["pci"] = "resuming"]
  /\ EnterDriver(t, "resume", "pci")
  /\ UNCHANGED <<checks, module, kreg, knet, kopen, kenabled>>

ResumePost(t) ==
  /\ Inside(t, "resume")
  /\ kdev' = [kdev EXCEPT !["pci"] = "bound"]
  /\ LeaveDriver(t)
  /\ UNCHANGED <<checks, module, kreg, knet, kopen, kenabled, faults>>

MayOpen == opened \in {"NOT_CALLED", "CALLED_FAILED"} /\ SomeProbed

ndo_open(t) ==
  /\ Outside(t) /\ knet # NONE /\ ~kopen /\ ~Serving
  /\ \/ ~MayOpen /\ UNCHANGED faults
        /\ Kill(opened = "CALLED_OK" \/ kdev[knet] = "probing")   \* again, or before probe has returned
     \/ /\ MayOpen
        /\ opened' = "IN_PROGRESS"
        /\ EnterDriver(t, "open", NONE)
        /\ UNCHANGED <<state, register_netdev, unregister_netdev, rx, net, enabled, carrier, kernel>>

(* right: the result, and the queue if the call succeeded, are as the      *)
(* driver must leave them.  After a failure the check wants no interrupt   *)
(* line, though probe may have requested one, and tests the queue's state  *)
(* with the number of a bit for a mask.                                    *)
ndo_open_post(t, ok, right) ==
  /\ Inside(t, "open")
  /\ Judge(right)
  /\ \/ ~right /\ Kill(FALSE)
     \/ ~ok /\ Kill(TRUE)
     \/ /\ right
        /\ opened' = IF ok THEN "CALLED_OK" ELSE "CALLED_FAILED"
        /\ kopen' = ok
        /\ LeaveDriver(t)
        /\ UNCHANGED <<state, register_netdev, unregister_netdev, rx, net, enabled, carrier>>
        /\ UNCHANGED <<module, kreg, kdev, knet, kenabled>>

ndo_stop(t) ==
  /\ Outside(t) /\ kopen /\ ~Serving
  /\ \/ ~SomeProbed /\ UNCHANGED faults /\ Kill(kdev[knet] = "probing")
     \/ SomeProbed /\ EnterDriver(t, "stop", NONE) /\ UNCHANGED <<checks, kernel>>

ndo_stop_post(t, right) ==
  /\ Inside(t, "stop")
  /\ Judge(right)
  /\ \/ ~right /\ Kill(FALSE)
     \/ /\ right
        /\ kopen' = FALSE
        /\ LeaveDriver(t)
        /\ UNCHANGED <<checks, module, kreg, kdev, knet, kenabled>>

ndo_start_xmit(t) ==
  /\ Outside(t) /\ kopen /\ ~Serving
  /\ UNCHANGED faults
  /\ \/ Kill(TRUE)   \* a packet of more than 1536 bytes
     \/ ~SomeProbed /\ Kill(kdev[knet] = "probing")
     \/ SomeProbed /\ EnterDriver(t, "xmit", NONE) /\ UNCHANGED <<checks, kernel>>

ndo_start_xmit_post(t) ==
  /\ Inside(t, "xmit")
  /\ carrier' = "off"
  /\ LeaveDriver(t)
  /\ UNCHANGED <<state, ndo, kernel, faults>>

-----------------------------------------------------------------------------
RegisterFns == {f \in AllRegisters : f.bus \in Kinds}
UnregisterFns == {f \in AllUnregisters : f.bus \in Kinds}
ProbeFns == {f \in AllProbes : f.bus \in Kinds}

DriverCall(t) ==
  \/ \E f \in RegisterFns : RegisterPre(t, f) \/ RegisterPost(t, f)
  \/ \E f \in UnregisterFns : UnregisterPre(t, f) \/ UnregisterPost(t, f)
  \/ "pci" \in Kinds /\ (EnablePre(t) \/ EnablePost(t) \/ DisablePre(t) \/ DisablePost(t))
  \/ RegisterNetdevPost(t) \/ \E b \in Kinds : RegisterNetdevPre(t, b)
  \/ UnregisterNetdevPre(t) \/ UnregisterNetdevPost(t)
  \/ netif_carrier_off(t) \/ netif_stop_queue(t)
  \/ \E f \in RxCalls : RxPre(t, f) \/ RxPost(t, f)

KernelCall(t) ==
  \/ \E ok \in BOOLEAN : \/ KernelRegister(t, ok)
                         \/ KernelEnable(t, ok)
                         \/ KernelRegisterNetdev(t, ok)
  \/ KernelUnregister(t) \/ KernelDisable(t) \/ KernelUnregisterNetdev(t)

EntryPoint(t) ==
  \/ InitModule(t) \/ CleanupModule(t) \/ CleanupModulePost(t)
  \/ \E ok \in BOOLEAN : InitModulePost(t, ok)
  \/ \E f \in ProbeFns : ProbePre(t, f) \/ \E ok \in BOOLEAN : ProbePost(t, f, ok)
  \/ \E b \in Kinds : Remove(t, b) \/ RemovePost(t, b)
  \/ "pci" \in Kinds /\ (Suspend(t) \/ Resume(t) \/ ResumePost(t) \/ \E ok \in BOOLEAN : SuspendPost(t, ok))
  \/ ndo_open(t) \/ ndo_stop(t) \/ ndo_start_xmit(t) \/ ndo_start_xmit_post(t)
  \/ \E right \in BOOLEAN : ndo_stop_post(t, right) \/ \E ok \in BOOLEAN : ndo_open_post(t, ok, right)

Next == path = "running" /\ \E t \in Threads : DriverCall(t) \/ KernelCall(t) \/ EntryPoint(t)

Spec == Init /\ [][Next]_vars

-----------------------------------------------------------------------------
(* The framework's picture of a kind is the kernel's whenever no call on   *)
(* it is under way: a strict kind is CALLED_OK, with its bus recorded,     *)
(* exactly when the kernel has the driver, and for the others the bus is   *)
(* recorded exactly then (set_call_state, set_driver_bus).                 *)
RegistrationAgrees ==
  \A b \in Kinds : ~Making("register", b) /\ ~Making("unregister", b) =>
    IF b \in StrictKinds THEN (registered[b] = "CALLED_OK" <=> b \in kreg) /\ (b \in kreg => b \in bus)
                         ELSE b \in bus <=> b \in kreg

(* The same for the network device and for the PCI device; and the kernel  *)
(* is never asked to unregister a network device it does not have          *)
(* (register_netdev, unregister_netdev, pci_enable_device).                *)
DeviceAgrees ==
  /\ ~Making("unregister_netdev", NONE) /\ (\A b \in Kinds : ~Making("register_netdev", b)) =>
       (register_netdev = "CALLED_OK" <=> knet # NONE)
  /\ ~Making("enable", "pci") /\ ~Making("disable", "pci") => (enabled = "ENABLED" <=> kenabled)
  /\ \A t \in Threads : Pending(t, "unregister_netdev") => knet # NONE

(* The framework's records are well formed and describe the kernel.        *)
StateAgrees == TypeOK /\ RegistrationAgrees /\ DeviceAgrees

(* A driver of a strict kind is registered and unregistered by one thread  *)
(* at a time, and only unregistered if the kernel has it: what the checks  *)
(* let through is safe, whatever the driver does.                          *)
StrictCallsSafe ==
  \A t \in Threads : (Pending(t, "register") \/ Pending(t, "unregister")) /\ call[t].bus \in StrictKinds =>
    /\ call[t].fn = "unregister" <=> call[t].bus \in kreg
    /\ \A u \in Threads \ {t} : call[u] # NONE /\ call[u].bus = call[t].bus =>
         call[u].fn \notin {"register", "unregister"}

(* A path is stopped only for an illegal call of the driver, whatever the  *)
(* order in which threads register, probe, open and unregister; the        *)
(* exceptions are those marked known in the checks.                        *)
NoFalseAlarm == path = "assert" => faults > 0
=============================================================================
