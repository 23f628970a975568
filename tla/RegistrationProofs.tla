------------------------ MODULE RegistrationProofs ------------------------
(***************************************************************************)
(* Proofs about Registration, for any threads, any driver kinds and any    *)
(* number of illegal calls: what the checks record is what the kernel has, *)
(* the calls they let through are safe, and no legal call is stopped.      *)
(***************************************************************************)
EXTENDS Registration, FiniteSetTheorems, TLAPS

Doing(t, fn, b) == call[t] # NONE /\ call[t].fn = fn /\ call[t].bus = b

(* The calls that register or unregister the driver of a kind.             *)
OnDriver(t, b) == Doing(t, "register", b) \/ Doing(t, "unregister", b)

-----------------------------------------------------------------------------
(* Where a thread is: entry points with a device, and those that only one  *)
(* thread at a time can be in.                                             *)
EntryOK(t) ==
  /\ entry[t].fn \in DeviceEntries <=> entry[t].bus # NONE
  /\ entry[t].fn \in {"init", "cleanup"} => module = entry[t].fn
  /\ entry[t].fn = "probe" => kdev[entry[t].bus] = "probing"
  /\ entry[t].fn = "remove" => kdev[entry[t].bus] = "removing"
  /\ entry[t].fn = "suspend" => kdev["pci"] = "suspending" /\ entry[t].bus = "pci"
  /\ entry[t].fn = "resume" => kdev["pci"] = "resuming" /\ entry[t].bus = "pci"

Alone(t, u) ==
  \/ entry[t].fn \in {"init", "cleanup"} /\ entry[u].fn = entry[t].fn
  \/ entry[t].fn \in {"open", "stop"} /\ entry[u].fn \in {"open", "stop"}
  \/ entry[t].bus # NONE /\ entry[u].bus = entry[t].bus

EntryInv ==
  /\ \A t \in Threads : EntryOK(t)
  /\ \A t, u \in Threads : Alone(t, u) => t = u

(* From where each call is made, and on what.                              *)
CallOK(t) ==
  call[t] # NONE =>
    /\ call[t].fn \in {"register", "unregister"} => call[t].bus \in Kinds
    /\ call[t].fn \in {"register", "unregister"} /\ faults = 0 => In(t, {"init", "cleanup"})
    /\ call[t].fn \in {"enable", "disable"} => "pci" \in Kinds /\ call[t].bus = "pci" /\ entry[t].bus = "pci"
    /\ call[t].fn = "register_netdev" => call[t].bus = entry[t].bus /\ entry[t].bus # NONE
    /\ call[t].fn = "unregister_netdev" => call[t].bus = NONE
    /\ call[t].fn = "unregister_netdev" /\ faults = 0 => entry[t].bus = net
    /\ call[t].fn \in {__napi_schedule, netif_rx} => call[t].bus = NONE

CallInv == \A t \in Threads : CallOK(t)

-----------------------------------------------------------------------------
(* The kinds whose calls are serialized: by the checks, or by a driver     *)
(* that has made no illegal call.                                          *)
Serial(b) == b \in StrictKinds \/ faults = 0

Idle(b) ==
  /\ registered[b] # "IN_PROGRESS" /\ unregistered[b] # "IN_PROGRESS"
  /\ b \in kreg => registered[b] = "CALLED_OK" /\ b \in bus
  /\ IF b \in StrictKinds THEN /\ registered[b] = "CALLED_OK" => b \in kreg
                               /\ registered[b] = "NOT_CALLED" => b \notin bus
                          ELSE b \in bus => b \in kreg

InRegister(t, b) ==
  /\ registered[b] = "IN_PROGRESS" /\ unregistered[b] # "IN_PROGRESS"
  /\ b \in bus <=> b \in StrictKinds
  /\ b \in kreg <=> call[t].ret = "ok"

InUnregister(t, b) ==
  /\ registered[b] = IF b \in {"usb", "misc"} THEN "IN_PROGRESS" ELSE "CALLED_OK"
  /\ unregistered[b] = "IN_PROGRESS" <=> b \in {"pci", "proto"}
  /\ b \in bus
  /\ b \in kreg <=> call[t].ret = "pending"

SerialInv(b) ==
  /\ \A t, u \in Threads : OnDriver(t, b) /\ OnDriver(u, b) => t = u
  /\ \A t \in Threads : Doing(t, "register", b) => InRegister(t, b)
  /\ \A t \in Threads : Doing(t, "unregister", b) => InUnregister(t, b)
  /\ (\A t \in Threads : ~OnDriver(t, b)) => Idle(b)

(* A kind whose checks let calls overlap: one registers at a time, and the *)
(* bus lags behind the kernel by the calls that have returned.             *)
Added(b) == {t \in Threads : Doing(t, "register", b) /\ call[t].ret = "ok"}
Removed(b) == {t \in Threads : Doing(t, "unregister", b) /\ call[t].ret # "pending"}

One(p) == IF p THEN 1 ELSE 0

LooseInv(b) ==
  /\ \A t, u \in Threads : Doing(t, "register", b) /\ Doing(u, "register", b) => t = u
  /\ \A t \in Threads : Doing(t, "register", b) => registered[b] = "IN_PROGRESS"
  /\ registered[b] = "IN_PROGRESS" => \E t \in Threads : Doing(t, "register", b)
  /\ IsFiniteSet(Added(b)) /\ IsFiniteSet(Removed(b))
  /\ One(b \in kreg) + Cardinality(Removed(b)) = One(b \in bus) + Cardinality(Added(b))

KindInv(b) == (Serial(b) => SerialInv(b)) /\ (b \notin StrictKinds => LooseInv(b))

RegInv == \A b \in Kinds : KindInv(b)

-----------------------------------------------------------------------------
(* The network device: it is registered once, and unregistered by one      *)
(* thread.                                                                 *)
InRegisterNetdev(t) ==
  /\ register_netdev = "IN_PROGRESS" /\ unregister_netdev = "NOT_CALLED" /\ net = call[t].bus
  /\ knet = IF call[t].ret = "ok" THEN net ELSE NONE

InUnregisterNetdev(t) ==
  /\ unregister_netdev = "IN_PROGRESS" /\ register_netdev = "CALLED_OK"
  /\ knet = IF call[t].ret = "pending" THEN net ELSE NONE

OnNet(t) == call[t] # NONE /\ call[t].fn \in {"register_netdev", "unregister_netdev"}

NetInv ==
  /\ knet \in {NONE, net}
  /\ net = NONE => register_netdev = "NOT_CALLED"
  /\ \A t, u \in Threads : OnNet(t) /\ OnNet(u) => t = u
  /\ \A t \in Threads : OnNet(t) => IF call[t].fn = "register_netdev" THEN InRegisterNetdev(t)
                                                                     ELSE InUnregisterNetdev(t)
  /\ (\A t \in Threads : ~OnNet(t)) =>
       /\ unregister_netdev = "NOT_CALLED" /\ register_netdev # "IN_PROGRESS"
       /\ register_netdev = "CALLED_OK" <=> knet # NONE

(* The PCI device.                                                         *)
InEnable(t) == enabled # "ENABLED" /\ (kenabled <=> call[t].ret = "ok")

InDisable(t) == enabled = "ENABLED" /\ (kenabled <=> call[t].ret = "pending")

OnDevice(t) == call[t] # NONE /\ call[t].fn \in {"enable", "disable"}

DevInv ==
  /\ \A t \in Threads : OnDevice(t) => IF call[t].fn = "enable" THEN InEnable(t) ELSE InDisable(t)
  /\ (\A t \in Threads : ~OnDevice(t)) => (enabled = "ENABLED" <=> kenabled)

(* Receive calls.                                                          *)
RxInv ==
  \A f \in RxCalls :
    /\ \A t, u \in Threads : Doing(t, f, NONE) /\ Doing(u, f, NONE) => t = u
    /\ \A t \in Threads : Doing(t, f, NONE) => rx[f] = "IN_PROGRESS"
    /\ rx[f] = "IN_PROGRESS" => \E t \in Threads : Doing(t, f, NONE)

(* Probing, and serving the network device.                                *)
ProbeInv ==
  \A b \in Kinds :
    /\ probed[b] = "IN_PROGRESS" => kdev[b] = "probing"
    /\ kdev[b] \notin {"unbound", "probing"} => probed[b] = "CALLED_OK"
    /\ faults = 0 /\ knet = b => kdev[b] # "unbound"

OpenInv ==
  /\ opened = "IN_PROGRESS" => \E t \in Threads : entry[t].fn = "open"
  /\ kopen \/ (\E t \in Threads : entry[t].fn = "open") => knet # NONE

IInv ==
  /\ TypeOK /\ EntryInv /\ CallInv
  /\ RegInv /\ NetInv /\ DevInv /\ RxInv /\ ProbeInv /\ OpenInv
  /\ NoFalseAlarm

(* The two sets of names, for every proof.                                 *)
USE DEF Device, DeviceEntries

-----------------------------------------------------------------------------
(* The register checks.                                                    *)
LEMMA RegistersAre ==
  ASSUME NEW f \in AllRegisters
  PROVE  \/ f.strict /\ f.bus \in {"pci", "usb", "misc", "proto"}
         \/ ~f.strict /\ f.bus \in {"i2c", "spi", "platform"}
<1> USE DEF Registers
<1>1. f \in {__pci_register_driver, usb_register_driver, misc_register, proto_register,
             i2c_add_driver, spi_register_driver, platform_driver_register}
  BY DEF AllRegisters
<1>2. CASE f = __pci_register_driver
  BY <1>2 DEF __pci_register_driver
<1>3. CASE f = usb_register_driver
  BY <1>3 DEF usb_register_driver
<1>4. CASE f = misc_register
  BY <1>4 DEF misc_register
<1>5. CASE f = proto_register
  BY <1>5 DEF proto_register
<1>6. CASE f = i2c_add_driver
  BY <1>6 DEF i2c_add_driver
<1>7. CASE f = spi_register_driver
  BY <1>7 DEF spi_register_driver
<1>8. CASE f = platform_driver_register
  BY <1>8 DEF platform_driver_register
<1> QED
  BY <1>1, <1>2, <1>3, <1>4, <1>5, <1>6, <1>7, <1>8

(* The kinds whose checks refuse a second registration.                    *)
LEMMA StrictKindsAre == StrictKinds = {"pci", "usb", "misc", "proto"}
<1>1. StrictKinds \subseteq {"pci", "usb", "misc", "proto"}
  BY RegistersAre DEF StrictKinds
<1> DEFINE F == {g \in AllRegisters : g.strict}
<1>2. {__pci_register_driver, usb_register_driver, misc_register, proto_register} \subseteq F
  BY DEF AllRegisters, Registers, __pci_register_driver, usb_register_driver, misc_register, proto_register
<1>3. /\ __pci_register_driver.bus = "pci" /\ usb_register_driver.bus = "usb"
      /\ misc_register.bus = "misc" /\ proto_register.bus = "proto"
  BY DEF Registers, __pci_register_driver, usb_register_driver, misc_register, proto_register
<1>4. \A f \in F : f.bus \in StrictKinds
  BY DEF StrictKinds
<1> HIDE DEF F
<1> QED
  BY <1>1, <1>2, <1>3, <1>4

(* A register check is strict exactly for a strict kind.                   *)
LEMMA RegisterFnsAre ==
  ASSUME NEW f \in RegisterFns
  PROVE  f.bus \in Kinds /\ (f.strict <=> f.bus \in StrictKinds)
BY RegistersAre, StrictKindsAre DEF RegisterFns

(* An unregister check says by which field a call is in progress.          *)
LEMMA UnregisterFnsAre ==
  ASSUME NEW f \in UnregisterFns
  PROVE  /\ f.bus \in Kinds
         /\ f.field = "registered" <=> f.bus \in {"usb", "misc"}
         /\ f.field = "unregistered" <=> f.bus \in {"pci", "proto"}
         /\ f.field = "none" <=> f.bus \notin StrictKinds
<1>1. f.bus \in Kinds /\ f \in AllUnregisters
  BY DEF UnregisterFns
<1>2. \/ f = [bus |-> "pci", field |-> "unregistered"] \/ f = [bus |-> "usb", field |-> "registered"]
      \/ f = [bus |-> "misc", field |-> "registered"] \/ f = [bus |-> "proto", field |-> "unregistered"]
      \/ f = [bus |-> "i2c", field |-> "none"] \/ f = [bus |-> "spi", field |-> "none"]
      \/ f = [bus |-> "platform", field |-> "none"]
  BY <1>1 DEF AllUnregisters, Unregisters, pci_unregister_driver, usb_deregister,
    misc_deregister, proto_unregister, i2c_del_driver, spi_unregister_driver, platform_driver_unregister
<1> QED
  BY <1>1, <1>2, StrictKindsAre

(* A probe check is for a kind of the driver.                              *)
LEMMA ProbeFnsAre == \A f \in ProbeFns : f.bus \in Kinds
BY DEF ProbeFns

-----------------------------------------------------------------------------
(* A thread that is in one of some calls, or in none.                      *)
Only(t, F) == call[t] = NONE \/ call[t].fn \in F

(* What a step does not touch stays as it is: a kind,                      *)
LEMMA KindFrame ==
  ASSUME NEW b, KindInv(b), faults' = 0 => faults = 0,
         registered'[b] = registered[b], unregistered'[b] = unregistered[b],
         b \in bus' <=> b \in bus, b \in kreg' <=> b \in kreg,
         \A u \in Threads : call'[u] = call[u] \/ (~OnDriver(u, b) /\ ~OnDriver(u, b)')
  PROVE  KindInv(b)'
<1>1. \A u \in Threads : OnDriver(u, b)' <=> OnDriver(u, b)
  BY DEF OnDriver, Doing
<1>2. \A u \in Threads : Doing(u, "register", b)' <=> Doing(u, "register", b)
  BY DEF OnDriver, Doing
<1>3. \A u \in Threads : Doing(u, "unregister", b)' <=> Doing(u, "unregister", b)
  BY DEF OnDriver, Doing
<1>4. \A u \in Threads : OnDriver(u, b) => call'[u] = call[u]
  OBVIOUS
<1>5. Serial(b)' => Serial(b)
  BY DEF Serial
<1>6. SerialInv(b) => SerialInv(b)'
  BY <1>1, <1>2, <1>3, <1>4 DEF SerialInv, InRegister, InUnregister, Idle, OnDriver
<1>7. Added(b)' = Added(b) /\ Removed(b)' = Removed(b)
  BY <1>2, <1>3, <1>4 DEF Added, Removed, OnDriver
<1>8. LooseInv(b) => LooseInv(b)'
  BY <1>2, <1>7 DEF LooseInv, One
<1> QED
  BY <1>5, <1>6, <1>8 DEF KindInv

(* the network device,                                                     *)
LEMMA NetFrame ==
  ASSUME NetInv, UNCHANGED <<register_netdev, unregister_netdev, net, knet>>,
         \A u \in Threads : call'[u] = call[u] \/ (~OnNet(u) /\ ~OnNet(u)')
  PROVE  NetInv'
<1>1. \A u \in Threads : OnNet(u)' <=> OnNet(u)
  BY DEF OnNet
<1>2. \A u \in Threads : OnNet(u) => call'[u] = call[u]
  OBVIOUS
<1> QED
  BY <1>1, <1>2 DEF NetInv, InRegisterNetdev, InUnregisterNetdev

(* the PCI device,                                                         *)
LEMMA DevFrame ==
  ASSUME DevInv, UNCHANGED <<enabled, kenabled>>,
         \A u \in Threads : call'[u] = call[u] \/ (~OnDevice(u) /\ ~OnDevice(u)')
  PROVE  DevInv'
<1>1. \A u \in Threads : OnDevice(u)' <=> OnDevice(u)
  BY DEF OnDevice
<1>2. \A u \in Threads : OnDevice(u) => call'[u] = call[u]
  OBVIOUS
<1> QED
  BY <1>1, <1>2 DEF DevInv, InEnable, InDisable

(* the receive calls,                                                      *)
LEMMA RxFrame ==
  ASSUME RxInv, UNCHANGED rx,
         \A u \in Threads, f \in RxCalls : Doing(u, f, NONE)' <=> Doing(u, f, NONE)
  PROVE  RxInv'
BY DEF RxInv

(* and a step of one thread that touches only some kinds of calls.         *)
LEMMA CallFrame ==
  ASSUME RegInv, NetInv, DevInv, RxInv, faults' = 0 => faults = 0,
         NEW t \in Threads, NEW F, Only(t, F), Only(t, F)',
         \A u \in Threads : u # t => call'[u] = call[u]
  PROVE  /\ "register" \notin F /\ "unregister" \notin F /\ UNCHANGED <<registered, unregistered, bus, kreg>>
              => RegInv'
         /\ "register_netdev" \notin F /\ "unregister_netdev" \notin F
              /\ UNCHANGED <<register_netdev, unregister_netdev, net, knet>> => NetInv'
         /\ "enable" \notin F /\ "disable" \notin F /\ UNCHANGED <<enabled, kenabled>> => DevInv'
         /\ __napi_schedule \notin F /\ netif_rx \notin F /\ UNCHANGED rx => RxInv'
<1>1. ASSUME "register" \notin F, "unregister" \notin F, UNCHANGED <<registered, unregistered, bus, kreg>>
      PROVE  RegInv'
  <2> SUFFICES ASSUME NEW b \in Kinds PROVE KindInv(b)'
    BY DEF RegInv
  <2>1. ~OnDriver(t, b) /\ ~OnDriver(t, b)'
    BY <1>1 DEF OnDriver, Doing, Only
  <2> QED
    BY <1>1, <2>1, KindFrame DEF RegInv
<1>2. ASSUME "register_netdev" \notin F, "unregister_netdev" \notin F,
             UNCHANGED <<register_netdev, unregister_netdev, net, knet>>
      PROVE  NetInv'
  <2>1. ~OnNet(t) /\ ~OnNet(t)'
    BY <1>2 DEF OnNet, Only
  <2> QED
    BY <1>2, <2>1, NetFrame
<1>3. ASSUME "enable" \notin F, "disable" \notin F, UNCHANGED <<enabled, kenabled>>
      PROVE  DevInv'
  <2>1. ~OnDevice(t) /\ ~OnDevice(t)'
    BY <1>3 DEF OnDevice, Only
  <2> QED
    BY <1>3, <2>1, DevFrame
<1>4. ASSUME __napi_schedule \notin F, netif_rx \notin F, UNCHANGED rx
      PROVE  RxInv'
  <2>1. \A f \in RxCalls : f \in {__napi_schedule, netif_rx}
    BY KindsAssumption
  <2>2. \A f \in RxCalls : ~Doing(t, f, NONE) /\ ~Doing(t, f, NONE)'
    BY <1>4, <2>1 DEF Doing, Only
  <2> QED
    BY <1>4, <2>2, RxFrame DEF Doing
<1> QED
  BY <1>1, <1>2, <1>3, <1>4

(* Where the threads are.                                                  *)
LEMMA EntryFrame ==
  ASSUME EntryInv, UNCHANGED <<entry, module, kdev>>
  PROVE  EntryInv'
BY DEF EntryInv, EntryOK, Alone

LEMMA CallInvFrame ==
  ASSUME CallInv, UNCHANGED <<entry, net>>, faults' = 0 => faults = 0,
         NEW t \in Threads, CallOK(t)', \A u \in Threads : u # t => call'[u] = call[u]
  PROVE  CallInv'
BY DEF CallInv, CallOK, In

LEMMA ProbeFrame ==
  ASSUME ProbeInv, UNCHANGED <<probed, kdev, knet>>, faults' = 0 => faults = 0
  PROVE  ProbeInv'
BY DEF ProbeInv

LEMMA OpenFrame ==
  ASSUME OpenInv, UNCHANGED <<opened, kopen, entry, knet>>
  PROVE  OpenInv'
BY DEF OpenInv

-----------------------------------------------------------------------------
(* A call begins, the kernel answers it, and it ends.                      *)
LEMMA Begins ==
  ASSUME TypeOK, NEW t \in Threads, NEW fn \in Calls, NEW b \in Kinds \cup {NONE}, BeginCall(t, fn, b)
  PROVE  /\ call'[t] # NONE /\ call'[t].fn = fn /\ call'[t].bus = b /\ call'[t].ret = "pending"
         /\ \A u \in Threads : u # t => call'[u] = call[u]
         /\ call' \in [Threads -> Call \cup {NONE}]
<1> DEFINE r == [fn |-> fn, bus |-> b, ret |-> "pending"]
<1>1. r \in Call
  BY DEF Call
<1>2. call \in [Threads -> Call \cup {NONE}] /\ call' = [call EXCEPT ![t] = r]
  BY DEF TypeOK, BeginCall
<1>3. r # NONE
  BY <1>1, NoneAssumption
<1>4. r.fn = fn /\ r.bus = b /\ r.ret = "pending"
  OBVIOUS
<1> HIDE DEF r
<1> QED
  BY <1>1, <1>2, <1>3, <1>4

LEMMA Returns ==
  ASSUME TypeOK, NEW t \in Threads, call[t] # NONE, NEW ok \in BOOLEAN, KernelReturns(t, ok)
  PROVE  /\ call'[t] # NONE /\ call'[t].fn = call[t].fn /\ call'[t].bus = call[t].bus
         /\ call'[t].ret = IF ok THEN "ok" ELSE "fail"
         /\ \A u \in Threads : u # t => call'[u] = call[u]
         /\ call' \in [Threads -> Call \cup {NONE}]
<1> DEFINE r == [fn |-> call[t].fn, bus |-> call[t].bus, ret |-> IF ok THEN "ok" ELSE "fail"]
<1>1. call[t] \in Call /\ call \in [Threads -> Call \cup {NONE}]
  BY DEF TypeOK
<1>2. r \in Call
  BY <1>1 DEF Call
<1>3. r = [call[t] EXCEPT !.ret = IF ok THEN "ok" ELSE "fail"]
  BY <1>1 DEF Call
<1>4. call' = [call EXCEPT ![t] = r]
  BY <1>1, <1>3 DEF KernelReturns
<1>5. r # NONE
  BY <1>2, NoneAssumption
<1>6. r.fn = call[t].fn /\ r.bus = call[t].bus /\ r.ret = IF ok THEN "ok" ELSE "fail"
  OBVIOUS
<1> HIDE DEF r
<1> QED
  BY <1>1, <1>2, <1>4, <1>5, <1>6

LEMMA Ends ==
  ASSUME TypeOK, NEW t \in Threads, call' = [call EXCEPT ![t] = NONE]
  PROVE  /\ call'[t] = NONE
         /\ \A u \in Threads : u # t => call'[u] = call[u]
         /\ call' \in [Threads -> Call \cup {NONE}]
BY DEF TypeOK

(* A step that leaves the checks, the threads and the kernel alone: the    *)
(* end of a path.                                                          *)
LEMMA Still ==
  ASSUME IInv, UNCHANGED <<checks, thread, kernel>>, faults' \in 0 .. MaxFaults, faults' = 0 => faults = 0,
         path' \in {"running", "assert", "known", "pruned", "oops"}, path' = "assert" => faults' > 0
  PROVE  IInv'
<1> USE DEF checks, thread, kernel, state, ndo
<1>1. TypeOK'
  BY DEF IInv, TypeOK
<1>2. RegInv'
  <2> SUFFICES ASSUME NEW b \in Kinds PROVE KindInv(b)'
    BY DEF RegInv
  <2> QED
    BY KindFrame DEF RegInv, IInv
<1>3. NetInv' /\ DevInv'
  BY NetFrame, DevFrame DEF IInv
<1>4. RxInv'
  BY RxFrame DEF IInv, Doing
<1>5. EntryInv' /\ ProbeInv' /\ OpenInv'
  BY EntryFrame, ProbeFrame, OpenFrame DEF IInv
<1>6. CallInv'
  BY DEF IInv, CallInv, CallOK, In
<1> QED
  BY <1>1, <1>2, <1>3, <1>4, <1>5, <1>6 DEF IInv, NoFalseAlarm

(* The check of a call fails.                                              *)
LEMMA Killed ==
  ASSUME IInv, NEW known \in BOOLEAN, Kill(known), faults' \in 0 .. MaxFaults, faults' = 0 => faults = 0,
         known \/ faults' > 0
  PROVE  IInv'
BY Still DEF Kill

(* It fails, and the driver is at fault.                                   *)
LEMMA Stopped ==
  ASSUME IInv, Kill(FALSE), faults' \in 0 .. MaxFaults, faults' > 0
  PROVE  IInv'
BY Still, KindsAssumption DEF Kill

-----------------------------------------------------------------------------
(* A step of a call on the driver of kind b leaves all but that kind.      *)
LEMMA DriverStep ==
  ASSUME IInv, path = "running", NEW t \in Threads, NEW b \in Kinds,
         UNCHANGED <<probed, ndo, carrier, entry, module, kdev, knet, kopen, kenabled, path>>,
         faults' \in 0 .. MaxFaults, faults' = 0 => faults = 0,
         registered' \in [Kinds -> CallState], unregistered' \in [Kinds -> CallState],
         bus' \subseteq Kinds, kreg' \subseteq Kinds,
         \A c \in Kinds : c # b => /\ registered'[c] = registered[c] /\ unregistered'[c] = unregistered[c]
                                   /\ (c \in bus' <=> c \in bus) /\ (c \in kreg' <=> c \in kreg),
         call' \in [Threads -> Call \cup {NONE}], \A u \in Threads : u # t => call'[u] = call[u],
         call[t] # NONE => call[t].fn \in {"register", "unregister"} /\ call[t].bus = b,
         call'[t] # NONE => /\ call'[t].fn \in {"register", "unregister"} /\ call'[t].bus = b
                            /\ faults' = 0 => In(t, {"init", "cleanup"}),
         KindInv(b)'
  PROVE  IInv'
<1> USE DEF ndo
<1>1. TypeOK'
  BY DEF IInv, TypeOK
<1>2. NetInv' /\ DevInv' /\ RxInv'
  <2> DEFINE F == {"register", "unregister"}
  <2>1. Only(t, F) /\ Only(t, F)'
    BY DEF Only
  <2> QED
    BY <2>1, CallFrame DEF IInv, __napi_schedule, netif_rx
<1>3. EntryInv' /\ ProbeInv' /\ OpenInv'
  BY EntryFrame, ProbeFrame, OpenFrame DEF IInv
<1>4. CallInv'
  <2>1. CallOK(t)'
    BY DEF CallOK, In, __napi_schedule, netif_rx
  <2> QED
    BY <2>1, CallInvFrame DEF IInv
<1>5. ASSUME NEW c \in Kinds, c # b PROVE KindInv(c)'
  <2>1. ~OnDriver(t, c) /\ ~OnDriver(t, c)'
    BY <1>5 DEF OnDriver, Doing
  <2> QED
    BY <1>5, <2>1, KindFrame DEF IInv, RegInv
<1>6. RegInv'
  BY <1>5 DEF RegInv
<1> QED
  BY <1>1, <1>2, <1>3, <1>4, <1>6 DEF IInv, NoFalseAlarm

(* The only call on a serialized kind, and what it leaves behind.          *)
LEMMA SerialOne ==
  ASSUME NEW b, NEW t \in Threads, OnDriver(t, b)', \A u \in Threads : u # t => ~OnDriver(u, b)',
         Doing(t, "register", b)' => InRegister(t, b)', Doing(t, "unregister", b)' => InUnregister(t, b)'
  PROVE  SerialInv(b)'
BY DEF SerialInv, OnDriver

(* Registering a driver of a kind.                                         *)
LEMMA RegisterPreInv ==
  ASSUME IInv, path = "running", NEW t \in Threads, NEW f \in RegisterFns, RegisterPre(t, f)
  PROVE  IInv'
<1> DEFINE b == f.bus
<1>1. b \in Kinds /\ (f.strict <=> b \in StrictKinds) /\ KindInv(b)
  BY RegisterFnsAre DEF IInv, RegInv
<1>2. /\ faults' \in 0 .. MaxFaults /\ (faults' = 0 => faults = 0)
      /\ faults' = 0 => b \notin kreg /\ (\A u \in Threads : ~OnDriver(u, b)) /\ In(t, {"init"})
  <2>1. /\ faults' \in 0 .. MaxFaults /\ (faults' = 0 => faults = 0)
        /\ faults' = 0 => b \notin kreg /\ ~Making("register", b) /\ ~Making("unregister", b) /\ In(t, {"init"})
    BY KindsAssumption DEF RegisterPre, Judge, IInv, TypeOK
  <2> QED
    BY <2>1 DEF Making, OnDriver, Doing
<1>3. call[t] = NONE
  BY DEF RegisterPre, InSetup, InDriver
<1>4. ASSUME faults' = 0 \/ (f.strict /\ MayRegister(f))
      PROVE  (\A u \in Threads : ~OnDriver(u, b)) /\ Idle(b)
  <2>1. SerialInv(b)
    BY <1>1, <1>2, <1>4 DEF KindInv, Serial
  <2>2. CASE faults' = 0
    BY <2>1, <2>2, <1>2 DEF SerialInv
  <2>3. CASE f.strict /\ MayRegister(f)
    <3>1. registered[b] = "NOT_CALLED"
      BY <2>3 DEF MayRegister
    <3>2. \A u \in Threads : ~OnDriver(u, b)
      BY <2>1, <3>1 DEF SerialInv, OnDriver, InRegister, InUnregister
    <3> QED
      BY <2>1, <3>2 DEF SerialInv
  <2> QED
    BY <1>4, <2>2, <2>3
<1>5. CASE ~MayRegister(f) /\ Kill(registered[b] = "CALLED_FAILED")
  <2>1. ASSUME faults' = 0 PROVE registered[b] = "CALLED_FAILED"
    <3>1. registered[b] \in CallState
      BY <1>1 DEF IInv, TypeOK
    <3>2. Idle(b) /\ b \notin kreg
      BY <1>2, <1>4, <2>1
    <3> QED
      BY <3>1, <3>2, <1>1, <1>5 DEF Idle, MayRegister, MaySet, CallState
  <2>2. faults' > 0 \/ registered[b] = "CALLED_FAILED"
    BY <2>1, <1>2, KindsAssumption
  <2> QED
    BY <1>2, <1>5, <2>2, Killed
<1>6. CASE /\ MayRegister(f)
           /\ registered' = [registered EXCEPT ![b] = "IN_PROGRESS"]
           /\ bus' = IF f.strict THEN bus \cup {b} ELSE bus
           /\ BeginCall(t, "register", b)
           /\ UNCHANGED <<unregistered, probed, ndo, carrier>>
  <2> USE DEF ndo, kernel
  <2>1. /\ call'[t] # NONE /\ call'[t].fn = "register" /\ call'[t].bus = b /\ call'[t].ret = "pending"
        /\ \A u \in Threads : u # t => call'[u] = call[u]
        /\ call' \in [Threads -> Call \cup {NONE}]
    BY <1>1, <1>6, Begins DEF Calls, IInv
  <2>2. UNCHANGED <<entry, kernel, path>>
    BY <1>6 DEF BeginCall
  <2>3. KindInv(b)'
    <3>1. /\ Doing(t, "register", b)' /\ OnDriver(t, b)' /\ ~Doing(t, "unregister", b)' /\ ~OnDriver(t, b)
          /\ \A u \in Threads : u # t => (OnDriver(u, b)' <=> OnDriver(u, b))
          /\ \A u \in Threads : u # t => (Doing(u, "register", b)' <=> Doing(u, "register", b))
          /\ \A u \in Threads : u # t => (Doing(u, "unregister", b)' <=> Doing(u, "unregister", b))
      BY <1>3, <2>1 DEF OnDriver, Doing
    <3>2. registered'[b] = "IN_PROGRESS"
      BY <1>1, <1>6 DEF IInv, TypeOK
    <3>3. ASSUME Serial(b)' PROVE SerialInv(b)'
      <4>1. (\A u \in Threads : ~OnDriver(u, b)) /\ Idle(b) /\ b \notin kreg
        BY <1>1, <1>2, <1>4, <1>6, <3>3 DEF Serial, Idle, MayRegister
      <4>2. InRegister(t, b)'
        BY <1>1, <1>6, <2>1, <2>2, <3>2, <4>1 DEF InRegister, Idle
      <4>3. \A u \in Threads : u # t => ~OnDriver(u, b)' /\ ~Doing(u, "register", b)' /\ ~Doing(u, "unregister", b)'
        BY <3>1, <4>1 DEF OnDriver
      <4> QED
        BY <3>1, <4>2, <4>3 DEF SerialInv
    <3>4. ASSUME b \notin StrictKinds PROVE LooseInv(b)'
      <4>1. LooseInv(b) /\ registered[b] # "IN_PROGRESS"
        BY <1>1, <1>6, <3>4 DEF KindInv, MayRegister, MaySet
      <4>2. \A u \in Threads : ~Doing(u, "register", b)
        BY <4>1 DEF LooseInv
      <4>3. Added(b)' = Added(b)
        BY <2>1, <3>1, <4>2 DEF Added
      <4>4. Removed(b)' = Removed(b)
        BY <2>1, <3>1 DEF Removed, OnDriver
      <4> QED
        BY <1>1, <1>6, <2>2, <3>1, <3>2, <3>4, <4>1, <4>2, <4>3, <4>4 DEF LooseInv, One
    <3> QED
      BY <3>3, <3>4 DEF KindInv
  <2>4. /\ registered' \in [Kinds -> CallState] /\ bus' \subseteq Kinds
        /\ \A c \in Kinds : c # b => registered'[c] = registered[c] /\ (c \in bus' <=> c \in bus)
    BY <1>1, <1>6 DEF IInv, TypeOK, CallState
  <2>5. /\ UNCHANGED <<unregistered, probed, ndo, carrier, entry, module, kdev, knet, kopen, kenabled, kreg, path>>
        /\ unregistered \in [Kinds -> CallState] /\ kreg \subseteq Kinds
    BY <1>6, <2>2 DEF IInv, TypeOK
  <2>6. faults' = 0 => In(t, {"init", "cleanup"})
    BY <1>2 DEF In
  <2> QED
    BY <1>1, <1>2, <1>3, <2>1, <2>3, <2>4, <2>5, <2>6, DriverStep
<1> QED
  BY <1>5, <1>6 DEF RegisterPre

(* The kernel accepts the driver, or refuses.                              *)
LEMMA KernelRegisterInv ==
  ASSUME IInv, path = "running", NEW t \in Threads, NEW ok \in BOOLEAN, KernelRegister(t, ok)
  PROVE  IInv'
<1> SUFFICES ASSUME NEW b, b = call[t].bus PROVE IInv'
  OBVIOUS
<1>1. call[t] # NONE /\ call[t].fn = "register" /\ call[t].ret = "pending" /\ Doing(t, "register", b)
  BY DEF KernelRegister, Pending, Doing
<1>2. b \in Kinds /\ KindInv(b) /\ (faults = 0 => In(t, {"init", "cleanup"}))
  BY <1>1 DEF IInv, CallInv, CallOK, RegInv
<1>3. /\ call'[t] # NONE /\ call'[t].fn = "register" /\ call'[t].bus = b
      /\ call'[t].ret = IF ok THEN "ok" ELSE "fail"
      /\ \A u \in Threads : u # t => call'[u] = call[u]
      /\ call' \in [Threads -> Call \cup {NONE}]
  BY <1>1, Returns DEF KernelRegister, IInv
<1>4. /\ UNCHANGED <<registered, unregistered, bus, probed, ndo, carrier, entry, module, kdev, knet, kopen,
                     kenabled, path, faults>>
      /\ kreg' = IF ok THEN kreg \cup {b} ELSE kreg
      /\ ok => b \notin kreg
  BY DEF KernelRegister, KernelReturns, checks, state
<1>5. /\ OnDriver(t, b)' /\ Doing(t, "register", b)' /\ ~Doing(t, "unregister", b)'
      /\ \A u \in Threads : Doing(u, "register", b)' <=> Doing(u, "register", b)
      /\ \A u \in Threads : OnDriver(u, b)' <=> OnDriver(u, b)
  BY <1>1, <1>3 DEF OnDriver, Doing
<1>6. ASSUME Serial(b)' PROVE SerialInv(b)'
  <2>1. SerialInv(b)
    BY <1>2, <1>4, <1>6 DEF Serial, KindInv
  <2>2. InRegister(t, b)'
    BY <2>1, <1>1, <1>3, <1>4 DEF SerialInv, InRegister
  <2>3. \A u \in Threads : u # t => ~OnDriver(u, b)'
    BY <2>1, <1>1, <1>5 DEF SerialInv, OnDriver
  <2> QED
    BY <1>5, <2>2, <2>3, SerialOne
<1>7. ASSUME b \notin StrictKinds PROVE LooseInv(b)'
  <2>1. LooseInv(b)
    BY <1>2, <1>7 DEF KindInv
  <2>2. Removed(b)' = Removed(b)
    BY <1>1, <1>3, <1>5 DEF Removed, Doing
  <2>3. t \notin Added(b) /\ Added(b)' = IF ok THEN Added(b) \cup {t} ELSE Added(b)
    BY <1>1, <1>3, <1>5 DEF Added, Doing
  <2>4. /\ IsFiniteSet(Added(b)') /\ Cardinality(Added(b)) \in Nat /\ Cardinality(Removed(b)) \in Nat
        /\ Cardinality(Added(b)') = Cardinality(Added(b)) + IF ok THEN 1 ELSE 0
    BY <2>1, <2>3, FS_AddElement, FS_CardinalityType DEF LooseInv
  <2>5. One(b \in kreg') = One(b \in kreg) + IF ok THEN 1 ELSE 0
    BY <1>4 DEF One
  <2>6. One(b \in kreg) \in Nat /\ One(b \in bus) \in Nat /\ One(b \in bus') = One(b \in bus)
    BY <1>4 DEF One
  <2>7. One(b \in kreg') + Cardinality(Removed(b)') = One(b \in bus') + Cardinality(Added(b)')
    BY <2>1, <2>2, <2>4, <2>5, <2>6 DEF LooseInv
  <2> QED
    BY <2>1, <2>2, <2>4, <2>7, <1>4, <1>5 DEF LooseInv
<1>8. KindInv(b)'
  BY <1>6, <1>7 DEF KindInv
<1>9. /\ kreg' \subseteq Kinds /\ \A c \in Kinds : c # b => (c \in kreg' <=> c \in kreg)
      /\ registered \in [Kinds -> CallState] /\ unregistered \in [Kinds -> CallState] /\ bus \subseteq Kinds
      /\ faults \in 0 .. MaxFaults
  BY <1>2, <1>4 DEF IInv, TypeOK
<1> QED
  BY <1>1, <1>2, <1>3, <1>4, <1>8, <1>9, DriverStep DEF In

(* The check of a registration that has returned.                          *)
LEMMA RegisterPostInv ==
  ASSUME IInv, path = "running", NEW t \in Threads, NEW f \in RegisterFns, RegisterPost(t, f)
  PROVE  IInv'
<1> SUFFICES ASSUME NEW b, b = f.bus PROVE IInv'
  OBVIOUS
<1>1. /\ call[t] # NONE /\ call[t].fn = "register" /\ call[t].ret # "pending" /\ call[t].bus = b
      /\ Doing(t, "register", b)
  BY DEF RegisterPost, Returned, Doing
<1>2. b \in Kinds /\ KindInv(b) /\ (f.strict <=> b \in StrictKinds) /\ faults \in 0 .. MaxFaults
  BY RegisterFnsAre DEF IInv, RegInv, TypeOK
<1>3. call[t].ret \in {"ok", "fail"}
  <2>1. call[t] \in Call
    BY <1>1 DEF IInv, TypeOK
  <2> QED
    BY <1>1, <2>1 DEF Call
<1>4. Serial(b) => SerialInv(b) /\ InRegister(t, b)
  BY <1>1, <1>2 DEF KindInv, SerialInv
<1>5. CASE (~MaySet(registered[b], Outcome(t)) \/ (SetsBus(t, f) /\ b \in bus)) /\ UNCHANGED faults /\ Kill(FALSE)
  <2>1. ASSUME faults = 0 PROVE FALSE
    <3>1. InRegister(t, b)
      BY <2>1, <1>4 DEF Serial
    <3>2. MaySet(registered[b], Outcome(t))
      BY <3>1 DEF InRegister, MaySet, Outcome
    <3>3. ~(SetsBus(t, f) /\ b \in bus)
      BY <1>2, <3>1 DEF InRegister, SetsBus
    <3> QED
      BY <1>5, <3>2, <3>3
  <2>2. faults' \in 0 .. MaxFaults /\ faults' > 0
    BY <1>2, <1>5, <2>1, KindsAssumption
  <2>3. Kill(FALSE)
    BY <1>5
  <2> QED
    BY <2>2, <2>3, Stopped
<1>6. CASE /\ MaySet(registered[b], Outcome(t)) /\ (SetsBus(t, f) => b \notin bus)
           /\ registered' = [registered EXCEPT ![b] = Outcome(t)]
           /\ bus' = IF SetsBus(t, f) THEN bus \cup {b} ELSE bus
           /\ EndCall(t)
           /\ UNCHANGED <<unregistered, probed, ndo, carrier>>
  <2>1. call'[t] = NONE /\ (\A u \in Threads : u # t => call'[u] = call[u]) /\ call' \in [Threads -> Call \cup {NONE}]
    BY <1>6, Ends DEF EndCall, IInv
  <2>2. UNCHANGED <<unregistered, probed, ndo, carrier, entry, module, kreg, kdev, knet, kopen, kenabled, path, faults>>
    BY <1>6 DEF EndCall, kernel
  <2>3. registered'[b] = IF call[t].ret = "ok" THEN "CALLED_OK" ELSE "CALLED_FAILED"
    BY <1>2, <1>6 DEF IInv, TypeOK, Outcome
  <2>4. /\ ~OnDriver(t, b)' /\ ~Doing(t, "register", b)' /\ ~Doing(t, "unregister", b)'
        /\ \A u \in Threads : u # t => (OnDriver(u, b)' <=> OnDriver(u, b))
        /\ \A u \in Threads : u # t => (Doing(u, "register", b)' <=> Doing(u, "register", b))
    BY <2>1 DEF OnDriver, Doing
  <2>5. ASSUME Serial(b)' PROVE SerialInv(b)'
    <3>1. SerialInv(b) /\ InRegister(t, b)
      BY <1>4, <2>2, <2>5 DEF Serial
    <3>2. \A u \in Threads : ~OnDriver(u, b)'
      BY <3>1, <1>1, <2>4 DEF SerialInv, OnDriver
    <3>3. Idle(b)'
      BY <3>1, <1>2, <1>3, <1>6, <2>2, <2>3 DEF InRegister, Idle, SetsBus
    <3> QED
      BY <3>2, <3>3 DEF SerialInv, OnDriver
  <2>6. ASSUME b \notin StrictKinds PROVE LooseInv(b)'
    <3>1. LooseInv(b)
      BY <1>2, <2>6 DEF KindInv
    <3>2. Removed(b)' = Removed(b)
      BY <1>1, <2>1 DEF Removed, Doing
    <3>3. Added(b)' = Added(b) \ {t} /\ (t \in Added(b) <=> call[t].ret = "ok")
      BY <1>1, <2>1 DEF Added, Doing
    <3>4. /\ IsFiniteSet(Added(b)') /\ Cardinality(Added(b)) \in Nat /\ Cardinality(Removed(b)) \in Nat
          /\ Cardinality(Added(b)') = Cardinality(Added(b)) - IF call[t].ret = "ok" THEN 1 ELSE 0
      BY <3>1, <3>3, FS_RemoveElement, FS_CardinalityType DEF LooseInv
    <3>5. One(b \in bus') = One(b \in bus) + IF call[t].ret = "ok" THEN 1 ELSE 0
      BY <1>2, <1>6, <2>6 DEF One, SetsBus
    <3>6. One(b \in kreg) \in Nat /\ One(b \in bus) \in Nat /\ One(b \in kreg') = One(b \in kreg)
      BY <2>2 DEF One
    <3>7. One(b \in kreg') + Cardinality(Removed(b)') = One(b \in bus') + Cardinality(Added(b)')
      BY <3>1, <3>2, <3>4, <3>5, <3>6 DEF LooseInv
    <3>8. \A u \in Threads : ~Doing(u, "register", b)'
      BY <3>1, <1>1, <2>4 DEF LooseInv
    <3> QED
      BY <3>1, <3>2, <3>4, <3>7, <3>8, <2>3 DEF LooseInv
  <2>7. KindInv(b)'
    BY <2>5, <2>6 DEF KindInv
  <2>8. /\ registered' \in [Kinds -> CallState] /\ bus' \subseteq Kinds
        /\ unregistered \in [Kinds -> CallState] /\ kreg \subseteq Kinds
        /\ \A c \in Kinds : c # b => registered'[c] = registered[c] /\ (c \in bus' <=> c \in bus)
    BY <1>2, <1>6 DEF IInv, TypeOK, CallState, Outcome
  <2> QED
    BY <1>1, <1>2, <2>1, <2>2, <2>7, <2>8, DriverStep
<1> QED
  BY <1>5, <1>6 DEF RegisterPost

(* Unregistering it.                                                       *)
LEMMA UnregisterPreInv ==
  ASSUME IInv, path = "running", NEW t \in Threads, NEW f \in UnregisterFns, UnregisterPre(t, f)
  PROVE  IInv'
<1> SUFFICES ASSUME NEW b, b = f.bus PROVE IInv'
  OBVIOUS
<1>1. /\ b \in Kinds /\ KindInv(b)
      /\ f.field = "registered" <=> b \in {"usb", "misc"}
      /\ f.field = "unregistered" <=> b \in {"pci", "proto"}
      /\ f.field = "none" <=> b \notin StrictKinds
  BY UnregisterFnsAre DEF IInv, RegInv
<1>2. /\ faults' \in 0 .. MaxFaults /\ (faults' = 0 => faults = 0)
      /\ faults' = 0 => b \in kreg /\ (\A u \in Threads : ~OnDriver(u, b)) /\ In(t, {"init", "cleanup"})
  <2>1. /\ faults' \in 0 .. MaxFaults /\ (faults' = 0 => faults = 0)
        /\ faults' = 0 => /\ b \in kreg /\ ~Making("register", b) /\ ~Making("unregister", b)
                          /\ In(t, {"init", "cleanup"})
    BY KindsAssumption DEF UnregisterPre, Judge, IInv, TypeOK
  <2> QED
    BY <2>1 DEF Making, OnDriver, Doing
<1>3. call[t] = NONE
  BY DEF UnregisterPre, InSetup, InDriver
<1>4. ASSUME faults' = 0 \/ (b \in StrictKinds /\ MayUnregister(f))
      PROVE  (\A u \in Threads : ~OnDriver(u, b)) /\ Idle(b) /\ b \in kreg
  <2>1. SerialInv(b)
    BY <1>1, <1>2, <1>4 DEF KindInv, Serial
  <2>2. CASE faults' = 0
    BY <2>1, <2>2, <1>2 DEF SerialInv
  <2>3. CASE b \in StrictKinds /\ MayUnregister(f)
    <3>1. registered[b] = "CALLED_OK" /\ (b \in {"pci", "proto"} => unregistered[b] # "IN_PROGRESS")
      BY <1>1, <2>3 DEF MayUnregister, MaySet
    <3>2. \A u \in Threads : ~OnDriver(u, b)
      BY <2>1, <2>3, <3>1, StrictKindsAre DEF SerialInv, OnDriver, InRegister, InUnregister
    <3> QED
      BY <2>1, <2>3, <3>1, <3>2 DEF SerialInv, Idle
  <2> QED
    BY <1>4, <2>2, <2>3
<1>5. CASE ~MayUnregister(f) /\ Kill(FALSE)
  <2>1. ASSUME faults' = 0 PROVE FALSE
    BY <1>1, <1>4, <1>5, <2>1 DEF Idle, MayUnregister, MaySet
  <2>2. faults' > 0
    BY <1>2, <2>1, KindsAssumption
  <2> QED
    BY <1>2, <1>5, <2>2, Stopped
<1>6. CASE /\ MayUnregister(f)
           /\ registered' = IF f.field = "registered" THEN [registered EXCEPT ![b] = "IN_PROGRESS"]
                                                      ELSE registered
           /\ unregistered' = IF f.field = "unregistered" THEN [unregistered EXCEPT ![b] = "IN_PROGRESS"]
                                                          ELSE unregistered
           /\ BeginCall(t, "unregister", b)
           /\ UNCHANGED <<bus, probed, ndo, carrier>>
  <2>1. /\ call'[t] # NONE /\ call'[t].fn = "unregister" /\ call'[t].bus = b /\ call'[t].ret = "pending"
        /\ \A u \in Threads : u # t => call'[u] = call[u]
        /\ call' \in [Threads -> Call \cup {NONE}]
    BY <1>1, <1>6, Begins DEF Calls, IInv
  <2>2. UNCHANGED <<bus, probed, ndo, carrier, entry, module, kreg, kdev, knet, kopen, kenabled, path>>
    BY <1>6 DEF BeginCall, kernel
  <2>3. /\ registered'[b] = IF b \in {"usb", "misc"} THEN "IN_PROGRESS" ELSE registered[b]
        /\ unregistered'[b] = IF b \in {"pci", "proto"} THEN "IN_PROGRESS" ELSE unregistered[b]
    BY <1>1, <1>6 DEF IInv, TypeOK
  <2>4. /\ ~OnDriver(t, b) /\ OnDriver(t, b)' /\ ~Doing(t, "register", b)' /\ Doing(t, "unregister", b)'
        /\ \A u \in Threads : u # t => (OnDriver(u, b)' <=> OnDriver(u, b))
        /\ \A u \in Threads : Doing(u, "register", b)' <=> Doing(u, "register", b)
    BY <1>3, <2>1 DEF OnDriver, Doing
  <2>5. ASSUME Serial(b)' PROVE SerialInv(b)'
    <3>1. (\A u \in Threads : ~OnDriver(u, b)) /\ Idle(b) /\ b \in kreg
      BY <1>4, <1>6, <2>5 DEF Serial
    <3>2. InUnregister(t, b)'
      BY <1>1, <2>1, <2>2, <2>3, <3>1 DEF InUnregister, Idle
    <3> QED
      BY <2>4, <3>1, <3>2, SerialOne
  <2>6. ASSUME b \notin StrictKinds PROVE LooseInv(b)'
    <3>1. LooseInv(b) /\ registered'[b] = registered[b]
      BY <1>1, <2>3, <2>6, StrictKindsAre DEF KindInv
    <3>2. Added(b)' = Added(b)
      BY <1>3, <2>1, <2>4 DEF Added, Doing
    <3>3. Removed(b)' = Removed(b)
      BY <1>3, <2>1 DEF Removed, Doing
    <3> QED
      BY <2>2, <2>4, <3>1, <3>2, <3>3 DEF LooseInv, One
  <2>7. KindInv(b)'
    BY <2>5, <2>6 DEF KindInv
  <2>8. /\ registered' \in [Kinds -> CallState] /\ unregistered' \in [Kinds -> CallState]
        /\ bus \subseteq Kinds /\ kreg \subseteq Kinds
        /\ \A c \in Kinds : c # b => registered'[c] = registered[c] /\ unregistered'[c] = unregistered[c]
    BY <1>1, <1>6 DEF IInv, TypeOK, CallState
  <2> QED
    BY <1>1, <1>2, <1>3, <2>1, <2>2, <2>7, <2>8, DriverStep
<1> QED
  BY <1>5, <1>6 DEF UnregisterPre

(* The kernel unregisters the driver.                                      *)
LEMMA KernelUnregisterInv ==
  ASSUME IInv, path = "running", NEW t \in Threads, KernelUnregister(t)
  PROVE  IInv'
<1> SUFFICES ASSUME NEW b, b = call[t].bus PROVE IInv'
  OBVIOUS
<1>1. call[t] # NONE /\ call[t].fn = "unregister" /\ call[t].ret = "pending" /\ Doing(t, "unregister", b)
  BY DEF KernelUnregister, Pending, Doing
<1>2. /\ b \in Kinds /\ KindInv(b) /\ (faults = 0 => In(t, {"init", "cleanup"}))
      /\ faults \in 0 .. MaxFaults
  BY <1>1 DEF IInv, CallInv, CallOK, RegInv, TypeOK
<1>3. CASE KernelBug
  BY <1>2, <1>3, Still DEF KernelBug
<1>4. CASE /\ b \in kreg /\ kreg' = kreg \ {b} /\ KernelReturns(t, TRUE)
           /\ UNCHANGED <<kdev, knet, kopen, kenabled>>
  <2>1. /\ call'[t] # NONE /\ call'[t].fn = "unregister" /\ call'[t].bus = b /\ call'[t].ret = "ok"
        /\ \A u \in Threads : u # t => call'[u] = call[u]
        /\ call' \in [Threads -> Call \cup {NONE}]
    BY <1>1, <1>4, Returns DEF IInv
  <2>2. UNCHANGED <<registered, unregistered, bus, probed, ndo, carrier, entry, module, kdev, knet, kopen,
                    kenabled, path, faults>>
    BY <1>4 DEF KernelReturns, checks, state
  <2>3. /\ OnDriver(t, b)' /\ ~Doing(t, "register", b)'
        /\ \A u \in Threads : Doing(u, "register", b)' <=> Doing(u, "register", b)
        /\ \A u \in Threads : OnDriver(u, b)' <=> OnDriver(u, b)
    BY <1>1, <2>1 DEF OnDriver, Doing
  <2>4. ASSUME Serial(b)' PROVE SerialInv(b)'
    <3>1. SerialInv(b)
      BY <1>2, <2>2, <2>4 DEF Serial, KindInv
    <3>2. InUnregister(t, b)'
      BY <3>1, <1>1, <1>4, <2>1, <2>2 DEF SerialInv, InUnregister
    <3>3. \A u \in Threads : u # t => ~OnDriver(u, b)'
      BY <3>1, <1>1, <2>3 DEF SerialInv, OnDriver
    <3> QED
      BY <2>3, <3>2, <3>3, SerialOne
  <2>5. ASSUME b \notin StrictKinds PROVE LooseInv(b)'
    <3>1. LooseInv(b)
      BY <1>2, <2>5 DEF KindInv
    <3>2. Added(b)' = Added(b)
      BY <1>1, <2>1, <2>3 DEF Added, Doing
    <3>3. t \notin Removed(b) /\ Removed(b)' = Removed(b) \cup {t}
      BY <1>1, <2>1 DEF Removed, Doing
    <3>4. /\ IsFiniteSet(Removed(b)') /\ Cardinality(Added(b)) \in Nat /\ Cardinality(Removed(b)) \in Nat
          /\ Cardinality(Removed(b)') = Cardinality(Removed(b)) + 1
      BY <3>1, <3>3, FS_AddElement, FS_CardinalityType DEF LooseInv
    <3>5. One(b \in kreg) = 1 /\ One(b \in kreg') = 0 /\ One(b \in bus') = One(b \in bus) /\ One(b \in bus) \in Nat
      BY <1>4, <2>2 DEF One
    <3>6. One(b \in kreg') + Cardinality(Removed(b)') = One(b \in bus') + Cardinality(Added(b)')
      BY <3>1, <3>2, <3>4, <3>5 DEF LooseInv
    <3> QED
      BY <3>1, <3>2, <3>4, <3>6, <2>2, <2>3 DEF LooseInv
  <2>6. KindInv(b)'
    BY <2>4, <2>5 DEF KindInv
  <2>7. /\ kreg' \subseteq Kinds /\ \A c \in Kinds : c # b => (c \in kreg' <=> c \in kreg)
        /\ registered \in [Kinds -> CallState] /\ unregistered \in [Kinds -> CallState] /\ bus \subseteq Kinds
    BY <1>4 DEF IInv, TypeOK
  <2> QED
    BY <1>1, <1>2, <2>1, <2>2, <2>6, <2>7, DriverStep DEF In
<1> QED
  BY <1>3, <1>4 DEF KernelUnregister

(* The check of an unregistration that has returned.                       *)
LEMMA UnregisterPostInv ==
  ASSUME IInv, path = "running", NEW t \in Threads, NEW f \in UnregisterFns, UnregisterPost(t, f)
  PROVE  IInv'
<1> SUFFICES ASSUME NEW b, b = f.bus PROVE IInv'
  OBVIOUS
<1>1. /\ call[t] # NONE /\ call[t].fn = "unregister" /\ call[t].ret # "pending" /\ call[t].bus = b
      /\ Doing(t, "unregister", b)
  BY DEF UnregisterPost, Returned, Doing
<1>2. /\ b \in Kinds /\ KindInv(b) /\ faults \in 0 .. MaxFaults
      /\ f.field = "registered" <=> b \in {"usb", "misc"}
      /\ f.field = "unregistered" <=> b \in {"pci", "proto"}
      /\ f.field = "none" <=> b \notin StrictKinds
  BY UnregisterFnsAre DEF IInv, RegInv, TypeOK
<1>3. Serial(b) => SerialInv(b) /\ InUnregister(t, b)
  BY <1>1, <1>2 DEF KindInv, SerialInv
<1>4. CASE b \notin bus /\ UNCHANGED faults /\ Kill(FALSE)
  <2>1. faults # 0
    BY <1>3, <1>4 DEF Serial, InUnregister
  <2>2. faults' \in 0 .. MaxFaults /\ faults' > 0
    BY <1>2, <1>4, <2>1, KindsAssumption
  <2> QED
    BY <1>4, <2>2, Stopped
<1>5. CASE /\ b \in bus
           /\ registered' = IF f.field = "none" THEN registered ELSE [registered EXCEPT ![b] = "NOT_CALLED"]
           /\ unregistered' = IF f.field = "unregistered" THEN [unregistered EXCEPT ![b] = "NOT_CALLED"]
                                                          ELSE unregistered
           /\ bus' = bus \ {b}
           /\ EndCall(t)
           /\ UNCHANGED <<probed, ndo, carrier>>
  <2>1. call'[t] = NONE /\ (\A u \in Threads : u # t => call'[u] = call[u]) /\ call' \in [Threads -> Call \cup {NONE}]
    BY <1>5, Ends DEF EndCall, IInv
  <2>2. UNCHANGED <<probed, ndo, carrier, entry, module, kreg, kdev, knet, kopen, kenabled, path, faults>>
    BY <1>5 DEF EndCall, kernel
  <2>3. /\ registered'[b] = IF b \in StrictKinds THEN "NOT_CALLED" ELSE registered[b]
        /\ unregistered'[b] = IF b \in {"pci", "proto"} THEN "NOT_CALLED" ELSE unregistered[b]
    BY <1>2, <1>5 DEF IInv, TypeOK
  <2>4. /\ ~OnDriver(t, b)' /\ ~Doing(t, "register", b)' /\ ~Doing(t, "unregister", b)'
        /\ \A u \in Threads : u # t => (OnDriver(u, b)' <=> OnDriver(u, b))
        /\ \A u \in Threads : Doing(u, "register", b)' <=> Doing(u, "register", b)
    BY <1>1, <2>1 DEF OnDriver, Doing
  <2>5. ASSUME Serial(b)' PROVE SerialInv(b)'
    <3>1. SerialInv(b) /\ InUnregister(t, b)
      BY <1>3, <2>2, <2>5 DEF Serial
    <3>2. \A u \in Threads : ~OnDriver(u, b)'
      BY <3>1, <1>1, <2>4 DEF SerialInv, OnDriver
    <3>3. Idle(b)'
      BY <3>1, <1>1, <1>2, <1>5, <2>2, <2>3, StrictKindsAre DEF InUnregister, Idle
    <3> QED
      BY <3>2, <3>3 DEF SerialInv, OnDriver
  <2>6. ASSUME b \notin StrictKinds PROVE LooseInv(b)'
    <3>1. LooseInv(b) /\ registered'[b] = registered[b]
      BY <1>2, <2>3, <2>6 DEF KindInv
    <3>2. Added(b)' = Added(b)
      BY <1>1, <2>1, <2>4 DEF Added, Doing
    <3>3. Removed(b)' = Removed(b) \ {t} /\ t \in Removed(b)
      BY <1>1, <2>1 DEF Removed, Doing
    <3>4. /\ IsFiniteSet(Removed(b)') /\ Cardinality(Added(b)) \in Nat /\ Cardinality(Removed(b)) \in Nat
          /\ Cardinality(Removed(b)') = Cardinality(Removed(b)) - 1
      BY <3>1, <3>3, FS_RemoveElement, FS_CardinalityType DEF LooseInv
    <3>5. One(b \in bus) = 1 /\ One(b \in bus') = 0 /\ One(b \in kreg') = One(b \in kreg) /\ One(b \in kreg) \in Nat
      BY <1>5, <2>2 DEF One
    <3>6. One(b \in kreg') + Cardinality(Removed(b)') = One(b \in bus') + Cardinality(Added(b)')
      BY <3>1, <3>2, <3>4, <3>5 DEF LooseInv
    <3> QED
      BY <3>1, <3>2, <3>4, <3>6, <2>4 DEF LooseInv
  <2>7. KindInv(b)'
    BY <2>5, <2>6 DEF KindInv
  <2>8. /\ registered' \in [Kinds -> CallState] /\ unregistered' \in [Kinds -> CallState]
        /\ bus' \subseteq Kinds /\ kreg \subseteq Kinds
        /\ \A c \in Kinds : c # b => /\ registered'[c] = registered[c] /\ unregistered'[c] = unregistered[c]
                                     /\ (c \in bus' <=> c \in bus)
    BY <1>2, <1>5 DEF IInv, TypeOK, CallState
  <2> QED
    BY <1>1, <1>2, <2>1, <2>2, <2>7, <2>8, DriverStep
<1> QED
  BY <1>4, <1>5 DEF UnregisterPost

-----------------------------------------------------------------------------
(* The PCI device: only the thread that has it makes calls on it.          *)
LEMMA DeviceOne ==
  ASSUME IInv, NEW t \in Threads, entry[t].bus = "pci", "pci" \in Kinds
  PROVE  \A u \in Threads : OnDevice(u) => u = t
<1>1. "pci" # NONE
  BY KindsAssumption
<1>2. \A u \in Threads : OnDevice(u) => entry[u].bus = "pci"
  BY DEF IInv, CallInv, CallOK, OnDevice
<1> QED
  BY <1>1, <1>2 DEF IInv, EntryInv, Alone

(* A step of such a call leaves all but the device.                        *)
LEMMA DeviceStep ==
  ASSUME IInv, path = "running", NEW t \in Threads, "pci" \in Kinds, entry[t].bus = "pci",
         UNCHANGED <<state, register_netdev, unregister_netdev, opened, rx, net, carrier, entry, module, kreg,
                     kdev, knet, kopen, path>>,
         faults' \in 0 .. MaxFaults, faults' = 0 => faults = 0,
         enabled' \in DeviceState, kenabled' \in BOOLEAN,
         call' \in [Threads -> Call \cup {NONE}], \A u \in Threads : u # t => call'[u] = call[u],
         call[t] # NONE => OnDevice(t), call'[t] # NONE => OnDevice(t)' /\ call'[t].bus = "pci",
         OnDevice(t)' => IF call'[t].fn = "enable" THEN InEnable(t)' ELSE InDisable(t)',
         ~OnDevice(t)' => (enabled' = "ENABLED" <=> kenabled')
  PROVE  IInv'
<1> USE DEF state
<1>1. TypeOK'
  BY DEF IInv, TypeOK
<1>2. RegInv' /\ NetInv' /\ RxInv'
  <2> DEFINE F == {"enable", "disable"}
  <2>1. Only(t, F) /\ Only(t, F)'
    BY DEF Only, OnDevice
  <2> QED
    BY <2>1, CallFrame DEF IInv, __napi_schedule, netif_rx
<1>3. EntryInv' /\ ProbeInv' /\ OpenInv'
  BY EntryFrame, ProbeFrame, OpenFrame DEF IInv
<1>4. CallInv'
  <2>1. CallOK(t)'
    BY DEF CallOK, In, OnDevice, __napi_schedule, netif_rx
  <2> QED
    BY <2>1, CallInvFrame DEF IInv
<1>5. \A u \in Threads : OnDevice(u)' => u = t
  BY DeviceOne DEF OnDevice
<1>6. DevInv'
  BY <1>5 DEF DevInv
<1> QED
  BY <1>1, <1>2, <1>3, <1>4, <1>6 DEF IInv, NoFalseAlarm

(* Enabling the device.                                                    *)
LEMMA EnablePreInv ==
  ASSUME IInv, path = "running", NEW t \in Threads, "pci" \in Kinds, EnablePre(t)
  PROVE  IInv'
<1>1. call[t] = NONE /\ entry[t].bus = "pci" /\ ~OnDevice(t)
  BY DEF EnablePre, OnPCI, InDriver, OnDevice
<1>2. faults' = faults /\ faults' \in 0 .. MaxFaults
  BY DEF EnablePre, IInv, TypeOK
<1>3. enabled = "ENABLED" <=> kenabled
  BY <1>1, DeviceOne DEF IInv, DevInv
<1>4. CASE enabled = "ENABLED" /\ Kill(TRUE)
  <2>1. UNCHANGED <<checks, thread, kernel>> /\ path' = "known"
    BY <1>4 DEF Kill
  <2> QED
    BY <1>2, <2>1, Still
<1>5. CASE enabled # "ENABLED" /\ BeginCall(t, "enable", "pci") /\ UNCHANGED checks
  <2>1. /\ call'[t] # NONE /\ call'[t].fn = "enable" /\ call'[t].bus = "pci" /\ call'[t].ret = "pending"
        /\ \A u \in Threads : u # t => call'[u] = call[u]
        /\ call' \in [Threads -> Call \cup {NONE}]
    BY <1>5, Begins DEF Calls, IInv
  <2>2. OnDevice(t)' /\ InEnable(t)'
    BY <1>3, <1>5, <2>1 DEF OnDevice, InEnable, BeginCall, checks, ndo, kernel
  <2>3. UNCHANGED <<state, register_netdev, unregister_netdev, opened, rx, net, enabled, carrier, entry, kernel, path>>
    BY <1>5 DEF BeginCall, checks, ndo
  <2>4. enabled' \in DeviceState /\ kenabled' \in BOOLEAN
    BY <2>3 DEF IInv, TypeOK, kernel
  <2> QED
    BY <1>1, <1>2, <2>1, <2>2, <2>3, <2>4, DeviceStep DEF kernel
<1> QED
  BY <1>4, <1>5 DEF EnablePre

(* What a call on the device has to be.                                    *)
LEMMA DeviceCall ==
  ASSUME IInv, NEW t \in Threads, OnDevice(t)
  PROVE  /\ "pci" \in Kinds /\ entry[t].bus = "pci" /\ call[t].bus = "pci"
         /\ call[t] # NONE /\ call[t].fn \in {"enable", "disable"} /\ call[t].ret \in {"pending", "ok", "fail"}
         /\ IF call[t].fn = "enable" THEN InEnable(t) ELSE InDisable(t)
<1>1. call[t] \in Call
  BY DEF IInv, TypeOK, OnDevice
<1> QED
  BY <1>1 DEF IInv, CallInv, CallOK, OnDevice, Call, DevInv

LEMMA KernelEnableInv ==
  ASSUME IInv, path = "running", NEW t \in Threads, NEW ok \in BOOLEAN, KernelEnable(t, ok)
  PROVE  IInv'
<1>1. OnDevice(t) /\ call[t].fn = "enable" /\ call[t].ret = "pending" /\ call[t] # NONE
  BY DEF KernelEnable, Pending, OnDevice
<1>2. "pci" \in Kinds /\ entry[t].bus = "pci" /\ call[t].bus = "pci" /\ InEnable(t)
  BY <1>1, DeviceCall
<1>3. /\ call'[t] # NONE /\ call'[t].fn = "enable" /\ call'[t].bus = "pci"
      /\ call'[t].ret = IF ok THEN "ok" ELSE "fail"
      /\ \A u \in Threads : u # t => call'[u] = call[u]
      /\ call' \in [Threads -> Call \cup {NONE}]
  BY <1>1, <1>2, Returns DEF KernelEnable, IInv
<1>4. /\ UNCHANGED <<state, register_netdev, unregister_netdev, opened, rx, net, enabled, carrier, entry, module,
                     kreg, kdev, knet, kopen, path, faults>>
      /\ kenabled' = (kenabled \/ ok)
  BY DEF KernelEnable, KernelReturns, checks, ndo
<1>5. OnDevice(t)' /\ InEnable(t)'
  BY <1>1, <1>2, <1>3, <1>4 DEF OnDevice, InEnable
<1>6. enabled' \in DeviceState /\ kenabled' \in BOOLEAN /\ faults' \in 0 .. MaxFaults
  BY <1>4 DEF IInv, TypeOK
<1> QED
  BY <1>1, <1>2, <1>3, <1>4, <1>5, <1>6, DeviceStep

LEMMA EnablePostInv ==
  ASSUME IInv, path = "running", NEW t \in Threads, EnablePost(t)
  PROVE  IInv'
<1>1. OnDevice(t) /\ call[t].fn = "enable" /\ call[t].ret # "pending" /\ call[t] # NONE
  BY DEF EnablePost, Returned, OnDevice
<1>2. /\ "pci" \in Kinds /\ entry[t].bus = "pci" /\ InEnable(t) /\ call[t].ret \in {"ok", "fail"}
      /\ enabled \in DeviceState /\ faults \in 0 .. MaxFaults
  BY <1>1, DeviceCall DEF IInv, TypeOK
<1> DEFINE new == IF call[t].ret = "ok" THEN "ENABLED" ELSE "DISABLED"
<1>3. CASE ~MaySetDevice(new) /\ UNCHANGED faults /\ Kill(new = "DISABLED")
  <2>1. new = "DISABLED"
    BY <1>2, <1>3 DEF MaySetDevice, InEnable
  <2>2. UNCHANGED <<checks, thread, kernel>> /\ path' = "known"
    BY <1>3, <2>1 DEF Kill
  <2> QED
    BY <1>2, <1>3, <2>2, Still
<1>4. CASE /\ MaySetDevice(new) /\ enabled' = new /\ EndCall(t)
           /\ UNCHANGED <<state, register_netdev, unregister_netdev, opened, rx, net, carrier>>
  <2>1. call'[t] = NONE /\ (\A u \in Threads : u # t => call'[u] = call[u]) /\ call' \in [Threads -> Call \cup {NONE}]
    BY <1>4, Ends DEF EndCall, IInv
  <2>2. UNCHANGED <<entry, kernel, path, faults>>
    BY <1>4 DEF EndCall
  <2>3. ~OnDevice(t)' /\ (enabled' = "ENABLED" <=> kenabled') /\ enabled' \in DeviceState
    BY <1>2, <1>4, <2>1, <2>2 DEF OnDevice, InEnable, kernel, DeviceState
  <2>4. kenabled' \in BOOLEAN
    BY <2>2 DEF IInv, TypeOK, kernel
  <2> QED
    BY <1>1, <1>2, <1>4, <2>1, <2>2, <2>3, <2>4, DeviceStep DEF kernel
<1> QED
  BY <1>3, <1>4 DEF EnablePost

(* The net device is registered, and being unregistered, by the thread     *)
(* that has its device, as long as the driver is correct.                  *)
LEMMA NetElsewhere ==
  ASSUME IInv, NEW t \in Threads, entry[t].bus # NONE, call[t] = NONE
  PROVE  /\ \A u \in Threads : OnNet(u) /\ call[u].fn = "register_netdev" => net # entry[t].bus
         /\ \A u \in Threads : OnNet(u) /\ faults = 0 => net # entry[t].bus
<1>1. \A u \in Threads : OnNet(u) => u # t
  BY DEF OnNet
<1>2. \A u \in Threads : u # t => entry[u].bus # entry[t].bus
  BY DEF IInv, EntryInv, Alone
<1>3. \A u \in Threads : OnNet(u) /\ call[u].fn = "register_netdev" => net = entry[u].bus
  BY DEF IInv, CallInv, CallOK, OnNet, NetInv, InRegisterNetdev
<1>4. \A u \in Threads : OnNet(u) /\ faults = 0 => net = entry[u].bus
  BY <1>3 DEF IInv, CallInv, CallOK, OnNet
<1> QED
  BY <1>1, <1>2, <1>3, <1>4

(* Disabling the device.                                                   *)
LEMMA DisablePreInv ==
  ASSUME IInv, path = "running", NEW t \in Threads, "pci" \in Kinds, DisablePre(t)
  PROVE  IInv'
<1>1. call[t] = NONE /\ entry[t].bus = "pci" /\ ~OnDevice(t) /\ "pci" # NONE
  BY KindsAssumption DEF DisablePre, OnPCI, InDriver, OnDevice
<1>2. /\ faults' \in 0 .. MaxFaults /\ (faults' = 0 => faults = 0)
      /\ faults' = 0 => kenabled /\ (knet = "pci" => Sleeping(t))
  BY KindsAssumption DEF DisablePre, Judge, IInv, TypeOK
<1>3. enabled = "ENABLED" <=> kenabled
  BY <1>1, DeviceOne DEF IInv, DevInv
<1>4. CASE ~MayDisable /\ Kill(Sleeping(t) \/ net \notin {NONE, "pci"})
  <2>1. ASSUME faults' = 0, ~Sleeping(t) PROVE net \notin {NONE, "pci"}
    <3>1. CASE net = NONE
      <4>1. register_netdev = "NOT_CALLED" /\ \A u \in Threads : ~OnNet(u)
        BY <3>1, <1>1, KindsAssumption DEF IInv, NetInv, InRegisterNetdev, InUnregisterNetdev, CallInv, CallOK, OnNet
      <4> QED
        BY <4>1, <1>2, <1>3, <1>4, <2>1 DEF MayDisable, IInv, NetInv
    <3>2. CASE net = "pci"
      <4>1. \A u \in Threads : ~OnNet(u)
        BY <1>1, <1>2, <2>1, <3>2, NetElsewhere
      <4>2. knet = NONE /\ register_netdev \in CallState
        BY <1>2, <2>1, <3>2 DEF IInv, NetInv, TypeOK
      <4> QED
        BY <4>1, <4>2, <1>2, <1>3, <1>4, <2>1 DEF MayDisable, IInv, NetInv, CallState
    <3> QED
      BY <3>1, <3>2
  <2>2. faults' = 0 \/ faults' > 0
    BY <1>2, KindsAssumption
  <2>3. UNCHANGED <<checks, thread, kernel>> /\ path' \in {"known", "assert"}
    BY <1>4 DEF Kill
  <2>4. faults' = 0 => path' = "known"
    BY <1>4, <2>1 DEF Kill
  <2> QED
    BY <1>2, <2>2, <2>3, <2>4, Still
<1>5. CASE MayDisable /\ BeginCall(t, "disable", "pci") /\ UNCHANGED checks
  <2>1. /\ call'[t] # NONE /\ call'[t].fn = "disable" /\ call'[t].bus = "pci" /\ call'[t].ret = "pending"
        /\ \A u \in Threads : u # t => call'[u] = call[u]
        /\ call' \in [Threads -> Call \cup {NONE}]
    BY <1>5, Begins DEF Calls, IInv
  <2>2. OnDevice(t)' /\ InDisable(t)'
    BY <1>3, <1>5, <2>1 DEF OnDevice, InDisable, BeginCall, checks, ndo, kernel, MayDisable
  <2>3. UNCHANGED <<state, register_netdev, unregister_netdev, opened, rx, net, enabled, carrier, entry, kernel, path>>
    BY <1>5 DEF BeginCall, checks, ndo
  <2>4. enabled' \in DeviceState /\ kenabled' \in BOOLEAN
    BY <2>3 DEF IInv, TypeOK, kernel
  <2> QED
    BY <1>1, <1>2, <2>1, <2>2, <2>3, <2>4, DeviceStep DEF kernel
<1> QED
  BY <1>4, <1>5 DEF DisablePre

LEMMA KernelDisableInv ==
  ASSUME IInv, path = "running", NEW t \in Threads, KernelDisable(t)
  PROVE  IInv'
<1>1. OnDevice(t) /\ call[t].fn = "disable" /\ call[t].ret = "pending" /\ call[t] # NONE
  BY DEF KernelDisable, Pending, OnDevice
<1>2. "pci" \in Kinds /\ entry[t].bus = "pci" /\ call[t].bus = "pci" /\ InDisable(t)
  BY <1>1, DeviceCall
<1>3. /\ call'[t] # NONE /\ call'[t].fn = "disable" /\ call'[t].bus = "pci" /\ call'[t].ret = "ok"
      /\ \A u \in Threads : u # t => call'[u] = call[u]
      /\ call' \in [Threads -> Call \cup {NONE}]
  BY <1>1, <1>2, Returns DEF KernelDisable, IInv
<1>4. /\ UNCHANGED <<state, register_netdev, unregister_netdev, opened, rx, net, enabled, carrier, entry, module,
                     kreg, kdev, knet, kopen, path, faults>>
      /\ kenabled' = FALSE
  BY DEF KernelDisable, KernelReturns, checks, ndo
<1>5. OnDevice(t)' /\ InDisable(t)'
  BY <1>1, <1>2, <1>3, <1>4 DEF OnDevice, InDisable
<1>6. enabled' \in DeviceState /\ faults' \in 0 .. MaxFaults
  BY <1>4 DEF IInv, TypeOK
<1> QED
  BY <1>1, <1>2, <1>3, <1>4, <1>5, <1>6, DeviceStep

LEMMA DisablePostInv ==
  ASSUME IInv, path = "running", NEW t \in Threads, DisablePost(t)
  PROVE  IInv'
<1>1. OnDevice(t) /\ call[t].fn = "disable" /\ call[t].ret # "pending" /\ call[t] # NONE
  BY DEF DisablePost, Returned, OnDevice
<1>2. "pci" \in Kinds /\ entry[t].bus = "pci" /\ InDisable(t) /\ faults \in 0 .. MaxFaults
  BY <1>1, DeviceCall DEF IInv, TypeOK
<1>3. MaySetDevice("DISABLED")
  BY <1>2 DEF MaySetDevice, InDisable
<1>4. /\ enabled' = "DISABLED" /\ EndCall(t)
      /\ UNCHANGED <<state, register_netdev, unregister_netdev, opened, rx, net, carrier>>
  BY <1>3 DEF DisablePost
<1>5. call'[t] = NONE /\ (\A u \in Threads : u # t => call'[u] = call[u]) /\ call' \in [Threads -> Call \cup {NONE}]
  BY <1>4, Ends DEF EndCall, IInv
<1>6. UNCHANGED <<entry, kernel, path, faults>>
  BY <1>4 DEF EndCall
<1>7. ~OnDevice(t)' /\ (enabled' = "ENABLED" <=> kenabled') /\ enabled' \in DeviceState
  BY <1>1, <1>2, <1>4, <1>5, <1>6 DEF OnDevice, InDisable, kernel, DeviceState
<1>8. kenabled' \in BOOLEAN
  BY <1>6 DEF IInv, TypeOK, kernel
<1> QED
  BY <1>1, <1>2, <1>4, <1>5, <1>6, <1>7, <1>8, DeviceStep DEF kernel

-----------------------------------------------------------------------------
(* A step of a call on the net device.                                     *)
LEMMA NetStep ==
  ASSUME IInv, path = "running", NEW t \in Threads,
         UNCHANGED <<state, opened, rx, enabled, carrier, entry, module, kreg, kdev, kenabled, path>>,
         faults' \in 0 .. MaxFaults, faults' = 0 => faults = 0,
         {register_netdev', unregister_netdev'} \subseteq CallState,
         {net', knet'} \subseteq Kinds \cup {NONE}, kopen' \in BOOLEAN, net' = net \/ net = NONE,
         call' \in [Threads -> Call \cup {NONE}], \A u \in Threads : u # t => call'[u] = call[u],
         call[t] # NONE => OnNet(t), call'[t] # NONE => OnNet(t)',
         CallOK(t)', NetInv', OpenInv', ProbeInv'
  PROVE  IInv'
<1> USE DEF state
<1>1. TypeOK'
  BY DEF IInv, TypeOK
<1>2. RegInv' /\ DevInv' /\ RxInv'
  <2> DEFINE F == {"register_netdev", "unregister_netdev"}
  <2>1. Only(t, F) /\ Only(t, F)'
    BY DEF Only, OnNet
  <2> QED
    BY <2>1, CallFrame DEF IInv, __napi_schedule, netif_rx
<1>3. EntryInv'
  BY EntryFrame DEF IInv
<1>4. CallInv'
  <2>1. \A u \in Threads : call[u] # NONE /\ call[u].fn = "unregister_netdev" => net # NONE
    BY DEF IInv, NetInv, OnNet, InUnregisterNetdev
  <2>2. \A u \in Threads : u # t => CallOK(u)'
    BY <2>1 DEF CallOK, In, IInv, CallInv
  <2> QED
    BY <2>2 DEF CallInv
<1> QED
  BY <1>1, <1>2, <1>3, <1>4 DEF IInv, NoFalseAlarm

(* The only call on the net device.                                        *)
LEMMA NetOne ==
  ASSUME IInv, NEW t \in Threads, OnNet(t)
  PROVE  /\ \A u \in Threads : u # t => ~OnNet(u)
         /\ call[t] # NONE /\ call[t].ret \in {"pending", "ok", "fail"}
         /\ call[t].fn = "register_netdev" => /\ InRegisterNetdev(t) /\ call[t].bus = entry[t].bus
                                              /\ entry[t].bus # NONE /\ call[t].bus \in Kinds
         /\ call[t].fn = "unregister_netdev" => InUnregisterNetdev(t) /\ call[t].bus = NONE
         /\ knet \in {NONE, net} /\ net \in Kinds
<1>1. call[t] \in Call /\ call[t] # NONE /\ entry[t].bus \in Kinds \cup {NONE} /\ net \in Kinds \cup {NONE}
  BY DEF IInv, TypeOK, OnNet
<1>2. call[t].ret \in {"pending", "ok", "fail"}
  BY <1>1 DEF Call
<1> QED
  BY <1>1, <1>2 DEF IInv, CallInv, CallOK, OnNet, NetInv, InRegisterNetdev, InUnregisterNetdev

(* Registering the net device.                                             *)
LEMMA RegisterNetdevPreInv ==
  ASSUME IInv, path = "running", NEW t \in Threads, NEW b \in Kinds, RegisterNetdevPre(t, b)
  PROVE  IInv'
<1>1. call[t] = NONE /\ entry[t].bus = b /\ ~OnNet(t) /\ b # NONE
  BY KindsAssumption DEF RegisterNetdevPre, InSetup, InDriver, OnNet
<1>2. faults' \in 0 .. MaxFaults /\ (faults' = 0 => faults = 0)
  BY KindsAssumption DEF RegisterNetdevPre, Judge, IInv, TypeOK
<1>3. ASSUME net = NONE
      PROVE  /\ \A u \in Threads : ~OnNet(u)
             /\ register_netdev = "NOT_CALLED" /\ unregister_netdev = "NOT_CALLED" /\ knet = NONE
  <2>1. register_netdev = "NOT_CALLED" /\ knet = NONE
    BY <1>3 DEF IInv, NetInv
  <2>2. \A u \in Threads : ~OnNet(u)
    BY <2>1 DEF IInv, NetInv, InRegisterNetdev, InUnregisterNetdev, OnNet
  <2> QED
    BY <2>1, <2>2 DEF IInv, NetInv
<1>4. CASE net # NONE /\ Kill(TRUE)
  BY <1>2, <1>4, Still DEF Kill
<1>5. CASE net = NONE /\ ~MaySet(register_netdev, "IN_PROGRESS") /\ Kill(FALSE)
  BY <1>3, <1>5 DEF MaySet
<1>6. CASE /\ net = NONE /\ register_netdev' = "IN_PROGRESS" /\ net' = b
           /\ BeginCall(t, "register_netdev", b)
           /\ UNCHANGED <<state, unregister_netdev, opened, rx, enabled, carrier>>
  <2>1. /\ call'[t] # NONE /\ call'[t].fn = "register_netdev" /\ call'[t].bus = b /\ call'[t].ret = "pending"
        /\ \A u \in Threads : u # t => call'[u] = call[u]
        /\ call' \in [Threads -> Call \cup {NONE}]
    BY <1>6, Begins DEF Calls, IInv
  <2>2. UNCHANGED <<entry, module, kreg, kdev, knet, kopen, kenabled, path>>
    BY <1>6 DEF BeginCall, kernel
  <2>3. OnNet(t)' /\ CallOK(t)' /\ (\A u \in Threads : u # t => ~OnNet(u)')
    BY <1>1, <1>3, <1>6, <2>1, <2>2 DEF OnNet, CallOK, __napi_schedule, netif_rx
  <2>4. NetInv'
    BY <1>1, <1>3, <1>6, <2>1, <2>2, <2>3 DEF NetInv, InRegisterNetdev
  <2>5. OpenInv' /\ ProbeInv'
    BY <1>2, <1>6, <2>2, OpenFrame, ProbeFrame DEF IInv, state
  <2>6. /\ {register_netdev', unregister_netdev'} \subseteq CallState
        /\ {net', knet'} \subseteq Kinds \cup {NONE} /\ kopen' \in BOOLEAN
    BY <1>6, <2>2 DEF IInv, TypeOK, CallState
  <2> QED
    BY <1>1, <1>2, <1>6, <2>1, <2>2, <2>3, <2>4, <2>5, <2>6, NetStep
<1> QED
  BY <1>4, <1>5, <1>6 DEF RegisterNetdevPre

LEMMA KernelRegisterNetdevInv ==
  ASSUME IInv, path = "running", NEW t \in Threads, NEW ok \in BOOLEAN, KernelRegisterNetdev(t, ok)
  PROVE  IInv'
<1>1. OnNet(t) /\ call[t].fn = "register_netdev" /\ call[t].ret = "pending" /\ call[t] # NONE
  BY DEF KernelRegisterNetdev, Pending, OnNet
<1>2. /\ \A u \in Threads : u # t => ~OnNet(u)
      /\ InRegisterNetdev(t) /\ net \in Kinds /\ call[t].bus = net /\ entry[t].bus = net /\ net # NONE
  BY <1>1, NetOne, KindsAssumption DEF InRegisterNetdev
<1>3. /\ call'[t] # NONE /\ call'[t].fn = "register_netdev" /\ call'[t].bus = net
      /\ call'[t].ret = IF ok THEN "ok" ELSE "fail"
      /\ \A u \in Threads : u # t => call'[u] = call[u]
      /\ call' \in [Threads -> Call \cup {NONE}]
  BY <1>1, <1>2, Returns DEF KernelRegisterNetdev, IInv
<1>4. /\ UNCHANGED <<state, register_netdev, unregister_netdev, opened, rx, net, enabled, carrier, entry, module,
                     kreg, kdev, kopen, kenabled, path, faults>>
      /\ knet' = IF ok THEN net ELSE NONE
  BY <1>1, <1>2 DEF KernelRegisterNetdev, KernelReturns, checks, ndo, InRegisterNetdev
<1>5. OnNet(t)' /\ CallOK(t)' /\ (\A u \in Threads : u # t => ~OnNet(u)')
  BY <1>2, <1>3, <1>4 DEF OnNet, CallOK, __napi_schedule, netif_rx
<1>6. NetInv'
  BY <1>2, <1>3, <1>4, <1>5 DEF NetInv, InRegisterNetdev
<1>7. OpenInv'
  BY <1>1, <1>2, <1>4 DEF IInv, OpenInv, InRegisterNetdev
<1>8. ProbeInv'
  <2>1. kdev[net] # "unbound"
    BY <1>2 DEF IInv, EntryInv, EntryOK
  <2> QED
    BY <1>2, <1>4, <2>1, KindsAssumption DEF IInv, ProbeInv, state
<1>9. /\ {register_netdev', unregister_netdev'} \subseteq CallState
      /\ {net', knet'} \subseteq Kinds \cup {NONE} /\ kopen' \in BOOLEAN /\ faults' \in 0 .. MaxFaults
  BY <1>2, <1>4 DEF IInv, TypeOK, CallState
<1> QED
  BY <1>1, <1>3, <1>4, <1>5, <1>6, <1>7, <1>8, <1>9, NetStep

LEMMA RegisterNetdevPostInv ==
  ASSUME IInv, path = "running", NEW t \in Threads, RegisterNetdevPost(t)
  PROVE  IInv'
<1>1. OnNet(t) /\ call[t].fn = "register_netdev" /\ call[t].ret # "pending" /\ call[t] # NONE
  BY DEF RegisterNetdevPost, Returned, OnNet
<1>2. /\ \A u \in Threads : u # t => ~OnNet(u)
      /\ InRegisterNetdev(t) /\ net \in Kinds /\ net # NONE /\ knet \in {NONE, net}
      /\ call[t].ret \in {"ok", "fail"} /\ faults \in 0 .. MaxFaults
  BY <1>1, NetOne, KindsAssumption DEF IInv, TypeOK
<1>3. MaySet(register_netdev, Outcome(t))
  BY <1>2 DEF InRegisterNetdev, MaySet, Outcome
<1>4. /\ register_netdev' = Outcome(t) /\ EndCall(t)
      /\ UNCHANGED <<state, unregister_netdev, opened, rx, net, enabled, carrier>>
  BY <1>3 DEF RegisterNetdevPost
<1>5. call'[t] = NONE /\ (\A u \in Threads : u # t => call'[u] = call[u]) /\ call' \in [Threads -> Call \cup {NONE}]
  BY <1>4, Ends DEF EndCall, IInv
<1>6. UNCHANGED <<entry, module, kreg, kdev, knet, kopen, kenabled, path, faults>>
  BY <1>4 DEF EndCall, kernel
<1>7. (\A u \in Threads : ~OnNet(u)') /\ CallOK(t)'
  BY <1>2, <1>5 DEF OnNet, CallOK
<1>8. NetInv'
  BY <1>2, <1>4, <1>6, <1>7 DEF NetInv, InRegisterNetdev, Outcome
<1>9. OpenInv' /\ ProbeInv'
  BY <1>4, <1>6, OpenFrame, ProbeFrame DEF IInv, state
<1>10. /\ {register_netdev', unregister_netdev'} \subseteq CallState
       /\ {net', knet'} \subseteq Kinds \cup {NONE} /\ kopen' \in BOOLEAN
  BY <1>4, <1>6 DEF IInv, TypeOK, CallState, Outcome
<1> QED
  BY <1>1, <1>2, <1>4, <1>5, <1>6, <1>7, <1>8, <1>9, <1>10, NetStep

(* Unregistering it.                                                       *)
LEMMA UnregisterNetdevPreInv ==
  ASSUME IInv, path = "running", NEW t \in Threads, UnregisterNetdevPre(t)
  PROVE  IInv'
<1>1. call[t] = NONE /\ entry[t].fn \in {"probe", "remove"} /\ ~OnNet(t)
  BY DEF UnregisterNetdevPre, InSetup, InDriver, OnNet, In
<1>2. entry[t].bus # NONE /\ entry[t].bus \in Kinds
  BY <1>1 DEF IInv, EntryInv, EntryOK, TypeOK
<1>3. /\ faults' \in 0 .. MaxFaults /\ (faults' = 0 => faults = 0)
      /\ faults' = 0 => knet = entry[t].bus /\ (knet = "pci" => kenabled)
  BY KindsAssumption DEF UnregisterNetdevPre, Judge, IInv, TypeOK
<1>4. CASE ~MayUnregisterNetdev /\ Kill(knet \notin {NONE, "pci"} /\ "pci" \in bus)
  <2>1. ASSUME faults' = 0 PROVE knet \notin {NONE, "pci"} /\ "pci" \in bus
    <3>1. knet = entry[t].bus /\ net = knet
      BY <1>2, <1>3, <2>1 DEF IInv, NetInv
    <3>2. \A u \in Threads : ~OnNet(u)
      BY <1>1, <1>2, <1>3, <2>1, <3>1, NetElsewhere
    <3>3. register_netdev = "CALLED_OK" /\ unregister_netdev = "NOT_CALLED"
      BY <1>2, <3>1, <3>2 DEF IInv, NetInv
    <3>4. "pci" \in bus /\ enabled # "ENABLED"
      BY <1>4, <3>3 DEF MayUnregisterNetdev
    <3>5. knet # "pci"
      <4> SUFFICES ASSUME knet = "pci" PROVE FALSE
        OBVIOUS
      <4>1. "pci" \in Kinds /\ ~OnDevice(t)
        BY <1>1, <1>2, <3>1 DEF OnDevice
      <4>2. enabled = "ENABLED" <=> kenabled
        BY <3>1, <4>1, DeviceOne DEF IInv, DevInv
      <4> QED
        BY <1>3, <2>1, <3>4, <4>2
    <3> QED
      BY <1>2, <3>1, <3>4, <3>5
  <2>2. faults' = 0 \/ faults' > 0
    BY <1>3, KindsAssumption
  <2>3. UNCHANGED <<checks, thread, kernel>> /\ path' \in {"known", "assert"}
    BY <1>4 DEF Kill
  <2>4. faults' = 0 => path' = "known"
    BY <1>4, <2>1 DEF Kill
  <2> QED
    BY <1>3, <2>2, <2>3, <2>4, Still
<1>5. CASE /\ MayUnregisterNetdev /\ unregister_netdev' = "IN_PROGRESS"
           /\ BeginCall(t, "unregister_netdev", NONE)
           /\ UNCHANGED <<state, register_netdev, opened, rx, net, enabled, carrier>>
  <2>1. /\ call'[t] # NONE /\ call'[t].fn = "unregister_netdev" /\ call'[t].bus = NONE /\ call'[t].ret = "pending"
        /\ \A u \in Threads : u # t => call'[u] = call[u]
        /\ call' \in [Threads -> Call \cup {NONE}]
    BY <1>5, Begins DEF Calls, IInv
  <2>2. UNCHANGED <<entry, module, kreg, kdev, knet, kopen, kenabled, path>>
    BY <1>5 DEF BeginCall, kernel
  <2>3. register_netdev = "CALLED_OK" /\ unregister_netdev = "NOT_CALLED"
    BY <1>5 DEF MayUnregisterNetdev
  <2>4. \A u \in Threads : ~OnNet(u)
    BY <2>3 DEF IInv, NetInv, InRegisterNetdev, InUnregisterNetdev
  <2>5. knet = net /\ net # NONE
    BY <2>3, <2>4 DEF IInv, NetInv
  <2>6. OnNet(t)' /\ (\A u \in Threads : u # t => ~OnNet(u)')
    BY <2>1, <2>4 DEF OnNet
  <2>7. CallOK(t)'
    BY <1>3, <1>5, <2>1, <2>2, <2>5 DEF CallOK, __napi_schedule, netif_rx
  <2>8. NetInv'
    BY <1>5, <2>1, <2>2, <2>3, <2>5, <2>6 DEF NetInv, InUnregisterNetdev
  <2>9. OpenInv' /\ ProbeInv'
    BY <1>3, <1>5, <2>2, OpenFrame, ProbeFrame DEF IInv, state
  <2>10. /\ {register_netdev', unregister_netdev'} \subseteq CallState
         /\ {net', knet'} \subseteq Kinds \cup {NONE} /\ kopen' \in BOOLEAN
    BY <1>5, <2>2 DEF IInv, TypeOK, CallState
  <2> QED
    BY <1>1, <1>3, <1>5, <2>1, <2>2, <2>6, <2>7, <2>8, <2>9, <2>10, NetStep
<1> QED
  BY <1>4, <1>5 DEF UnregisterNetdevPre

(* The net device is the kernel's: its kind is that of a device the driver *)
(* has probed, or is probing.                                              *)
LEMMA NetProbed ==
  ASSUME IInv, faults = 0, knet # NONE, ~SomeProbed
  PROVE  kdev[knet] = "probing"
<1>1. knet \in Kinds /\ kdev[knet] \in Device
  BY DEF IInv, TypeOK
<1> QED
  BY <1>1 DEF IInv, ProbeInv, SomeProbed

LEMMA KernelUnregisterNetdevInv ==
  ASSUME IInv, path = "running", NEW t \in Threads, KernelUnregisterNetdev(t)
  PROVE  IInv'
<1>1. OnNet(t) /\ call[t].fn = "unregister_netdev" /\ call[t].ret = "pending" /\ call[t] # NONE
  BY DEF KernelUnregisterNetdev, Pending, OnNet
<1>2. /\ \A u \in Threads : u # t => ~OnNet(u)
      /\ InUnregisterNetdev(t) /\ net \in Kinds /\ net # NONE /\ knet = net /\ call[t].bus = NONE
      /\ faults \in 0 .. MaxFaults
  BY <1>1, NetOne, KindsAssumption DEF IInv, TypeOK, InUnregisterNetdev
<1>3. CASE ~StopsFirst /\ UNCHANGED faults /\ Kill(kdev[knet] = "probing")
  <2>1. faults = 0 => kdev[knet] = "probing"
    BY <1>2, <1>3, NetProbed DEF StopsFirst
  <2>2. faults = 0 \/ faults > 0
    BY <1>2, KindsAssumption
  <2>3. UNCHANGED <<checks, thread, kernel>> /\ path' \in {"known", "assert"}
    BY <1>3 DEF Kill
  <2>4. faults' = 0 => path' = "known"
    BY <1>3, <2>1 DEF Kill
  <2> QED
    BY <1>2, <1>3, <2>2, <2>3, <2>4, Still
<1>4. CASE /\ StopsFirst /\ knet' = NONE /\ kopen' = FALSE
           /\ KernelReturns(t, TRUE)
           /\ UNCHANGED <<kreg, kdev, kenabled>>
  <2>1. /\ call'[t] # NONE /\ call'[t].fn = "unregister_netdev" /\ call'[t].bus = NONE /\ call'[t].ret = "ok"
        /\ \A u \in Threads : u # t => call'[u] = call[u]
        /\ call' \in [Threads -> Call \cup {NONE}]
    BY <1>1, <1>2, <1>4, Returns DEF IInv
  <2>2. UNCHANGED <<state, register_netdev, unregister_netdev, opened, rx, net, enabled, carrier, entry, module,
                    kreg, kdev, kenabled, path, faults>>
    BY <1>4 DEF KernelReturns, checks, ndo
  <2>3. OnNet(t)' /\ (\A u \in Threads : u # t => ~OnNet(u)')
    BY <1>2, <2>1 DEF OnNet
  <2>4. CallOK(t)'
    BY <1>1, <2>1, <2>2 DEF IInv, CallInv, CallOK, In, __napi_schedule, netif_rx
  <2>5. NetInv'
    BY <1>2, <1>4, <2>1, <2>2, <2>3 DEF NetInv, InUnregisterNetdev
  <2>6. OpenInv'
    BY <1>4, <2>2 DEF IInv, OpenInv, KernelUnregisterNetdev, Serving, In
  <2>7. ProbeInv'
    BY <1>4, <2>2, KindsAssumption DEF IInv, ProbeInv, state
  <2>8. /\ {register_netdev', unregister_netdev'} \subseteq CallState
        /\ {net', knet'} \subseteq Kinds \cup {NONE} /\ kopen' \in BOOLEAN
    BY <1>4, <2>2 DEF IInv, TypeOK, CallState
  <2> QED
    BY <1>1, <1>2, <2>1, <2>2, <2>3, <2>4, <2>5, <2>6, <2>7, <2>8, NetStep
<1>5. CASE knet = NONE /\ KernelBug
  BY <1>2, <1>5
<1> QED
  BY <1>3, <1>4, <1>5 DEF KernelUnregisterNetdev

LEMMA UnregisterNetdevPostInv ==
  ASSUME IInv, path = "running", NEW t \in Threads, UnregisterNetdevPost(t)
  PROVE  IInv'
<1>1. OnNet(t) /\ call[t].fn = "unregister_netdev" /\ call[t].ret # "pending" /\ call[t] # NONE
  BY DEF UnregisterNetdevPost, Returned, OnNet
<1>2. /\ \A u \in Threads : u # t => ~OnNet(u)
      /\ knet = NONE /\ faults \in 0 .. MaxFaults
  BY <1>1, NetOne DEF IInv, TypeOK, InUnregisterNetdev
<1>3. /\ register_netdev' = "NOT_CALLED" /\ unregister_netdev' = "NOT_CALLED" /\ EndCall(t)
      /\ UNCHANGED <<state, opened, rx, net, enabled, carrier>>
  BY DEF UnregisterNetdevPost
<1>4. call'[t] = NONE /\ (\A u \in Threads : u # t => call'[u] = call[u]) /\ call' \in [Threads -> Call \cup {NONE}]
  BY <1>3, Ends DEF EndCall, IInv
<1>5. UNCHANGED <<entry, module, kreg, kdev, knet, kopen, kenabled, path, faults>>
  BY <1>3 DEF EndCall, kernel
<1>6. (\A u \in Threads : ~OnNet(u)') /\ CallOK(t)'
  BY <1>2, <1>4 DEF OnNet, CallOK
<1>7. NetInv'
  BY <1>2, <1>3, <1>5, <1>6 DEF NetInv
<1>8. OpenInv' /\ ProbeInv'
  BY <1>3, <1>5, OpenFrame, ProbeFrame DEF IInv, state
<1>9. /\ {register_netdev', unregister_netdev'} \subseteq CallState
      /\ {net', knet'} \subseteq Kinds \cup {NONE} /\ kopen' \in BOOLEAN
  BY <1>3, <1>5 DEF IInv, TypeOK, CallState
<1> QED
  BY <1>1, <1>2, <1>3, <1>4, <1>5, <1>6, <1>7, <1>8, <1>9, NetStep

-----------------------------------------------------------------------------
(* Uses of the net device that keep no state but the pruning.              *)
LEMMA CarrierInv ==
  ASSUME IInv, path = "running", NEW t \in Threads, netif_carrier_off(t) \/ netif_stop_queue(t)
  PROVE  IInv'
<1>1. faults' \in 0 .. MaxFaults /\ (faults' = 0 => faults = 0 /\ knet # NONE)
  BY KindsAssumption DEF netif_carrier_off, netif_stop_queue, Judge, IInv, TypeOK
<1>2. CASE register_netdev # "CALLED_OK" /\ Kill(Registering)
  <2>1. ASSUME faults' = 0 PROVE Registering
    <3>1. PICK u \in Threads : OnNet(u)
      BY <1>1, <1>2, <2>1 DEF IInv, NetInv
    <3>2. call[u] # NONE /\ call[u].fn = "register_netdev" /\ call[u].bus = knet
      BY <1>1, <1>2, <2>1, <3>1, NetOne DEF InRegisterNetdev, InUnregisterNetdev, OnNet
    <3> QED
      BY <3>2 DEF Registering, Making
  <2>2. UNCHANGED <<checks, thread, kernel>> /\ path' \in {"known", "assert"}
    BY <1>2 DEF Kill
  <2>3. faults' = 0 => path' = "known"
    BY <1>2, <2>1 DEF Kill
  <2>4. faults' = 0 \/ faults' > 0
    BY <1>1, KindsAssumption
  <2> QED
    BY <1>1, <2>2, <2>3, <2>4, Still
<1>3. CASE carrier' = "called_before" /\ UNCHANGED <<state, ndo, thread, kernel, path>>
  <2> USE <1>1, <1>3 DEF state, ndo, thread, kernel
  <2>1. TypeOK'
    BY DEF IInv, TypeOK
  <2>2. RegInv' /\ NetInv' /\ DevInv' /\ RxInv'
    <3> DEFINE F == {"netif_carrier_off"}
    <3>1. Only(t, F) /\ Only(t, F)'
      BY DEF netif_carrier_off, netif_stop_queue, InDriver, Only
    <3> QED
      BY <3>1, CallFrame DEF IInv, __napi_schedule, netif_rx
  <2>3. EntryInv' /\ ProbeInv' /\ OpenInv'
    BY EntryFrame, ProbeFrame, OpenFrame DEF IInv
  <2>4. CallInv'
    BY DEF IInv, CallInv, CallOK, In
  <2> QED
    BY <2>1, <2>2, <2>3, <2>4 DEF IInv, NoFalseAlarm
<1>4. CASE path' = "pruned" /\ UNCHANGED <<checks, thread, kernel>>
  BY <1>1, <1>4, Still
<1> QED
  BY <1>2, <1>3, <1>4 DEF netif_carrier_off, netif_stop_queue

-----------------------------------------------------------------------------
(* A step of a receive call.                                               *)
LEMMA RxStep ==
  ASSUME IInv, path = "running", NEW t \in Threads, NEW f \in RxCalls,
         UNCHANGED <<state, register_netdev, unregister_netdev, opened, net, enabled, carrier, entry, kernel,
                     faults, path>>,
         rx' \in [RxCalls -> CallState], \A g \in RxCalls : g # f => rx'[g] = rx[g],
         call' \in [Threads -> Call \cup {NONE}], \A u \in Threads : u # t => call'[u] = call[u],
         call[t] # NONE => Doing(t, f, NONE), call'[t] # NONE => Doing(t, f, NONE)',
         \A u \in Threads : u # t => ~Doing(u, f, NONE),
         rx'[f] = "IN_PROGRESS" <=> Doing(t, f, NONE)'
  PROVE  IInv'
<1> USE DEF state, kernel
<1>1. TypeOK'
  BY DEF IInv, TypeOK
<1>2. f \in {__napi_schedule, netif_rx}
  BY KindsAssumption
<1>3. RegInv' /\ NetInv' /\ DevInv'
  <2> DEFINE F == {__napi_schedule, netif_rx}
  <2>1. Only(t, F) /\ Only(t, F)'
    BY <1>2 DEF Only, Doing
  <2> QED
    BY <2>1, CallFrame DEF IInv, __napi_schedule, netif_rx
<1>4. EntryInv' /\ ProbeInv' /\ OpenInv'
  BY EntryFrame, ProbeFrame, OpenFrame DEF IInv
<1>5. CallInv'
  <2>1. CallOK(t)'
    BY <1>2 DEF CallOK, In, Doing, __napi_schedule, netif_rx
  <2> QED
    BY <2>1, CallInvFrame DEF IInv
<1>6. RxInv'
  <2>1. \A u \in Threads : Doing(u, f, NONE)' => u = t
    BY DEF Doing
  <2>2. \A g \in RxCalls, u \in Threads : g # f => (Doing(u, g, NONE)' <=> Doing(u, g, NONE))
    BY DEF Doing
  <2> QED
    BY <2>1, <2>2 DEF IInv, RxInv
<1> QED
  BY <1>1, <1>3, <1>4, <1>5, <1>6 DEF IInv, NoFalseAlarm

LEMMA RxPreInv ==
  ASSUME IInv, path = "running", NEW t \in Threads, NEW f \in RxCalls, RxPre(t, f)
  PROVE  IInv'
<1>1. call[t] = NONE /\ UNCHANGED faults /\ f \in Calls /\ faults \in 0 .. MaxFaults
  BY DEF RxPre, Outside, Calls, IInv, TypeOK
<1>2. CASE ~MaySet(rx[f], "IN_PROGRESS") /\ Kill(Making(f, NONE))
  <2>1. Making(f, NONE)
    BY <1>2 DEF MaySet, IInv, RxInv, Making, Doing
  <2>2. UNCHANGED <<checks, thread, kernel>> /\ path' = "known"
    BY <1>2, <2>1 DEF Kill
  <2> QED
    BY <1>1, <2>2, Still
<1>3. CASE /\ MaySet(rx[f], "IN_PROGRESS") /\ rx' = [rx EXCEPT ![f] = "IN_PROGRESS"]
           /\ BeginCall(t, f, NONE)
           /\ UNCHANGED <<state, register_netdev, unregister_netdev, opened, net, enabled, carrier>>
  <2>1. /\ call'[t] # NONE /\ call'[t].fn = f /\ call'[t].bus = NONE
        /\ \A u \in Threads : u # t => call'[u] = call[u]
        /\ call' \in [Threads -> Call \cup {NONE}]
    BY <1>1, <1>3, Begins DEF IInv
  <2>2. UNCHANGED <<entry, kernel, path>>
    BY <1>3 DEF BeginCall
  <2>3. rx \in [RxCalls -> CallState] /\ rx[f] # "IN_PROGRESS" /\ \A u \in Threads : ~Doing(u, f, NONE)
    BY <1>3 DEF IInv, TypeOK, RxInv, MaySet
  <2>4. /\ rx' \in [RxCalls -> CallState] /\ rx'[f] = "IN_PROGRESS" /\ Doing(t, f, NONE)'
        /\ \A g \in RxCalls : g # f => rx'[g] = rx[g]
    BY <1>3, <2>1, <2>3 DEF CallState, Doing
  <2> QED
    BY <1>1, <1>3, <2>1, <2>2, <2>3, <2>4, RxStep
<1> QED
  BY <1>2, <1>3 DEF RxPre

LEMMA RxPostInv ==
  ASSUME IInv, path = "running", NEW t \in Threads, NEW f \in RxCalls, RxPost(t, f)
  PROVE  IInv'
<1>1. Doing(t, f, NONE)
  BY KindsAssumption DEF RxPost, Doing, IInv, CallInv, CallOK
<1>2. rx[f] = "IN_PROGRESS" /\ \A u \in Threads : u # t => ~Doing(u, f, NONE)
  BY <1>1 DEF IInv, RxInv
<1>3. /\ rx' = [rx EXCEPT ![f] = "CALLED_OK"] /\ call' = [call EXCEPT ![t] = NONE]
      /\ UNCHANGED <<state, register_netdev, unregister_netdev, opened, net, enabled, carrier, entry, kernel,
                     faults, path>>
  BY <1>2 DEF RxPost, MaySet
<1>4. call'[t] = NONE /\ (\A u \in Threads : u # t => call'[u] = call[u]) /\ call' \in [Threads -> Call \cup {NONE}]
  BY <1>3, Ends DEF IInv
<1>5. /\ rx' \in [RxCalls -> CallState] /\ rx'[f] = "CALLED_OK" /\ ~Doing(t, f, NONE)'
      /\ \A g \in RxCalls : g # f => rx'[g] = rx[g]
  BY <1>3, <1>4 DEF IInv, TypeOK, CallState, Doing
<1> QED
  BY <1>1, <1>2, <1>3, <1>4, <1>5, RxStep

-----------------------------------------------------------------------------
(* A thread enters the driver, or leaves it.                               *)
LEMMA Enters ==
  ASSUME TypeOK, NEW t \in Threads, NEW fn \in Entries, NEW b \in Kinds \cup {NONE},
         entry' = [entry EXCEPT ![t] = [fn |-> fn, bus |-> b]]
  PROVE  /\ entry'[t].fn = fn /\ entry'[t].bus = b
         /\ \A u \in Threads : u # t => entry'[u] = entry[u]
         /\ entry' \in [Threads -> [fn: Entries, bus: Kinds \cup {NONE}]]
<1>1. entry'[t] = [fn |-> fn, bus |-> b]
  BY DEF TypeOK
<1>2. [fn |-> fn, bus |-> b] \in [fn: Entries, bus: Kinds \cup {NONE}]
  OBVIOUS
<1> QED
  BY <1>1, <1>2 DEF TypeOK

LEMMA Leaves ==
  ASSUME TypeOK, NEW t \in Threads, entry' = [entry EXCEPT ![t] = Out]
  PROVE  /\ entry'[t].fn = "out" /\ entry'[t].bus = NONE
         /\ \A u \in Threads : u # t => entry'[u] = entry[u]
         /\ entry' \in [Threads -> [fn: Entries, bus: Kinds \cup {NONE}]]
BY Enters DEF Out, Entries

(* Such a step leaves the calls and what they are about as they are.       *)
LEMMA EntryStep ==
  ASSUME IInv, path = "running", NEW t \in Threads, call[t] = NONE,
         UNCHANGED <<registered, unregistered, bus, register_netdev, unregister_netdev, rx, net, enabled, call,
                     kreg, knet, kenabled, path>>,
         faults' \in 0 .. MaxFaults, faults' = 0 => faults = 0,
         probed' \in [Kinds -> CallState], opened' \in CallState,
         carrier' \in {"off", "armed", "called_before"}, kopen' \in BOOLEAN,
         module' \in {"no", "init", "loaded", "cleanup", "gone"},
         kdev' \in [Kinds -> Device],
         entry' \in [Threads -> [fn: Entries, bus: Kinds \cup {NONE}]],
         \A u \in Threads : u # t => entry'[u] = entry[u],
         EntryInv', ProbeInv', OpenInv'
  PROVE  IInv'
<1>1. TypeOK'
  BY DEF IInv, TypeOK
<1>2. RegInv' /\ NetInv' /\ DevInv' /\ RxInv'
  <2> DEFINE F == {"none"}
  <2>1. Only(t, F) /\ Only(t, F)'
    BY DEF Only
  <2> QED
    BY <2>1, CallFrame DEF IInv, __napi_schedule, netif_rx
<1>3. CallInv'
  BY DEF IInv, CallInv, CallOK, In
<1> QED
  BY <1>1, <1>2, <1>3 DEF IInv, NoFalseAlarm

(* Leaving keeps the others where they are, if what they rely on stays.    *)
LEMMA LeaveEntry ==
  ASSUME EntryInv, NEW t \in Threads, entry'[t].fn = "out", entry'[t].bus = NONE,
         \A u \in Threads : u # t => entry'[u] = entry[u],
         \A u \in Threads : u # t /\ entry[u].fn \in {"init", "cleanup"} => module' = module,
         \A u \in Threads : u # t /\ entry[u].bus # NONE => kdev'[entry[u].bus] = kdev[entry[u].bus]
  PROVE  EntryInv'
<1>1. \A u \in Threads : u # t => EntryOK(u)'
  BY DEF EntryInv, EntryOK
<1>2. EntryOK(t)'
  BY DEF EntryOK
<1>3. \A u, v \in Threads : Alone(u, v)' => u = v
  BY DEF EntryInv, Alone
<1> QED
  BY <1>1, <1>2, <1>3 DEF EntryInv

(* Entering a function that no thread is in, or a device that is free.     *)
LEMMA EnterEntry ==
  ASSUME EntryInv, NEW t \in Threads, EntryOK(t)', NEW fn, NEW b, entry'[t].fn = fn, entry'[t].bus = b,
         \A u \in Threads : u # t => entry'[u] = entry[u],
         \A u \in Threads : u # t /\ entry[u].fn \in {"init", "cleanup"} => module' = module,
         \A u \in Threads : u # t /\ entry[u].bus # NONE => kdev'[entry[u].bus] = kdev[entry[u].bus],
         fn \in {"init", "cleanup"} => \A u \in Threads : entry[u].fn # fn,
         fn \in {"open", "stop"} => \A u \in Threads : entry[u].fn \notin {"open", "stop"},
         b # NONE => \A u \in Threads : entry[u].bus # b
  PROVE  EntryInv'
<1>1. \A u \in Threads : u # t => EntryOK(u)'
  BY DEF EntryInv, EntryOK
<1>2. \A u, v \in Threads : Alone(u, v)' => u = v
  BY DEF EntryInv, Alone
<1> QED
  BY <1>1, <1>2 DEF EntryInv

(* init_module and cleanup_module.                                         *)
LEMMA InitModuleInv ==
  ASSUME IInv, path = "running", NEW t \in Threads, InitModule(t) \/ CleanupModule(t)
  PROVE  IInv'
<1> SUFFICES ASSUME NEW fn \in {"init", "cleanup"},
               /\ Outside(t) /\ module \in {"no", "loaded"} /\ module' = fn /\ EnterDriver(t, fn, NONE)
               /\ UNCHANGED <<checks, kreg, kdev, knet, kopen, kenabled>>
             PROVE IInv'
  BY DEF InitModule, CleanupModule
<1> USE DEF checks, state, ndo, EnterDriver
<1>1. /\ entry'[t].fn = fn /\ entry'[t].bus = NONE
      /\ \A u \in Threads : u # t => entry'[u] = entry[u]
      /\ entry' \in [Threads -> [fn: Entries, bus: Kinds \cup {NONE}]]
  BY Enters DEF Entries, IInv
<1>2. \A u \in Threads : entry[u].fn \notin {"init", "cleanup"}
  BY DEF IInv, EntryInv, EntryOK
<1>3. EntryOK(t)'
  BY <1>1 DEF EntryOK
<1>4. EntryInv'
  BY <1>1, <1>2, <1>3, EnterEntry DEF IInv
<1>5. ProbeInv'
  BY ProbeFrame DEF IInv
<1>6. OpenInv'
  BY <1>1 DEF IInv, OpenInv, Outside
<1>7. call[t] = NONE /\ module' \in {"no", "init", "loaded", "cleanup", "gone"}
  BY DEF Outside
<1> QED
  BY <1>1, <1>4, <1>5, <1>6, <1>7, EntryStep DEF IInv, TypeOK

(* A correct driver in init_module has no call on a driver under way, so   *)
(* what init_module_check sees is what the kernel has.                     *)
LEMMA InitSees ==
  ASSUME IInv, faults = 0, NEW t \in Threads, Inside(t, "init"), NEW b \in Kinds
  PROVE  Idle(b)
<1>1. \A u \in Threads : ~OnDriver(u, b)
  <2> SUFFICES ASSUME NEW u \in Threads, OnDriver(u, b) PROVE FALSE
    OBVIOUS
  <2>1. entry[u].fn \in {"init", "cleanup"} /\ call[u] # NONE
    BY DEF IInv, CallInv, CallOK, OnDriver, Doing, In
  <2>2. entry[u].fn = "init" /\ entry[t].fn = "init" /\ call[t] = NONE
    BY <2>1 DEF IInv, EntryInv, EntryOK, Inside
  <2>3. u = t
    BY <2>2 DEF IInv, EntryInv, Alone
  <2> QED
    BY <2>1, <2>2, <2>3
<1> QED
  BY <1>1 DEF IInv, RegInv, KindInv, Serial, SerialInv

LEMMA InitModulePostInv ==
  ASSUME IInv, path = "running", NEW t \in Threads, NEW ok \in BOOLEAN, InitModulePost(t, ok)
  PROVE  IInv'
<1>1. entry[t].fn = "init" /\ call[t] = NONE /\ Inside(t, "init")
  BY DEF InitModulePost, Inside
<1>2. faults' \in 0 .. MaxFaults /\ (faults' = 0 => faults = 0 /\ (ok <=> kreg # {}))
  BY KindsAssumption DEF InitModulePost, Judge, IInv, TypeOK
<1>3. CASE ~InitAccepted(ok) /\ Kill(\E b \in Kinds \ (kreg \cup StrictKinds) : registered[b] = "CALLED_OK")
  <2>1. ASSUME faults' = 0 PROVE \E b \in Kinds \ (kreg \cup StrictKinds) : registered[b] = "CALLED_OK"
    <3>1. \A b \in Kinds : Idle(b)
      BY <1>1, <1>2, <2>1, InitSees
    <3>2. CASE ok
      <4>1. PICK b \in kreg : b \in Kinds
        BY <1>2, <2>1, <3>2 DEF IInv, TypeOK
      <4> QED
        BY <1>3, <3>1, <3>2, <4>1 DEF Idle, InitAccepted
    <3>3. CASE ~ok
      <4>1. PICK b \in Kinds : registered[b] = "CALLED_OK"
        BY <1>3, <3>3 DEF InitAccepted
      <4>2. b \notin kreg /\ b \notin StrictKinds
        BY <1>2, <2>1, <3>1, <3>3, <4>1 DEF Idle
      <4> QED
        BY <4>1, <4>2
    <3> QED
      BY <3>2, <3>3
  <2>2. UNCHANGED <<checks, thread, kernel>> /\ path' \in {"known", "assert"}
    BY <1>3 DEF Kill
  <2>3. faults' = 0 => path' = "known"
    BY <1>3, <2>1 DEF Kill
  <2>4. faults' = 0 \/ faults' > 0
    BY <1>2, KindsAssumption
  <2> QED
    BY <1>2, <2>2, <2>3, <2>4, Still
<1>4. CASE /\ module' = IF ok THEN "loaded" ELSE "gone"
           /\ LeaveDriver(t)
           /\ UNCHANGED <<checks, kreg, kdev, knet, kopen, kenabled>>
  <2> USE DEF checks, state, ndo, LeaveDriver
  <2>1. /\ entry'[t].fn = "out" /\ entry'[t].bus = NONE
        /\ \A u \in Threads : u # t => entry'[u] = entry[u]
        /\ entry' \in [Threads -> [fn: Entries, bus: Kinds \cup {NONE}]]
    BY <1>4, Leaves DEF IInv
  <2>2. \A u \in Threads : u # t => entry[u].fn \notin {"init", "cleanup"}
    BY <1>1 DEF IInv, EntryInv, EntryOK, Alone
  <2>3. EntryInv'
    BY <1>4, <2>1, <2>2, LeaveEntry DEF IInv
  <2>4. ProbeInv'
    BY <1>2, <1>4, ProbeFrame DEF IInv
  <2>5. OpenInv'
    BY <1>1, <1>4, <2>1 DEF IInv, OpenInv
  <2> QED
    BY <1>1, <1>2, <1>4, <2>1, <2>3, <2>4, <2>5, EntryStep DEF IInv, TypeOK
<1> QED
  BY <1>3, <1>4 DEF InitModulePost

LEMMA CleanupModulePostInv ==
  ASSUME IInv, path = "running", NEW t \in Threads, CleanupModulePost(t)
  PROVE  IInv'
<1> USE DEF checks, state, ndo, LeaveDriver
<1>1. entry[t].fn = "cleanup" /\ call[t] = NONE
  BY DEF CleanupModulePost, Inside
<1>2. faults' \in 0 .. MaxFaults /\ (faults' = 0 => faults = 0)
  BY KindsAssumption DEF CleanupModulePost, Judge, IInv, TypeOK
<1>3. /\ module' = "gone" /\ LeaveDriver(t)
      /\ UNCHANGED <<checks, kreg, kdev, knet, kopen, kenabled>>
  BY DEF CleanupModulePost
<1>4. /\ entry'[t].fn = "out" /\ entry'[t].bus = NONE
      /\ \A u \in Threads : u # t => entry'[u] = entry[u]
      /\ entry' \in [Threads -> [fn: Entries, bus: Kinds \cup {NONE}]]
  BY <1>3, Leaves DEF IInv
<1>5. \A u \in Threads : u # t => entry[u].fn \notin {"init", "cleanup"}
  BY <1>1 DEF IInv, EntryInv, EntryOK, Alone
<1>6. EntryInv'
  BY <1>3, <1>4, <1>5, LeaveEntry DEF IInv
<1>7. ProbeInv'
  BY <1>2, <1>3, ProbeFrame DEF IInv
<1>8. OpenInv'
  BY <1>1, <1>3, <1>4 DEF IInv, OpenInv
<1> QED
  BY <1>1, <1>2, <1>3, <1>4, <1>6, <1>7, <1>8, EntryStep DEF IInv, TypeOK

(* probe and remove.                                                       *)
LEMMA ProbePreInv ==
  ASSUME IInv, path = "running", NEW t \in Threads, NEW f \in ProbeFns, ProbePre(t, f)
  PROVE  IInv'
<1> SUFFICES ASSUME NEW b, b = f.bus PROVE IInv'
  OBVIOUS
<1>1. /\ b \in Kinds /\ b # NONE /\ entry[t].fn = "out" /\ call[t] = NONE /\ kdev[b] = "unbound"
      /\ faults' = faults /\ faults \in 0 .. MaxFaults
  BY ProbeFnsAre, KindsAssumption DEF ProbePre, Outside, EnterDriver, IInv, TypeOK
<1>2. CASE ~MayProbe(f) /\ Kill(probed[b] \in {"CALLED_OK", "CALLED_FAILED"})
  <2>1. probed[b] \in CallState /\ probed[b] # "IN_PROGRESS"
    BY <1>1 DEF IInv, TypeOK, ProbeInv
  <2>2. probed[b] \in {"CALLED_OK", "CALLED_FAILED"}
    BY <1>2, <2>1 DEF MayProbe, MaySet, CallState
  <2>3. UNCHANGED <<checks, thread, kernel>> /\ path' = "known"
    BY <1>2, <2>2 DEF Kill
  <2> QED
    BY <1>1, <2>3, Still
<1>4. CASE Kill(TRUE) /\ UNCHANGED faults
  <2>1. UNCHANGED <<checks, thread, kernel>> /\ path' = "known"
    BY <1>4 DEF Kill
  <2> QED
    BY <1>1, <2>1, Still
<1>3. CASE /\ probed' = [probed EXCEPT ![b] = "IN_PROGRESS"]
           /\ kdev' = [kdev EXCEPT ![b] = "probing"]
           /\ EnterDriver(t, "probe", b)
           /\ UNCHANGED <<registered, unregistered, bus, ndo, carrier, module, kreg, knet, kopen, kenabled>>
  <2> USE DEF ndo, EnterDriver
  <2>1. /\ entry'[t].fn = "probe" /\ entry'[t].bus = b
        /\ \A u \in Threads : u # t => entry'[u] = entry[u]
        /\ entry' \in [Threads -> [fn: Entries, bus: Kinds \cup {NONE}]]
    BY <1>1, <1>3, Enters DEF Entries, IInv
  <2>2. /\ kdev'[b] = "probing" /\ probed'[b] = "IN_PROGRESS"
        /\ \A c \in Kinds : c # b => kdev'[c] = kdev[c] /\ probed'[c] = probed[c]
        /\ probed' \in [Kinds -> CallState]
        /\ kdev' \in [Kinds -> Device]
    BY <1>1, <1>3 DEF IInv, TypeOK, CallState
  <2>3. \A u \in Threads : entry[u].bus # b /\ (entry[u].bus # NONE => entry[u].bus \in Kinds)
    BY <1>1 DEF IInv, EntryInv, EntryOK, TypeOK
  <2>4. EntryOK(t)'
    BY <1>1, <2>1, <2>2 DEF EntryOK
  <2>5. EntryInv'
    BY <1>1, <1>3, <2>1, <2>2, <2>3, <2>4, EnterEntry DEF IInv
  <2>6. ProbeInv'
    BY <1>1, <1>3, <2>2 DEF IInv, ProbeInv
  <2>7. OpenInv'
    BY <1>1, <1>3, <2>1 DEF IInv, OpenInv
  <2> QED
    BY <1>1, <1>3, <2>1, <2>2, <2>5, <2>6, <2>7, EntryStep DEF IInv, TypeOK
<1> QED
  BY <1>2, <1>3, <1>4 DEF ProbePre

LEMMA ProbePostInv ==
  ASSUME IInv, path = "running", NEW t \in Threads, NEW f \in ProbeFns, NEW ok \in BOOLEAN, ProbePost(t, f, ok)
  PROVE  IInv'
<1> SUFFICES ASSUME NEW b, b = f.bus PROVE IInv'
  OBVIOUS
<1>1. b \in Kinds /\ b # NONE /\ entry[t].fn = "probe" /\ call[t] = NONE /\ entry[t].bus = b
  BY ProbeFnsAre, KindsAssumption DEF ProbePost, Inside
<1>2. /\ faults' \in 0 .. MaxFaults /\ (faults' = 0 => faults = 0)
      /\ faults' = 0 => IF ok THEN knet = b \/ net # b ELSE knet # b
  BY KindsAssumption DEF ProbePost, Judge, IInv, TypeOK
<1>3. CASE ~ProbeAccepted(f, ok) /\ Kill(net \notin {NONE, b})
  <2>1. ASSUME faults' = 0 PROVE net \notin {NONE, b}
    <3> SUFFICES ASSUME net = b PROVE FALSE
      BY <1>3 DEF ProbeAccepted
    <3>1. \A u \in Threads : ~OnNet(u)
      BY <1>1, <1>2, <2>1, NetElsewhere
    <3>2. /\ register_netdev # "IN_PROGRESS" /\ (register_netdev = "CALLED_OK" <=> knet # NONE)
          /\ knet \in {NONE, b} /\ register_netdev \in CallState
      BY <3>1 DEF IInv, NetInv, TypeOK
    <3> QED
      BY <1>1, <1>2, <1>3, <2>1, <3>2 DEF ProbeAccepted, CallState
  <2>2. UNCHANGED <<checks, thread, kernel>> /\ path' \in {"known", "assert"}
    BY <1>3 DEF Kill
  <2>3. faults' = 0 => path' = "known"
    BY <1>3, <2>1 DEF Kill
  <2>4. faults' = 0 \/ faults' > 0
    BY <1>2, KindsAssumption
  <2> QED
    BY <1>2, <2>2, <2>3, <2>4, Still
<1>4. CASE /\ probed' = [probed EXCEPT ![b] = IF ok THEN "CALLED_OK" ELSE "CALLED_FAILED"]
           /\ kdev' = [kdev EXCEPT ![b] = IF ok THEN "bound" ELSE "unbound"]
           /\ LeaveDriver(t)
           /\ UNCHANGED <<registered, unregistered, bus, ndo, carrier, module, kreg, knet, kopen, kenabled>>
  <2> USE DEF ndo, LeaveDriver
  <2>1. /\ entry'[t].fn = "out" /\ entry'[t].bus = NONE
        /\ \A u \in Threads : u # t => entry'[u] = entry[u]
        /\ entry' \in [Threads -> [fn: Entries, bus: Kinds \cup {NONE}]]
    BY <1>4, Leaves DEF IInv
  <2>2. /\ kdev'[b] = IF ok THEN "bound" ELSE "unbound"
        /\ probed'[b] = IF ok THEN "CALLED_OK" ELSE "CALLED_FAILED"
        /\ \A c \in Kinds : c # b => kdev'[c] = kdev[c] /\ probed'[c] = probed[c]
        /\ probed' \in [Kinds -> CallState]
        /\ kdev' \in [Kinds -> Device]
    BY <1>1, <1>4 DEF IInv, TypeOK, CallState
  <2>3. \A u \in Threads : u # t /\ entry[u].bus # NONE => kdev'[entry[u].bus] = kdev[entry[u].bus]
    BY <1>1, <2>2 DEF IInv, EntryInv, Alone, TypeOK
  <2>4. EntryInv'
    BY <1>4, <2>1, <2>3, LeaveEntry DEF IInv
  <2>5. ProbeInv'
    BY <1>1, <1>2, <1>4, <2>2 DEF IInv, ProbeInv
  <2>6. OpenInv'
    BY <1>1, <1>4, <2>1 DEF IInv, OpenInv
  <2> QED
    BY <1>1, <1>2, <1>4, <2>1, <2>2, <2>4, <2>5, <2>6, EntryStep DEF IInv, TypeOK
<1> QED
  BY <1>3, <1>4 DEF ProbePost

LEMMA RemoveInv ==
  ASSUME IInv, path = "running", NEW t \in Threads, NEW b \in Kinds, Remove(t, b)
  PROVE  IInv'
<1> USE DEF checks, state, ndo, EnterDriver
<1>1. /\ b # NONE /\ entry[t].fn = "out" /\ call[t] = NONE /\ kdev[b] = "bound"
      /\ kdev' = [kdev EXCEPT ![b] = "removing"] /\ EnterDriver(t, "remove", b)
      /\ UNCHANGED <<checks, module, kreg, knet, kopen, kenabled>>
  BY KindsAssumption DEF Remove, Outside
<1>2. /\ entry'[t].fn = "remove" /\ entry'[t].bus = b
      /\ \A u \in Threads : u # t => entry'[u] = entry[u]
      /\ entry' \in [Threads -> [fn: Entries, bus: Kinds \cup {NONE}]]
  BY <1>1, Enters DEF Entries, IInv
<1>3. /\ kdev'[b] = "removing" /\ \A c \in Kinds : c # b => kdev'[c] = kdev[c]
      /\ kdev' \in [Kinds -> Device]
  BY <1>1 DEF IInv, TypeOK
<1>4. \A u \in Threads : entry[u].bus # b /\ (entry[u].bus # NONE => entry[u].bus \in Kinds)
  BY <1>1 DEF IInv, EntryInv, EntryOK, TypeOK
<1>5. EntryOK(t)'
  BY <1>1, <1>2, <1>3 DEF EntryOK
<1>6. EntryInv'
  BY <1>1, <1>2, <1>3, <1>4, <1>5, EnterEntry DEF IInv
<1>7. ProbeInv'
  BY <1>1, <1>3 DEF IInv, ProbeInv
<1>8. OpenInv'
  BY <1>1, <1>2 DEF IInv, OpenInv
<1> QED
  BY <1>1, <1>2, <1>3, <1>6, <1>7, <1>8, EntryStep DEF IInv, TypeOK

LEMMA RemovePostInv ==
  ASSUME IInv, path = "running", NEW t \in Threads, NEW b \in Kinds, RemovePost(t, b)
  PROVE  IInv'
<1> USE DEF checks, state, ndo, LeaveDriver
<1>1. /\ b # NONE /\ entry[t].fn = "remove" /\ entry[t].bus = b /\ call[t] = NONE
      /\ kdev' = [kdev EXCEPT ![b] = "unbound"] /\ LeaveDriver(t)
      /\ UNCHANGED <<checks, module, kreg, knet, kopen, kenabled>>
  BY KindsAssumption DEF RemovePost, Inside
<1>2. faults' \in 0 .. MaxFaults /\ (faults' = 0 => faults = 0 /\ knet # b)
  BY KindsAssumption DEF RemovePost, Judge, IInv, TypeOK
<1>3. /\ entry'[t].fn = "out" /\ entry'[t].bus = NONE
      /\ \A u \in Threads : u # t => entry'[u] = entry[u]
      /\ entry' \in [Threads -> [fn: Entries, bus: Kinds \cup {NONE}]]
  BY <1>1, Leaves DEF IInv
<1>4. /\ kdev'[b] = "unbound" /\ \A c \in Kinds : c # b => kdev'[c] = kdev[c]
      /\ kdev' \in [Kinds -> Device]
  BY <1>1 DEF IInv, TypeOK
<1>5. \A u \in Threads : u # t /\ entry[u].bus # NONE => kdev'[entry[u].bus] = kdev[entry[u].bus]
  BY <1>1, <1>4 DEF IInv, EntryInv, Alone, TypeOK
<1>6. EntryInv'
  BY <1>1, <1>3, <1>5, LeaveEntry DEF IInv
<1>7. kdev[b] = "removing"
  BY <1>1 DEF IInv, EntryInv, EntryOK
<1>8. ProbeInv'
  BY <1>1, <1>2, <1>4, <1>7 DEF IInv, ProbeInv
<1>9. OpenInv'
  BY <1>1, <1>3 DEF IInv, OpenInv
<1> QED
  BY <1>1, <1>2, <1>3, <1>4, <1>6, <1>8, <1>9, EntryStep DEF IInv, TypeOK

(* suspend and resume, of the PCI device.                                  *)
LEMMA SuspendInv ==
  ASSUME IInv, path = "running", NEW t \in Threads, "pci" \in Kinds, Suspend(t) \/ Resume(t)
  PROVE  IInv'
<1> SUFFICES ASSUME NEW fn, NEW from, NEW to,
               \/ fn = "suspend" /\ from = "bound" /\ to = "suspending"
               \/ fn = "resume" /\ from = "suspended" /\ to = "resuming",
               /\ Outside(t) /\ kdev["pci"] = from
               /\ kdev' = [kdev EXCEPT !["pci"] = to]
               /\ EnterDriver(t, fn, "pci")
               /\ UNCHANGED <<checks, module, kreg, knet, kopen, kenabled>>
             PROVE IInv'
  BY DEF Suspend, Resume
<1> USE DEF checks, state, ndo, EnterDriver
<1>1. /\ "pci" # NONE /\ entry[t].fn = "out" /\ call[t] = NONE
      /\ fn \in {"suspend", "resume"} /\ to \in Device \ {"unbound", "probing"}
  BY KindsAssumption DEF Outside, Device
<1>2. /\ entry'[t].fn = fn /\ entry'[t].bus = "pci"
      /\ \A u \in Threads : u # t => entry'[u] = entry[u]
      /\ entry' \in [Threads -> [fn: Entries, bus: Kinds \cup {NONE}]]
  BY <1>1, Enters DEF Entries, DeviceEntries, IInv
<1>3. /\ kdev'["pci"] = to /\ \A c \in Kinds : c # "pci" => kdev'[c] = kdev[c]
      /\ kdev' \in [Kinds -> Device]
  BY <1>1 DEF IInv, TypeOK
<1>4. \A u \in Threads : entry[u].bus # "pci" /\ (entry[u].bus # NONE => entry[u].bus \in Kinds)
  BY <1>1 DEF IInv, EntryInv, EntryOK, TypeOK, DeviceEntries
<1>5. EntryOK(t)'
  BY <1>1, <1>2, <1>3 DEF EntryOK, DeviceEntries
<1>6. EntryInv'
  BY <1>1, <1>2, <1>3, <1>4, <1>5, EnterEntry DEF IInv
<1>7. ProbeInv'
  BY <1>1, <1>3 DEF IInv, ProbeInv
<1>8. OpenInv'
  BY <1>1, <1>2 DEF IInv, OpenInv
<1> QED
  BY <1>1, <1>2, <1>3, <1>6, <1>7, <1>8, EntryStep DEF IInv, TypeOK

LEMMA SuspendPostInv ==
  ASSUME IInv, path = "running", NEW t \in Threads, "pci" \in Kinds,
         ResumePost(t) \/ \E ok \in BOOLEAN : SuspendPost(t, ok)
  PROVE  IInv'
<1> SUFFICES ASSUME NEW to \in {"bound", "suspended"}, entry[t].fn \in {"suspend", "resume"},
               /\ call[t] = NONE
               /\ kdev' = [kdev EXCEPT !["pci"] = to]
               /\ LeaveDriver(t)
               /\ UNCHANGED <<checks, module, kreg, knet, kopen, kenabled, faults>>
             PROVE IInv'
  BY DEF SuspendPost, ResumePost, Inside
<1> USE DEF checks, state, ndo, LeaveDriver
<1>1. /\ "pci" # NONE /\ entry[t].bus = "pci" /\ kdev["pci"] \in {"suspending", "resuming"}
      /\ faults \in 0 .. MaxFaults
  BY KindsAssumption DEF IInv, EntryInv, EntryOK, TypeOK
<1>2. /\ entry'[t].fn = "out" /\ entry'[t].bus = NONE
      /\ \A u \in Threads : u # t => entry'[u] = entry[u]
      /\ entry' \in [Threads -> [fn: Entries, bus: Kinds \cup {NONE}]]
  BY <1>1, Leaves DEF IInv
<1>3. /\ kdev'["pci"] = to /\ \A c \in Kinds : c # "pci" => kdev'[c] = kdev[c]
      /\ kdev' \in [Kinds -> Device]
  BY <1>1 DEF IInv, TypeOK, Device
<1>4. \A u \in Threads : u # t /\ entry[u].bus # NONE => kdev'[entry[u].bus] = kdev[entry[u].bus]
  BY <1>1, <1>3 DEF IInv, EntryInv, Alone, TypeOK
<1>5. EntryInv'
  BY <1>1, <1>2, <1>4, LeaveEntry DEF IInv
<1>6. ProbeInv'
  BY <1>1, <1>3 DEF IInv, ProbeInv
<1>7. OpenInv'
  BY <1>1, <1>2 DEF IInv, OpenInv
<1> QED
  BY <1>1, <1>2, <1>3, <1>5, <1>6, <1>7, EntryStep DEF IInv, TypeOK

(* Serving the net device: the checks pass, or the kernel did not wait for *)
(* probe.                                                                  *)
LEMMA ServeKilled ==
  ASSUME IInv, path = "running", UNCHANGED faults, knet # NONE, ~SomeProbed, Kill(kdev[knet] = "probing")
  PROVE  IInv'
<1>1. faults \in 0 .. MaxFaults /\ (faults = 0 \/ faults > 0)
  BY KindsAssumption DEF IInv, TypeOK
<1>2. UNCHANGED <<checks, thread, kernel>> /\ path' \in {"known", "assert"}
  BY DEF Kill
<1>3. faults' = 0 => path' = "known"
  BY NetProbed DEF Kill
<1> QED
  BY <1>1, <1>2, <1>3, Still

LEMMA OpenPreInv ==
  ASSUME IInv, path = "running", NEW t \in Threads, ndo_open(t)
  PROVE  IInv'
<1>1. /\ knet # NONE /\ entry[t].fn = "out" /\ call[t] = NONE /\ faults' = faults /\ faults \in 0 .. MaxFaults
      /\ \A u \in Threads : entry[u].fn \notin {"open", "stop"}
  BY DEF ndo_open, Outside, EnterDriver, IInv, TypeOK, Serving, In
<1>2. CASE ~MayOpen /\ Kill(opened = "CALLED_OK" \/ kdev[knet] = "probing")
  <2>1. opened \in CallState /\ opened # "IN_PROGRESS"
    BY <1>1 DEF IInv, TypeOK, OpenInv
  <2>2. faults = 0 => opened = "CALLED_OK" \/ kdev[knet] = "probing"
    BY <1>1, <1>2, <2>1, NetProbed DEF MayOpen, CallState
  <2>3. UNCHANGED <<checks, thread, kernel>> /\ path' \in {"known", "assert"}
    BY <1>2 DEF Kill
  <2>4. faults' = 0 => path' = "known"
    BY <1>1, <1>2, <2>2 DEF Kill
  <2>5. faults' = 0 \/ faults' > 0
    BY <1>1, KindsAssumption
  <2> QED
    BY <1>1, <2>3, <2>4, <2>5, Still
<1>3. CASE /\ opened' = "IN_PROGRESS" /\ EnterDriver(t, "open", NONE)
           /\ UNCHANGED <<state, register_netdev, unregister_netdev, rx, net, enabled, carrier, kernel>>
  <2> USE DEF state, kernel, EnterDriver
  <2>1. /\ entry'[t].fn = "open" /\ entry'[t].bus = NONE
        /\ \A u \in Threads : u # t => entry'[u] = entry[u]
        /\ entry' \in [Threads -> [fn: Entries, bus: Kinds \cup {NONE}]]
    BY <1>3, Enters DEF Entries, IInv
  <2>2. EntryOK(t)'
    BY <2>1 DEF EntryOK
  <2>3. EntryInv'
    BY <1>1, <1>3, <2>1, <2>2, EnterEntry DEF IInv
  <2>4. ProbeInv'
    BY <1>1, <1>3, ProbeFrame DEF IInv
  <2>5. OpenInv'
    BY <1>1, <1>3, <2>1 DEF OpenInv
  <2>6. opened' \in CallState
    BY <1>3 DEF CallState
  <2> QED
    BY <1>1, <1>3, <2>1, <2>3, <2>4, <2>5, <2>6, EntryStep DEF IInv, TypeOK
<1> QED
  BY <1>2, <1>3 DEF ndo_open

(* The two entry points that only look at the state.                       *)
LEMMA StopXmitPreInv ==
  ASSUME IInv, path = "running", NEW t \in Threads, ndo_stop(t) \/ ndo_start_xmit(t)
  PROVE  IInv'
<1>1. /\ entry[t].fn = "out" /\ call[t] = NONE /\ faults' = faults /\ faults \in 0 .. MaxFaults
      /\ \A u \in Threads : entry[u].fn \notin {"open", "stop"}
      /\ knet # NONE
  BY DEF ndo_stop, ndo_start_xmit, Outside, EnterDriver, IInv, TypeOK, OpenInv, Serving, In
<1>2. CASE ~SomeProbed /\ Kill(kdev[knet] = "probing")
  BY <1>1, <1>2, ServeKilled
<1>4. CASE Kill(TRUE)
  <2>1. UNCHANGED <<checks, thread, kernel>> /\ path' = "known"
    BY <1>4 DEF Kill
  <2> QED
    BY <1>1, <2>1, Still
<1>3. ASSUME NEW fn \in {"stop", "xmit"}, EnterDriver(t, fn, NONE), UNCHANGED <<checks, kernel>>
      PROVE  IInv'
  <2> USE DEF checks, state, ndo, kernel, EnterDriver
  <2>1. /\ entry'[t].fn = fn /\ entry'[t].bus = NONE
        /\ \A u \in Threads : u # t => entry'[u] = entry[u]
        /\ entry' \in [Threads -> [fn: Entries, bus: Kinds \cup {NONE}]]
    BY <1>3, Enters DEF Entries, IInv
  <2>2. EntryOK(t)'
    BY <2>1 DEF EntryOK
  <2>3. EntryInv'
    BY <1>1, <1>3, <2>1, <2>2, EnterEntry DEF IInv
  <2>4. ProbeInv'
    BY <1>1, <1>3, ProbeFrame DEF IInv
  <2>5. OpenInv'
    BY <1>1, <1>3, <2>1 DEF IInv, OpenInv
  <2> QED
    BY <1>1, <1>3, <2>1, <2>3, <2>4, <2>5, EntryStep DEF IInv, TypeOK
<1> QED
  BY <1>2, <1>3, <1>4 DEF ndo_stop, ndo_start_xmit

LEMMA OpenPostInv ==
  ASSUME IInv, path = "running", NEW t \in Threads, NEW ok \in BOOLEAN, NEW right \in BOOLEAN,
         ndo_open_post(t, ok, right)
  PROVE  IInv'
<1>1. entry[t].fn = "open" /\ call[t] = NONE
  BY DEF ndo_open_post, Inside
<1>2. faults' \in 0 .. MaxFaults /\ (faults' = 0 => faults = 0 /\ right)
  BY KindsAssumption DEF ndo_open_post, Judge, IInv, TypeOK
<1>3. CASE ~right /\ Kill(FALSE)
  <2>1. faults' > 0
    BY <1>2, <1>3, KindsAssumption
  <2> QED
    BY <1>2, <1>3, <2>1, Stopped
<1>5. CASE Kill(TRUE)
  <2>1. UNCHANGED <<checks, thread, kernel>> /\ path' = "known"
    BY <1>5 DEF Kill
  <2> QED
    BY <1>2, <2>1, Still
<1>4. CASE /\ opened' = IF ok THEN "CALLED_OK" ELSE "CALLED_FAILED"
           /\ kopen' = ok /\ LeaveDriver(t)
           /\ UNCHANGED <<state, register_netdev, unregister_netdev, rx, net, enabled, carrier>>
           /\ UNCHANGED <<module, kreg, kdev, knet, kenabled>>
  <2> USE DEF state, LeaveDriver
  <2>1. /\ entry'[t].fn = "out" /\ entry'[t].bus = NONE
        /\ \A u \in Threads : u # t => entry'[u] = entry[u]
        /\ entry' \in [Threads -> [fn: Entries, bus: Kinds \cup {NONE}]]
    BY <1>4, Leaves DEF IInv
  <2>2. EntryInv'
    BY <1>4, <2>1, LeaveEntry DEF IInv
  <2>3. ProbeInv'
    BY <1>2, <1>4, ProbeFrame DEF IInv
  <2>4. OpenInv' /\ opened' \in CallState
    BY <1>1, <1>4, <2>1 DEF IInv, OpenInv, CallState
  <2> QED
    BY <1>1, <1>2, <1>4, <2>1, <2>2, <2>3, <2>4, EntryStep DEF IInv, TypeOK
<1> QED
  BY <1>3, <1>4, <1>5 DEF ndo_open_post

LEMMA StopPostInv ==
  ASSUME IInv, path = "running", NEW t \in Threads, NEW right \in BOOLEAN, ndo_stop_post(t, right)
  PROVE  IInv'
<1>1. entry[t].fn = "stop" /\ call[t] = NONE
  BY DEF ndo_stop_post, Inside
<1>2. faults' \in 0 .. MaxFaults /\ (faults' = 0 => faults = 0 /\ right)
  BY KindsAssumption DEF ndo_stop_post, Judge, IInv, TypeOK
<1>3. CASE ~right /\ Kill(FALSE)
  <2>1. faults' > 0
    BY <1>2, <1>3, KindsAssumption
  <2> QED
    BY <1>2, <1>3, <2>1, Stopped
<1>4. CASE /\ kopen' = FALSE /\ LeaveDriver(t)
           /\ UNCHANGED <<checks, module, kreg, kdev, knet, kenabled>>
  <2> USE DEF checks, state, ndo, LeaveDriver
  <2>1. /\ entry'[t].fn = "out" /\ entry'[t].bus = NONE
        /\ \A u \in Threads : u # t => entry'[u] = entry[u]
        /\ entry' \in [Threads -> [fn: Entries, bus: Kinds \cup {NONE}]]
    BY <1>4, Leaves DEF IInv
  <2>2. EntryInv'
    BY <1>4, <2>1, LeaveEntry DEF IInv
  <2>3. ProbeInv'
    BY <1>2, <1>4, ProbeFrame DEF IInv
  <2>4. OpenInv'
    BY <1>1, <1>4, <2>1 DEF IInv, OpenInv
  <2> QED
    BY <1>1, <1>2, <1>4, <2>1, <2>2, <2>3, <2>4, EntryStep DEF IInv, TypeOK
<1> QED
  BY <1>3, <1>4 DEF ndo_stop_post

LEMMA XmitPostInv ==
  ASSUME IInv, path = "running", NEW t \in Threads, ndo_start_xmit_post(t)
  PROVE  IInv'
<1> USE DEF state, ndo, kernel, LeaveDriver
<1>1. /\ entry[t].fn = "xmit" /\ call[t] = NONE
      /\ carrier' = "off" /\ LeaveDriver(t) /\ UNCHANGED <<state, ndo, kernel, faults>>
      /\ faults \in 0 .. MaxFaults
  BY DEF ndo_start_xmit_post, Inside, IInv, TypeOK
<1>2. /\ entry'[t].fn = "out" /\ entry'[t].bus = NONE
      /\ \A u \in Threads : u # t => entry'[u] = entry[u]
      /\ entry' \in [Threads -> [fn: Entries, bus: Kinds \cup {NONE}]]
  BY <1>1, Leaves DEF IInv
<1>3. EntryInv'
  BY <1>1, <1>2, LeaveEntry DEF IInv
<1>4. ProbeInv'
  BY <1>1, ProbeFrame DEF IInv
<1>5. OpenInv'
  BY <1>1, <1>2 DEF IInv, OpenInv
<1> QED
  BY <1>1, <1>2, <1>3, <1>4, <1>5, EntryStep DEF IInv, TypeOK

-----------------------------------------------------------------------------
(* The first state.                                                        *)
LEMMA InitInv == Init => IInv
<1> SUFFICES ASSUME Init PROVE IInv
  OBVIOUS
<1> USE DEF Init
<1>1. TypeOK
  <2>1. /\ registered \in [Kinds -> CallState] /\ unregistered \in [Kinds -> CallState]
        /\ probed \in [Kinds -> CallState] /\ rx \in [RxCalls -> CallState]
        /\ {register_netdev, unregister_netdev, opened} \subseteq CallState /\ enabled \in DeviceState
    BY DEF CallState, DeviceState
  <2>2. entry \in [Threads -> [fn: Entries, bus: Kinds \cup {NONE}]]
    BY DEF Entries, Out
  <2>3. /\ call \in [Threads -> Call \cup {NONE}] /\ faults \in 0 .. MaxFaults
        /\ kdev \in [Kinds -> Device]
        /\ carrier \in {"off", "armed", "called_before"}
    BY KindsAssumption
  <2> QED
    BY <2>1, <2>2, <2>3 DEF TypeOK
<1>2. EntryInv /\ CallInv
  BY DEF EntryInv, EntryOK, Alone, CallInv, CallOK, Out
<1>3. RegInv
  <2> SUFFICES ASSUME NEW b \in Kinds PROVE KindInv(b)
    BY DEF RegInv
  <2>1. Added(b) = {} /\ Removed(b) = {} /\ \A t \in Threads : ~OnDriver(t, b) /\ ~Doing(t, "register", b)
    BY DEF Added, Removed, OnDriver, Doing
  <2>2. SerialInv(b)
    BY <2>1 DEF SerialInv, Idle, OnDriver
  <2>3. LooseInv(b)
    BY <2>1, FS_EmptySet DEF LooseInv, One
  <2> QED
    BY <2>2, <2>3 DEF KindInv
<1>4. NetInv /\ DevInv /\ RxInv /\ ProbeInv /\ OpenInv
  BY KindsAssumption DEF NetInv, OnNet, DevInv, OnDevice, RxInv, Doing, ProbeInv, OpenInv, Out
<1> QED
  BY <1>1, <1>2, <1>3, <1>4 DEF IInv, NoFalseAlarm

(* Every step.                                                             *)
LEMMA NextInv == IInv /\ [Next]_vars => IInv'
<1> SUFFICES ASSUME IInv, [Next]_vars PROVE IInv'
  OBVIOUS
<1>1. CASE UNCHANGED vars
  BY <1>1, Still DEF vars, IInv, TypeOK, NoFalseAlarm
<1>2. ASSUME path = "running", NEW t \in Threads, DriverCall(t) PROVE IInv'
  BY <1>2, RegisterPreInv, RegisterPostInv, UnregisterPreInv, UnregisterPostInv, EnablePreInv, EnablePostInv,
    DisablePreInv, DisablePostInv, RegisterNetdevPreInv, RegisterNetdevPostInv, UnregisterNetdevPreInv,
    UnregisterNetdevPostInv, CarrierInv, RxPreInv, RxPostInv DEF DriverCall
<1>3. ASSUME path = "running", NEW t \in Threads, KernelCall(t) PROVE IInv'
  BY <1>3, KernelRegisterInv, KernelEnableInv, KernelRegisterNetdevInv, KernelUnregisterInv, KernelDisableInv,
    KernelUnregisterNetdevInv DEF KernelCall
<1>4. ASSUME path = "running", NEW t \in Threads, EntryPoint(t) PROVE IInv'
  BY <1>4, InitModuleInv, InitModulePostInv, CleanupModulePostInv, ProbePreInv, ProbePostInv, RemoveInv,
    RemovePostInv, SuspendInv, SuspendPostInv, OpenPreInv, OpenPostInv, StopXmitPreInv, StopPostInv, XmitPostInv DEF EntryPoint
<1> QED
  BY <1>1, <1>2, <1>3, <1>4 DEF Next

(* The invariant holds in every reachable state.                           *)
THEOREM Invariance == Spec => []IInv
BY InitInv, NextInv, PTL DEF Spec

(* What the framework records of the drivers and of the devices is what    *)
(* the kernel has, whatever the driver does (set_call_state,               *)
(* set_driver_bus, set_device_state).                                      *)
THEOREM RecordsAgree == Spec => []StateAgrees
<1>1. IInv => RegistrationAgrees
  <2> SUFFICES ASSUME IInv, NEW b \in Kinds, ~Making("register", b), ~Making("unregister", b)
               PROVE  IF b \in StrictKinds
                        THEN (registered[b] = "CALLED_OK" <=> b \in kreg) /\ (b \in kreg => b \in bus)
                        ELSE b \in bus <=> b \in kreg
    BY DEF RegistrationAgrees
  <2>1. KindInv(b) /\ \A t \in Threads : ~OnDriver(t, b)
    BY DEF IInv, RegInv, Making, OnDriver, Doing
  <2>2. CASE b \in StrictKinds
    BY <2>1, <2>2 DEF KindInv, Serial, SerialInv, Idle
  <2>3. CASE b \notin StrictKinds
    <3>1. Added(b) = {} /\ Removed(b) = {}
      BY <2>1 DEF Added, Removed, OnDriver
    <3>2. One(b \in kreg) = One(b \in bus)
      BY <2>1, <2>3, <3>1, FS_EmptySet DEF KindInv, LooseInv, One
    <3> QED
      BY <2>3, <3>2 DEF One
  <2> QED
    BY <2>2, <2>3
<1>2. IInv => DeviceAgrees
  <2> SUFFICES ASSUME IInv PROVE DeviceAgrees
    OBVIOUS
  <2>1. ASSUME ~Making("unregister_netdev", NONE), \A b \in Kinds : ~Making("register_netdev", b)
        PROVE  register_netdev = "CALLED_OK" <=> knet # NONE
    <3>1. \A t \in Threads : ~OnNet(t)
      BY <2>1, NetOne DEF Making, OnNet
    <3> QED
      BY <3>1 DEF IInv, NetInv
  <2>2. ASSUME ~Making("enable", "pci"), ~Making("disable", "pci")
        PROVE  enabled = "ENABLED" <=> kenabled
    <3>1. \A t \in Threads : ~OnDevice(t)
      BY <2>2, DeviceCall DEF Making, OnDevice
    <3> QED
      BY <3>1 DEF IInv, DevInv
  <2>3. ASSUME NEW t \in Threads, Pending(t, "unregister_netdev") PROVE knet # NONE
    <3>1. OnNet(t)
      BY <2>3 DEF Pending, OnNet
    <3> QED
      BY <2>3, <3>1, NetOne, KindsAssumption DEF Pending, InUnregisterNetdev
  <2> QED
    BY <2>1, <2>2, <2>3 DEF DeviceAgrees
<1> QED
  BY <1>1, <1>2, Invariance, PTL DEF StateAgrees, IInv

(* What the checks of a strict kind let through is safe: the driver is     *)
(* unregistered only if the kernel has it, registered only if it has not,  *)
(* and by one thread at a time (the calls of set_call_state in             *)
(* __pci_register_driver_check, usb_deregister_check and the like).        *)
THEOREM StrictCallsAreSafe == Spec => []StrictCallsSafe
<1>1. IInv => StrictCallsSafe
  <2> SUFFICES ASSUME IInv, NEW t \in Threads, Pending(t, "register") \/ Pending(t, "unregister"),
                      NEW b, b = call[t].bus, b \in StrictKinds
               PROVE  /\ call[t].fn = "unregister" <=> b \in kreg
                      /\ \A u \in Threads \ {t} : call[u] # NONE /\ call[u].bus = b =>
                           call[u].fn \notin {"register", "unregister"}
    BY DEF StrictCallsSafe
  <2>1. OnDriver(t, b) /\ call[t].ret = "pending" /\ call[t] # NONE
    BY DEF Pending, OnDriver, Doing
  <2>2. b \in Kinds
    BY <2>1 DEF IInv, CallInv, CallOK, OnDriver, Doing
  <2>3. SerialInv(b)
    BY <2>2 DEF IInv, RegInv, KindInv, Serial
  <2>4. call[t].fn = "unregister" <=> b \in kreg
    BY <2>1, <2>3 DEF SerialInv, OnDriver, Doing, InRegister, InUnregister
  <2>5. \A u \in Threads : OnDriver(u, b) => u = t
    BY <2>1, <2>3 DEF SerialInv
  <2> QED
    BY <2>4, <2>5 DEF OnDriver, Doing
<1> QED
  BY <1>1, Invariance, PTL

(* The same for the devices: the kernel enables a device that is disabled, *)
(* disables one that is enabled and registers a net device when it has     *)
(* none (the checks of pci_enable_device, pci_disable_device and           *)
(* register_netdev).                                                       *)
DeviceCallsSafe ==
  \A t \in Threads :
    /\ Pending(t, "enable") => ~kenabled
    /\ Pending(t, "disable") => kenabled
    /\ Pending(t, "register_netdev") => knet = NONE

(* The checks of pci_enable_device, pci_disable_device and register_netdev *)
(* let no such call through, whatever the driver has done before and       *)
(* however many threads it runs on.                                        *)
THEOREM DeviceCallsAreSafe == Spec => []DeviceCallsSafe
<1>1. IInv => DeviceCallsSafe
  <2> SUFFICES ASSUME IInv, NEW t \in Threads
               PROVE  /\ Pending(t, "enable") => ~kenabled
                      /\ Pending(t, "disable") => kenabled
                      /\ Pending(t, "register_netdev") => knet = NONE
    BY DEF DeviceCallsSafe
  <2>1. Pending(t, "enable") => ~kenabled
    BY DeviceCall DEF Pending, OnDevice, InEnable
  <2>2. Pending(t, "disable") => kenabled
    BY DeviceCall DEF Pending, OnDevice, InDisable
  <2>3. Pending(t, "register_netdev") => knet = NONE
    BY NetOne DEF Pending, OnNet, InRegisterNetdev
  <2> QED
    BY <2>1, <2>2, <2>3
<1> QED
  BY <1>1, Invariance, PTL

(* No legal call is stopped, in any order of the threads, but where the    *)
(* model marks what the checks of the code stop by design.                 *)
THEOREM NoLegalCallStopped == Spec => []NoFalseAlarm
<1>1. IInv => NoFalseAlarm
  BY DEF IInv
<1> QED
  BY <1>1, Invariance, PTL
=============================================================================
