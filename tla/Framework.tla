----------------------------- MODULE Framework -----------------------------
(***************************************************************************)
(* The framework module as a whole (gtf/init_module.c, Linux build): it    *)
(* brings its parts up in order, panics if one of them fails, is used by a *)
(* driver and by a user's tests, and takes the parts down again.  Composes *)
(* Buses and EntryTests; the other parts have modules of their own, and    *)
(* appear here as names.                                                   *)
(***************************************************************************)
EXTENDS EntryTests

VARIABLES
  up,     \* parts that are initialised
  phase   \* "loading", "loaded", "unloading", "unloaded"

vars == <<busVars, testVars, up, phase>>

(* init_common, then linux_init *)
InitOrder == <<"global_lock", "function_tracker", "driver_state", "irqs", "enter_exit",
               "ep", "ep_control", "platform", "i2c", "spi">>
Parts == {InitOrder[i] : i \in DOMAIN InitOrder}
BusParts == {"platform", "i2c", "spi"}

(* Mutant: the lock goes before the tracker that takes it to be freed.     *)
FreeOrderLockFirst == <<"spi", "i2c", "platform", "ep_control", "enter_exit", "irqs",
                        "driver_state", "global_lock", "function_tracker">>

(* linux_cleanup, then cleanup_common.  Nothing frees ep.                  *)
FreeOrder == <<"spi", "i2c", "platform", "ep_control", "enter_exit", "irqs",
               "driver_state", "function_tracker", "global_lock">>

(* What each part calls: function_tracker takes the lock even to be freed, *)
(* an assertion of irqs prints what driver_state tracks, enter_exit calls  *)
(* the interrupt handlers, the control device runs the tests.              *)
Uses == [p \in Parts |->
  IF p = "function_tracker" THEN {"global_lock"}
  ELSE IF p = "irqs" THEN {"driver_state"}
  ELSE IF p = "enter_exit" THEN {"global_lock", "driver_state", "irqs"}
  ELSE IF p = "ep_control" THEN {"ep", "driver_state"} ELSE {}]

TypeOK == BusTypeOK /\ TestTypeOK /\ up \subseteq Parts
            /\ phase \in {"loading", "loaded", "unloading", "unloaded"}

Init == BusInit /\ TestInit /\ up = {} /\ phase = "loading"

-----------------------------------------------------------------------------
(* The next part to initialise, or to free.                                *)
Initialise(p) ==
  /\ phase = "loading"
  /\ \E i \in DOMAIN InitOrder : InitOrder[i] = p /\ up = {InitOrder[j] : j \in 1 .. i - 1}
  /\ \/ p \notin BusParts /\ UNCHANGED <<busState, path>>
     \/ p \notin BusParts \cup {"ep"} /\ path' = "init panic" /\ UNCHANGED busState
     \/ p = "platform" /\ initialize_platform_device
     \/ p = "i2c" /\ initialize_i2c_device
     \/ p = "spi" /\ initialize_spi_device
  /\ up' = IF path' = "running" THEN up \cup {p} ELSE up
  /\ UNCHANGED <<params, cards, testVars, phase>>

Loaded ==
  /\ phase = "loading" /\ up = Parts
  /\ phase' = "loaded"
  /\ UNCHANGED <<busVars, testVars, up>>

(* rmmod: not while a driver uses the framework's symbols, nor while the   *)
(* control device is open.                                                 *)
Unload ==
  /\ phase = "loaded" /\ Idle /\ netdevs = {}
  /\ phase' = "unloading"
  /\ UNCHANGED <<busVars, testVars, up>>

Free(p) ==
  /\ phase = "unloading"
  /\ \E i \in DOMAIN FreeOrder :
       FreeOrder[i] = p /\ up = {"ep"} \cup {FreeOrder[j] : j \in i .. Len(FreeOrder)}
  /\ \/ p \notin BusParts /\ UNCHANGED <<busState, path>>
     \/ p = "platform" /\ free_platform_device
     \/ p = "i2c" /\ free_i2c_device
     \/ p = "spi" /\ free_spi_device
  /\ up' = IF path' = "running" THEN up \ {p} ELSE up
  /\ UNCHANGED <<params, cards, testVars, phase>>

Unloaded ==
  /\ phase = "unloading" /\ up = {"ep"}
  /\ phase' = "unloaded"
  /\ up' = {}
  /\ UNCHANGED <<busVars, testVars>>

(* A driver can be loaded once the framework is.                           *)
DriverStep ==
  /\ phase = "loaded"
  /\ \/ \E b \in PMBuses, d \in Drivers : RegisterDriver(b, d) \/ UnregisterDriver(b, d)
     \/ \E b \in PMBuses : RegisterDriverReturns(b)
     \/ \E b \in PMBuses, d \in Drivers : \E v \in Devices[b] : Probe(b, d, v)
     \/ \E b \in PMBuses, ok \in BOOLEAN : ProbeReturns(b, ok)
     \/ \E n \in Netdevs : register_netdev(n) \/ unregister_netdev(n)
  /\ UNCHANGED <<params, busState, cards, driver_bus, test, device_irq_disabled, up, phase>>

(* The control device answers as soon as it is registered, the buses may   *)
(* not be there yet.                                                       *)
TestStep ==
  /\ "ep_control" \in up
  /\ phase # "unloading"
  /\ \E cat \in {"ethtool", "pci", "i2c", "snd"}, id \in Args : ep_test_generic(cat, id)
  /\ UNCHANGED <<params, busState, cards, driver_bus, up, phase>>

(* The driver of a chip, and from its probe on, talks to it.               *)
HasDriver(v) == bound[v] # NONE \/ (probing["i2c"] # NONE /\ probing["i2c"].dev = v)

Transfer ==
  /\ \E i \in Entries, p \in Protocols : HasDriver(Client(i)) /\ stub_xfer(i, p)
  /\ UNCHANGED <<testVars, up, phase>>

Next ==
  /\ path = "running"
  /\ \/ \E p \in Parts : Initialise(p) \/ Free(p)
     \/ Loaded \/ Unload \/ Unloaded
     \/ DriverStep \/ TestStep \/ Transfer
     \/ Hotplug /\ UNCHANGED <<testVars, up, phase>>

Spec == Init /\ [][Next]_vars

-----------------------------------------------------------------------------
(* A part is initialised only while those it uses are: cleanup_common      *)
(* takes down in reverse what init_common builds up.                       *)
UsesInitialised == \A p \in up : Uses[p] \subseteq up

(* All buses share one card and one PCI driver, so the framework never     *)
(* comes up with two of them: initialize_pci_device panics in the second.  *)
OneBus == phase # "loading" => Cardinality(params.enabled) <= 1

(* The shape of the framework at every step of linux_init and              *)
(* linux_cleanup, whichever call fails.                                    *)
WellFormed == TypeOK /\ UsesInitialised /\ OneBus

(* i2c comes up with all the chips or with none, whichever device the      *)
(* kernel refuses (alloc_devices), and every client the kernel holds is    *)
(* one the framework will take back and one that stub_xfer answers.        *)
AllChipsOrNone ==
  /\ {i \in Entries : i2c_private.client[i]} \in {Chips, {}}
  /\ \A i \in Entries : Client(i) \in kernel <=> i2c_private.client[i]
  /\ \A i \in Entries : Client(i) \in kernel => stub_xfer_finds(params.g_i2c_chip_addr[i])

(* What was given to the kernel has been taken back when the module is     *)
(* gone; and to take it back panics only when the card has been changed    *)
(* under it.                                                               *)
NothingLeft ==
  /\ phase = "unloaded" => kernel = {} /\ spi_private.refs = 0 /\ pci_cur_device = NONE
  /\ path = "free panic" => hotplugs > 0
=============================================================================
