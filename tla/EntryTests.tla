----------------------------- MODULE EntryTests -----------------------------
(***************************************************************************)
(* The entry-point tests: gtf/testing_ep.c, which calls functions of the   *)
(* driver by number, and gtf/testing_ep_control.c and                      *)
(* gtf/app_ep_control.c, through which a user asks for them.               *)
(*                                                                         *)
(* The checks of the registration functions and of probe record in         *)
(* ep_state what the tests are run on (what else those checks do is in     *)
(* module Registration).  The records are never taken back.  The i2c       *)
(* clients a driver is given are those of module Buses.                    *)
(***************************************************************************)
EXTENDS Buses, Sequences

CONSTANTS
  Drivers,      \* driver structures the module under test may register
  WithPM,       \* those that define suspend and resume
  PciDevs, Netdevs,
  WithEthtool,  \* net devices with ethtool_ops
  Args          \* test numbers a user asks for

VARIABLE driver_bus   \* the bus of the module under test, the same all along

ASSUME TestAssumption ==
  /\ WithPM \subseteq Drivers /\ WithEthtool \subseteq Netdevs /\ Args \subseteq Int
  /\ NONE \notin Drivers \cup Netdevs

PMBuses == {"pci", "i2c"}
Devices == [pci |-> {<<"pci_dev", v>> : v \in PciDevs}, i2c |-> {Client(i) : i \in Entries}]
AllDevices == Devices.pci \cup Devices.i2c

VARIABLES
  ep_state,    \* net_dev, and the driver and the device of each bus
  registered,  \* the kernel's drivers of each bus
  calling,     \* a registration in flight, and whether it will be accepted
  probing,     \* a probe in flight: the driver and the device
  bound,       \* the driver of each device
  netdevs,     \* registered net devices
  second,      \* buses a second driver has been registered on
  test,        \* the test asked for
  device_irq_disabled

driverVars == <<registered, calling, probing, bound, netdevs, second>>
testVars == <<driver_bus, ep_state, driverVars, test, device_irq_disabled>>

TestTypeOK ==
  /\ driver_bus \in PMBuses
  /\ ep_state \in [net_dev : Netdevs \cup {NONE}, drv : [PMBuses -> Drivers \cup {NONE}],
                   dev : [PMBuses -> AllDevices \cup {NONE}]]
  /\ registered \in [PMBuses -> SUBSET Drivers]
  /\ bound \in [AllDevices -> Drivers \cup {NONE}]
  /\ netdevs \subseteq Netdevs
  /\ second \subseteq PMBuses
  /\ device_irq_disabled \in BOOLEAN

(* initialize_ep clears ep_state. *)
TestInit ==
  /\ driver_bus \in PMBuses
  /\ ep_state = [net_dev |-> NONE, drv |-> [b \in PMBuses |-> NONE], dev |-> [b \in PMBuses |-> NONE]]
  /\ registered = [b \in PMBuses |-> {}]
  /\ calling = [b \in PMBuses |-> NONE]
  /\ probing = [b \in PMBuses |-> NONE]
  /\ bound = [v \in AllDevices |-> NONE]
  /\ netdevs = {} /\ second = {}
  /\ test = NONE
  /\ device_irq_disabled = FALSE

Idle == \A b \in PMBuses : registered[b] = {} /\ calling[b] = NONE /\ probing[b] = NONE

(* A check stops the path: module Registration says when it is right to.   *)
Killed == path' = "killed" /\ UNCHANGED <<ep_state, driverVars>>

-----------------------------------------------------------------------------
(* What the checks tell the tests.                                         *)
ep_init_net(n) == ep_state' = [ep_state EXCEPT !.net_dev = n]

(* Mutant: the driver is recorded although the kernel refused it.          *)
ep_init_driver_always(b, d, ok) == ep_state' = [ep_state EXCEPT !.drv[b] = d]

(* ep_init_pci_driver, ep_init_i2c_driver: after a successful call.        *)
ep_init_driver(b, d, ok) ==
  ep_state' = IF ok THEN [ep_state EXCEPT !.drv[b] = d] ELSE ep_state

(* ep_init_pci_dev, ep_init_i2c_client: before the driver's probe runs.    *)
ep_init_dev(b, v) == ep_state' = [ep_state EXCEPT !.dev[b] = v]

(* __pci_register_driver and i2c_add_driver.  A second driver is not let   *)
(* through on PCI.                                                         *)
RegisterDriver(b, d) ==
  /\ b = driver_bus
  /\ calling[b] = NONE /\ d \notin registered[b]
  /\ \/ b = "pci" /\ registered[b] # {} /\ Killed
     \/ /\ b = "pci" => registered[b] = {}
        /\ \E ok \in BOOLEAN : calling' = [calling EXCEPT ![b] = [drv |-> d, ok |-> ok]]
        /\ UNCHANGED <<ep_state, registered, probing, bound, netdevs, second, path>>

RegisterDriverReturns(b) ==
  /\ calling[b] # NONE /\ probing[b] = NONE
  /\ LET c == calling[b] IN
     /\ registered' = [registered EXCEPT ![b] = IF c.ok THEN @ \cup {c.drv} ELSE @]
     /\ second' = IF c.ok /\ registered[b] # {} THEN second \cup {b} ELSE second
     /\ ep_init_driver(b, c.drv, c.ok)
  /\ calling' = [calling EXCEPT ![b] = NONE]
  /\ UNCHANGED <<probing, bound, netdevs, path>>

(* The drivers the kernel may offer a device to.                           *)
Known(b) == registered[b] \cup (IF calling[b] # NONE /\ calling[b].ok THEN {calling[b].drv} ELSE {})

Probe(b, d, v) ==
  /\ d \in Known(b) /\ probing[b] = NONE /\ bound[v] = NONE
  /\ b = "i2c" => v \in kernel
  /\ \/ b = "pci" /\ ep_state.dev[b] # NONE /\ Killed   \* probed before
     \/ /\ b = "pci" => ep_state.dev[b] = NONE
        /\ ep_init_dev(b, v)
        /\ probing' = [probing EXCEPT ![b] = [drv |-> d, dev |-> v]]
        /\ UNCHANGED <<registered, calling, bound, netdevs, second, path>>

ProbeReturns(b, ok) ==
  /\ probing[b] # NONE
  /\ bound' = IF ok THEN [bound EXCEPT ![probing[b].dev] = probing[b].drv] ELSE bound
  /\ probing' = [probing EXCEPT ![b] = NONE]
  /\ UNCHANGED <<ep_state, registered, calling, netdevs, second, path>>

(* pci_unregister_driver, i2c_del_driver: the devices lose their driver.   *)
UnregisterDriver(b, d) ==
  /\ d \in registered[b] /\ calling[b] = NONE /\ probing[b] = NONE
  /\ registered' = [registered EXCEPT ![b] = @ \ {d}]
  /\ bound' = [v \in AllDevices |-> IF v \in Devices[b] /\ bound[v] = d THEN NONE ELSE bound[v]]
  /\ UNCHANGED <<ep_state, calling, probing, netdevs, second, path>>

register_netdev(n) ==
  /\ n \notin netdevs
  /\ netdevs' = netdevs \cup {n}
  /\ ep_init_net(n)
  /\ UNCHANGED <<registered, calling, probing, bound, second, path>>

unregister_netdev(n) ==
  /\ n \in netdevs
  /\ netdevs' = netdevs \ {n}
  /\ UNCHANGED <<ep_state, registered, calling, probing, bound, second, path>>

-----------------------------------------------------------------------------
(* enum symdrive_TEST_CASE_ETHTOOL: what each number stands for; the last  *)
(* four are obsolete.                                                      *)
Obsolete == <<"self_test_count", "get_stats_count", "get_rxhash", "set_rxhash">>
symdrive_TEST_CASE_ETHTOOL ==
  <<"get_settings", "set_settings", "get_drvinfo", "get_regs_len", "get_regs", "get_wol", "set_wol",
    "get_msglevel", "set_msglevel", "nway_reset", "get_link", "get_eeprom_len", "get_eeprom",
    "set_eeprom", "get_coalesce", "set_coalesce", "get_ringparam", "set_ringparam",
    "get_pauseparam", "set_pauseparam", "get_rx_csum", "set_rx_csum", "get_tx_csum", "set_tx_csum",
    "get_sg", "set_sg", "get_tso", "set_tso", "self_test", "get_strings", "set_phys_id",
    "get_ethtool_stats", "begin", "complete", "get_ufo", "set_ufo", "get_flags", "set_flags",
    "get_priv_flags", "set_priv_flags", "get_sset_count">> \o Obsolete

(* initialize_ep: the functions in the order they are put into the array,  *)
(* after test_start at 0; what is not filled is a null pointer.            *)
ethtool_fn_array ==
  <<"get_settings", "set_settings", "get_drvinfo", "get_regs_len", "get_regs", "get_wol", "set_wol",
    "get_msglevel", "set_msglevel", "nway_reset", "get_link", "get_eeprom_len", "get_eeprom",
    "set_eeprom", "get_coalesce", "set_coalesce", "get_ringparam", "set_ringparam",
    "get_pauseparam", "set_pauseparam", "get_rx_csum", "set_rx_csum", "get_tx_csum", "set_tx_csum",
    "get_sg", "set_sg", "get_tso", "set_tso", "self_test", "get_strings", "set_phys_id",
    "get_ethtool_stats", "begin", "complete", "get_ufo", "set_ufo", "get_flags", "set_flags",
    "get_priv_flags", "set_priv_flags", "get_sset_count", "test_end">>
pm_fn_array == <<"suspend", "resume", "test_end">>

(* Mutant: the array is filled from entry 1 of the enumeration on.         *)
fn_array_shifted(cat, id) ==
  LET a == IF cat = "ethtool" THEN ethtool_fn_array ELSE pm_fn_array IN
  IF id + 1 \in DOMAIN a THEN a[id + 1] ELSE NONE

fn_array(cat, id) ==
  LET a == IF cat = "ethtool" THEN ethtool_fn_array ELSE pm_fn_array IN
  IF id \in DOMAIN a THEN a[id] ELSE NONE

(* The cases of a category, without BEGIN and END.                         *)
Cases(cat) ==
  IF cat = "ethtool" THEN symdrive_TEST_CASE_ETHTOOL
  ELSE IF cat = "snd" THEN <<>> ELSE <<"suspend", "resume">>

(* The path ends after a test, whatever the test did.                      *)
Ends(how, cat, id, ran, on) ==
  /\ path' = how
  /\ test' = [cat |-> cat, id |-> id, ran |-> ran, on |-> on]

(* ETHTOOL_BASIC_CALL looks before it uses the device, ETHTOOL_CALL2 does  *)
(* not; some cases fill memory they have not checked.                      *)
BasicCalls ==
  {"get_regs_len", "get_regs", "get_msglevel", "nway_reset", "get_link", "get_eeprom_len",
   "get_eeprom", "set_eeprom", "get_rx_csum", "get_tx_csum", "get_sg", "get_tso", "self_test",
   "get_strings", "get_ethtool_stats", "begin", "complete", "get_ufo", "get_flags", "get_priv_flags"}
Filled == {"set_eeprom", "self_test", "get_strings", "get_ethtool_stats"}

EthtoolCall(id, f) ==
  LET n == ep_state.net_dev IN
  \/ f \in Filled /\ Ends("oops", "ethtool", id, "no memory", NONE)
  \/ n \notin WithEthtool /\ Ends(IF f \in BasicCalls THEN "assert" ELSE "oops", "ethtool", id, f, n)
  \/ n \in WithEthtool /\ Ends("victory", "ethtool", id, f, n)

(* pci_suspend, pci_resume, i2c_suspend, i2c_resume *)
PMCall(b, id, f) ==
  LET drv == ep_state.drv[b]  dev == ep_state.dev[b] IN
  \/ NONE \in {drv, dev} /\ Ends("assert", b, id, f, NONE)
  \/ /\ NONE \notin {drv, dev}
     /\ Ends(IF drv \in WithPM THEN "victory" ELSE "oops", b, id, f, [drv |-> drv, dev |-> dev])

(* The array entry is called.                                              *)
CallTest(cat, id) ==
  LET f == fn_array(cat, id) IN
  \/ f = NONE /\ Ends("oops", cat, id, NONE, NONE)
  \/ f = "test_end" /\ Ends("victory", cat, id, f, NONE)
  \/ f \notin {NONE, "test_end"} /\ cat = "ethtool" /\ EthtoolCall(id, f)
  \/ f \notin {NONE, "test_end"} /\ cat \in PMBuses /\ PMCall(cat, id, f)

(* test_ethtool, test_pci_pm, test_i2c_pm of app_ep_control, then          *)
(* ep_control_ioctl, ep_test and ep_test_generic: a number out of range    *)
(* stops the path, BEGIN forks one path for each case and one that is      *)
(* killed for all the other numbers.                                       *)
ep_test_generic(cat, fn_id) ==
  /\ device_irq_disabled' = (cat = "ethtool")
  /\ \/ cat = "snd" /\ path' = "assert" /\ UNCHANGED test
     \/ /\ cat # "snd" /\ fn_id \notin 0 .. Len(Cases(cat))
        /\ path' = "assert" /\ UNCHANGED test
     \/ cat # "snd" /\ fn_id = 0 /\ path' = "extra" /\ UNCHANGED test
     \/ \E id \in DOMAIN Cases(cat) : fn_id \in {0, id} /\ CallTest(cat, id)
  /\ UNCHANGED <<ep_state, driverVars>>

-----------------------------------------------------------------------------
(* A test that calls the driver calls the function that the enumeration in *)
(* testing_ep.h names by that number, although the array in testing_ep.c   *)
(* is filled by position; the obsolete numbers call nothing, or a null     *)
(* pointer (initialize_ep, ep_test_generic).                               *)
RightFunction ==
  test # NONE /\ path \in {"victory", "assert", "oops"} =>
    \/ test.ran \in {Cases(test.cat)[test.id], "no memory"}
    \/ test.id > Len(Cases(test.cat)) - Len(Obsolete) /\ test.cat = "ethtool" /\ test.on = NONE

(* A power-management test calls a driver with a device of its own, or     *)
(* with one that has no driver (its probe failed, or the driver is gone);  *)
(* never with another driver's.  The exceptions: a registration in flight, *)
(* and a bus on which the module has registered two drivers                *)
(* (ep_init_pci_driver, ep_init_pci_dev and their i2c twins).              *)
RightPair ==
  \A b \in PMBuses :
    (test # NONE /\ test.cat = b /\ path = "victory" /\ test.on # NONE) =>
      \/ calling[b] # NONE \/ b \in second
      \/ bound[test.on.dev] \in {test.on.drv, NONE}
=============================================================================
