-------------------------- MODULE FrameworkProofs --------------------------
(***************************************************************************)
(* Proofs about the framework module: its parts are up while they are used *)
(* and at most one bus is (WellFormed), i2c comes up with all the chips or *)
(* none (AllChipsOrNone), everything is given back to the kernel and a     *)
(* free panics only after the card was changed (NothingLeft), and a test   *)
(* calls the function that its number names (RightFunction), on a driver   *)
(* and a device that belong together (RightPair); for any number of cards, *)
(* chips, drivers and devices, any parameters and any order of             *)
(* hot-plugging.                                                           *)
(*                                                                         *)
(* The inductive invariant has three parts.  Connected accounts for all    *)
(* that the kernel holds: each thing is there because of one of the        *)
(* framework's variables.  Powered ties those variables to the parts that  *)
(* are up.  Recorded says what ep_state may miss of the kernel's drivers   *)
(* and devices.                                                            *)
(***************************************************************************)
EXTENDS Framework, FiniteSetTheorems, TLAPS

USE DEF Kinds

(* The card that each bus believes to be its own. *)
Dev == [b \in Kinds |-> IF b = "platform" THEN platform_private
                        ELSE IF b = "i2c" THEN i2c_private.pdev ELSE spi_private.pdev]

PciDriver == <<"pci_driver">>

(* What the kernel holds. *)
Connected ==
  /\ \A b, d \in Kinds : Dev[b] # NONE /\ Dev[d] # NONE => b = d
  /\ PciDriver \in kernel <=> \E b \in Kinds : Dev[b] # NONE
  /\ pci_cur_device # NONE => PciDriver \in kernel
  /\ \A c \in Cards : Private(c) \in kernel <=> c = pci_cur_device
  /\ <<"platform_device">> \in kernel <=> platform_private # NONE
  /\ <<"i2c_adapter">> \in kernel <=> i2c_private.pdev # NONE
  /\ <<"spi_bus">> \in kernel <=> spi_private.pdev # NONE
  /\ i2c_private.pdev = NONE => i2c_private.client = NoClients
  /\ spi_private.refs = IF spi_private.pdev = NONE THEN 0 ELSE 2
  /\ hotplugs = 0 => \A b \in Kinds : Dev[b] \in {NONE, pci_cur_device}

(* A bus has its card exactly while it is wanted and up. *)
Powered ==
  /\ \A b \in Kinds : Dev[b] # NONE <=> Enabled(b) /\ b \in up
  /\ phase = "unloaded" => up = {}

(* The registrations and probes in flight. *)
InFlight ==
  /\ calling \in [PMBuses -> [drv : Drivers, ok : BOOLEAN] \cup {NONE}]
  /\ probing \in [PMBuses -> [drv : Drivers, dev : AllDevices] \cup {NONE}]

(* What the kernel has on bus b, and what ep_state knows of it. *)
RecordedOn(b) ==
  /\ ep_state.dev[b] \in Devices[b] \cup {NONE}
  /\ probing[b] # NONE => probing[b].drv \in Known(b) /\ probing[b].dev \in Devices[b]
  /\ \A v \in Devices[b] : bound[v] \in Known(b) \cup {NONE}
  /\ b \notin second => registered[b] \subseteq {ep_state.drv[b]}

Recorded == InFlight /\ \A b \in PMBuses : RecordedOn(b)

(* No test has been run while the path goes on. *)
Untested == path = "running" => test = NONE

FreePanics == path = "free panic" => hotplugs > 0

IInv ==
  /\ WellFormed
  /\ Connected /\ AllChipsOrNone /\ FreePanics
  /\ Powered
  /\ Recorded /\ Untested /\ RightFunction /\ RightPair

-----------------------------------------------------------------------------
(* The things that the kernel may hold are different things. *)
LEMMA ThingsDiffer ==
  /\ \A i, j \in Entries : Client(i) = Client(j) => i = j
  /\ \A c, d \in Cards : Private(c) = Private(d) => c = d
  /\ \A i \in Entries, c \in Cards : Client(i) # Private(c)
  /\ \A i \in Entries : Client(i) \notin {PciDriver, <<"platform_device">>, <<"i2c_adapter">>, <<"spi_bus">>}
  /\ \A c \in Cards : Private(c) \notin {PciDriver, <<"platform_device">>, <<"i2c_adapter">>, <<"spi_bus">>}
  /\ PciDriver \notin {<<"platform_device">>, <<"i2c_adapter">>, <<"spi_bus">>}
  /\ <<"platform_device">> \notin {<<"i2c_adapter">>, <<"spi_bus">>}
  /\ <<"i2c_adapter">> # <<"spi_bus">>
BY DEF Client, Private, PciDriver

(* Dev by name. *)
LEMMA DevOf ==
  /\ Dev["platform"] = platform_private
  /\ Dev["i2c"] = i2c_private.pdev
  /\ Dev["spi"] = spi_private.pdev
BY DEF Dev

(* The cards of the buses are cards. *)
LEMMA DevType == BusTypeOK => \A b \in Kinds : Dev[b] \in Cards \cup {NONE}
BY DEF BusTypeOK, Dev

(* What the proofs about the buses carry along. *)
BusInv == BusTypeOK /\ Connected /\ AllChipsOrNone

(* Everything the bus invariants look at stays the same. *)
LEMMA BusUnchanged ==
  ASSUME BusInv, UNCHANGED <<params, cards, busState>>
  PROVE  BusInv' /\ Dev' = Dev
<1>1. Dev' = Dev
  BY DEF Dev, busState
<1>2. Chips' = Chips
  BY DEF Chips
<1>3. BusTypeOK'
  BY DEF BusInv, BusTypeOK, busState, cards
<1>4. Connected'
  BY <1>1 DEF BusInv, Connected, busState, cards
<1>5. AllChipsOrNone'
  BY <1>2 DEF BusInv, AllChipsOrNone, stub_xfer_finds, busState
<1> QED
  BY <1>1, <1>3, <1>4, <1>5 DEF BusInv

(* The third part of AllChipsOrNone follows from the other two: a client   *)
(* stands for a chip, and stub_xfer searches the chips.                    *)
LEMMA ClientsAnswer ==
  ASSUME {i \in Entries : i2c_private.client[i]} \in {Chips, {}},
         \A i \in Entries : Client(i) \in kernel <=> i2c_private.client[i]
  PROVE  AllChipsOrNone
<1>1. ASSUME NEW i \in Entries, Client(i) \in kernel
      PROVE  stub_xfer_finds(params.g_i2c_chip_addr[i])
  <2>1. i \in {j \in Entries : i2c_private.client[j]}
    BY <1>1
  <2>2. i \in Chips
    BY <2>1
  <2> QED
    BY <2>2 DEF stub_xfer_finds
<1> QED
  BY <1>1 DEF AllChipsOrNone

(* Before the PCI driver is registered the buses have nothing. *)
LEMMA NothingYet ==
  ASSUME BusInv, PciDriver \notin kernel
  PROVE  /\ \A b \in Kinds : Dev[b] = NONE
         /\ pci_cur_device = NONE
         /\ kernel = {}
         /\ i2c_private.client = NoClients
         /\ spi_private.refs = 0
<1> USE DEF BusInv
<1>1. \A b \in Kinds : Dev[b] = NONE
  BY DEF Connected
<1>2. platform_private = NONE /\ i2c_private.pdev = NONE /\ spi_private.pdev = NONE
  BY <1>1, DevOf
<1>3. pci_cur_device = NONE
  BY DEF Connected
<1>4. \A c \in Cards : Private(c) \notin kernel
  BY <1>3, CardsAssumption DEF Connected
<1>5. i2c_private.client = NoClients
  BY <1>2 DEF Connected
<1>6. \A i \in Entries : Client(i) \notin kernel
  BY <1>5 DEF AllChipsOrNone, NoClients
<1>7. kernel \subseteq Things
  BY DEF BusTypeOK
<1>8. \A x \in kernel : FALSE
  BY <1>2, <1>4, <1>6, <1>7 DEF Things, Connected, PciDriver
<1>9. kernel = {}
  BY <1>8
<1> QED
  BY <1>1, <1>2, <1>3, <1>5, <1>9 DEF Connected

-----------------------------------------------------------------------------
(* What initialising bus b does to the cards of the buses. *)
Initialises(b) ==
  /\ path' \in {"running", "init panic"}
  /\ \A d \in Kinds \ {b} : Dev'[d] = Dev[d]
  /\ path' = "running" => IF Enabled(b) THEN Dev'[b] # NONE ELSE Dev'[b] = Dev[b]
  /\ path' = "init panic" => Dev'[b] = Dev[b]

(* What freeing it does. *)
Frees(b) ==
  /\ path' \in {"running", "free panic"}
  /\ \A d \in Kinds \ {b} : Dev'[d] = Dev[d]
  /\ path' = "running" => Dev'[b] = IF Enabled(b) THEN NONE ELSE Dev[b]
  /\ path' = "free panic" => Dev'[b] = Dev[b] /\ Enabled(b) /\ (hotplugs = 0 => Dev[b] = NONE)

(* The buses that do not change the clients keep AllChipsOrNone. *)
LEMMA ClientsKept ==
  ASSUME AllChipsOrNone, UNCHANGED <<params, i2c_private>>,
         \A i \in Entries : Client(i) \in kernel' <=> Client(i) \in kernel
  PROVE  AllChipsOrNone'
<1>1. Chips' = Chips
  BY DEF Chips
<1> QED
  BY <1>1 DEF AllChipsOrNone, stub_xfer_finds

(* initialize_platform_device *)
LEMMA InitializePlatform ==
  ASSUME BusInv, path = "running", initialize_platform_device, UNCHANGED <<params, cards>>
  PROVE  BusInv' /\ Initialises("platform")
<1>1. CASE ~Enabled("platform") /\ UNCHANGED <<busState, path>>
  <2>1. BusInv' /\ Dev' = Dev
    BY <1>1, BusUnchanged
  <2> QED
    BY <1>1, <2>1 DEF Initialises
<1>2. CASE Enabled("platform") /\ path' = "init panic" /\ UNCHANGED busState
  <2>1. BusInv' /\ Dev' = Dev
    BY <1>2, BusUnchanged
  <2> QED
    BY <1>2, <2>1 DEF Initialises
<1>3. ASSUME Enabled("platform"), NEW c \in Cards, InitializePci(c), pci_cur_device' = c, platform_private' = c,
             kernel' = kernel \cup PciThings(c) \cup {<<"platform_device">>},
             UNCHANGED <<i2c_private, spi_private, path>>
      PROVE  BusInv' /\ Initialises("platform")
  <2>1. /\ \A b \in Kinds : Dev[b] = NONE
        /\ kernel = {} /\ i2c_private.client = NoClients /\ spi_private.refs = 0
    BY <1>3, NothingYet DEF InitializePci, PciDriver
  <2>2. kernel' = {PciDriver, Private(c), <<"platform_device">>}
    BY <1>3, <2>1 DEF PciThings, PciDriver
  <2>3. Dev'["platform"] = c /\ \A b \in Kinds \ {"platform"} : Dev'[b] = NONE
    BY <1>3, <2>1 DEF Dev
  <2>4. c # NONE
    BY CardsAssumption
  <2>5. BusTypeOK'
    BY <1>3, <2>2 DEF BusInv, BusTypeOK, Things, cards, PciDriver
  <2>6. i2c_private'.pdev = NONE /\ spi_private'.pdev = NONE
    BY <1>3, <2>1, DevOf
  <2>7. Connected'
    BY <1>3, <2>1, <2>2, <2>3, <2>4, <2>6, ThingsDiffer DEF Connected, NoClients
  <2>8. AllChipsOrNone'
    BY <1>3, <2>1, <2>2, ThingsDiffer, ClientsKept DEF BusInv
  <2>9. Initialises("platform")
    BY <1>3, <2>1, <2>3, <2>4 DEF Initialises
  <2> QED
    BY <2>5, <2>7, <2>8, <2>9 DEF BusInv
<1> QED
  BY <1>1, <1>2, <1>3 DEF initialize_platform_device

(* initialize_spi_device *)
LEMMA InitializeSpi ==
  ASSUME BusInv, path = "running", initialize_spi_device, UNCHANGED <<params, cards>>
  PROVE  BusInv' /\ Initialises("spi")
<1>1. CASE ~Enabled("spi") /\ UNCHANGED <<busState, path>>
  <2>1. BusInv' /\ Dev' = Dev
    BY <1>1, BusUnchanged
  <2> QED
    BY <1>1, <2>1 DEF Initialises
<1>2. CASE Enabled("spi") /\ path' = "init panic" /\ UNCHANGED busState
  <2>1. BusInv' /\ Dev' = Dev
    BY <1>2, BusUnchanged
  <2> QED
    BY <1>2, <2>1 DEF Initialises
<1>3. ASSUME Enabled("spi"), NEW c \in Cards, InitializePci(c), pci_cur_device' = c,
             spi_private' = [pdev |-> c, refs |-> 2],
             kernel' = kernel \cup PciThings(c) \cup {<<"spi_bus">>},
             UNCHANGED <<platform_private, i2c_private, path>>
      PROVE  BusInv' /\ Initialises("spi")
  <2>1. /\ \A b \in Kinds : Dev[b] = NONE
        /\ kernel = {} /\ i2c_private.client = NoClients
    BY <1>3, NothingYet DEF InitializePci, PciDriver
  <2>2. kernel' = {PciDriver, Private(c), <<"spi_bus">>}
    BY <1>3, <2>1 DEF PciThings, PciDriver
  <2>3. Dev'["spi"] = c /\ \A b \in Kinds \ {"spi"} : Dev'[b] = NONE
    BY <1>3, <2>1 DEF Dev
  <2>4. c # NONE
    BY CardsAssumption
  <2>5. BusTypeOK'
    BY <1>3, <2>2 DEF BusInv, BusTypeOK, Things, cards, PciDriver
  <2>6. i2c_private'.pdev = NONE /\ platform_private' = NONE
    BY <1>3, <2>1, DevOf
  <2>7. Connected'
    BY <1>3, <2>1, <2>2, <2>3, <2>4, <2>6, ThingsDiffer DEF Connected, NoClients
  <2>8. AllChipsOrNone'
    BY <1>3, <2>1, <2>2, ThingsDiffer, ClientsKept DEF BusInv
  <2>9. Initialises("spi")
    BY <1>3, <2>1, <2>3, <2>4 DEF Initialises
  <2> QED
    BY <2>5, <2>7, <2>8, <2>9 DEF BusInv
<1> QED
  BY <1>1, <1>2, <1>3 DEF initialize_spi_device

(* alloc_devices makes a client for every chip, or for none. *)
LEMMA AllocDevices ==
  ASSUME NEW made \in 0 .. MAX_CHIPS
  PROVE  /\ alloc_devices(made) \in [Entries -> BOOLEAN]
         /\ {i \in Entries : alloc_devices(made)[i]} \in {Chips, {}}
<1> DEFINE client == [i \in Entries |-> i \in Chips /\ i <= made]
<1>1. Chips \subseteq Entries
  BY DEF Chips
<1>2. CASE \A i \in Chips : client[i]
  <2>1. alloc_devices(made) = client
    BY <1>2 DEF alloc_devices
  <2> QED
    BY <1>1, <1>2, <2>1
<1>3. CASE ~ \A i \in Chips : client[i]
  <2>1. alloc_devices(made) = [i \in Entries |-> client[i] /\ i \notin Chips]
    BY <1>3 DEF alloc_devices, cleanup_devices
  <2> QED
    BY <1>1, <2>1
<1> QED
  BY <1>2, <1>3

(* initialize_i2c_device *)
LEMMA InitializeI2C ==
  ASSUME BusInv, path = "running", initialize_i2c_device, UNCHANGED <<params, cards>>
  PROVE  BusInv' /\ Initialises("i2c")
<1>1. CASE ~Enabled("i2c") /\ UNCHANGED <<busState, path>>
  <2>1. BusInv' /\ Dev' = Dev
    BY <1>1, BusUnchanged
  <2> QED
    BY <1>1, <2>1 DEF Initialises
<1>2. CASE Enabled("i2c") /\ path' = "init panic" /\ UNCHANGED busState
  <2>1. BusInv' /\ Dev' = Dev
    BY <1>2, BusUnchanged
  <2> QED
    BY <1>2, <2>1 DEF Initialises
<1>3. ASSUME Enabled("i2c"), NEW c \in Cards, NEW made \in 0 .. MAX_CHIPS, InitializePci(c),
             pci_cur_device' = c,
             i2c_private' = [pdev |-> c, client |-> alloc_devices(made)],
             kernel' = kernel \cup PciThings(c) \cup {<<"i2c_adapter">>} \cup Clients(alloc_devices(made)),
             UNCHANGED <<platform_private, spi_private, path>>
      PROVE  BusInv' /\ Initialises("i2c")
  <2> DEFINE client == alloc_devices(made)
  <2>0. client \in [Entries -> BOOLEAN] /\ {i \in Entries : client[i]} \in {Chips, {}}
    BY AllocDevices
  <2>1. /\ \A b \in Kinds : Dev[b] = NONE
        /\ kernel = {} /\ spi_private.refs = 0
    BY <1>3, NothingYet DEF InitializePci, PciDriver
  <2>2. kernel' = {PciDriver, Private(c), <<"i2c_adapter">>} \cup Clients(client)
    BY <1>3, <2>1 DEF PciThings, PciDriver
  <2>3. i2c_private'.client = client /\ i2c_private'.pdev = c
    BY <1>3
  <2> HIDE DEF client
  <2>4. Dev'["i2c"] = c /\ \A b \in Kinds \ {"i2c"} : Dev'[b] = NONE
    BY <1>3, <2>1 DEF Dev
  <2>5. c # NONE
    BY CardsAssumption
  <2>6. \A i \in Entries : Client(i) \in Clients(client) <=> client[i]
    BY ThingsDiffer DEF Clients
  <2>7. /\ \A d \in Cards : Private(d) \notin Clients(client)
        /\ \A x \in {PciDriver, <<"platform_device">>, <<"i2c_adapter">>, <<"spi_bus">>} : x \notin Clients(client)
    BY ThingsDiffer DEF Clients
  <2>8. BusTypeOK'
    <3>1. kernel' \subseteq Things
      BY <2>2 DEF Things, Clients, PciDriver
    <3>2. i2c_private' \in [pdev : Cards \cup {NONE}, client : [Entries -> BOOLEAN]]
      BY <1>3, <2>0 DEF client
    <3> QED
      BY <1>3, <3>1, <3>2 DEF BusInv, BusTypeOK, cards
  <2>9. platform_private' = NONE /\ spi_private'.pdev = NONE
    BY <1>3, <2>1, DevOf
  <2>10. Connected'
    BY <1>3, <2>1, <2>2, <2>3, <2>4, <2>5, <2>7, <2>9, ThingsDiffer DEF Connected
  <2>11. AllChipsOrNone'
    <3>1. Chips' = Chips
      BY DEF Chips
    <3>2. \A i \in Entries : Client(i) \in kernel' <=> i2c_private'.client[i]
      BY <2>2, <2>3, <2>6, ThingsDiffer
    <3>3. {i \in Entries : i2c_private'.client[i]} \in {Chips', {}}
      BY <2>0, <2>3, <3>1
    <3>4. \A i \in Entries : i2c_private'.client[i] => i \in Chips'
      BY <3>3
    <3>5. \A i \in Entries : i \in Chips' => stub_xfer_finds(params.g_i2c_chip_addr[i])'
      BY DEF stub_xfer_finds
    <3> QED
      BY <3>2, <3>3, <3>4, <3>5 DEF AllChipsOrNone
  <2>12. Initialises("i2c")
    BY <1>3, <2>1, <2>4, <2>5 DEF Initialises
  <2> QED
    BY <2>8, <2>10, <2>11, <2>12 DEF BusInv
<1> QED
  BY <1>1, <1>2, <1>3 DEF initialize_i2c_device

-----------------------------------------------------------------------------
(* The bus whose card is freed is the only one that has one; the other     *)
(* two have nothing and the kernel holds nothing of theirs.                *)
LEMMA OthersHaveNothing ==
  ASSUME BusInv, NEW b \in Kinds, Dev[b] # NONE, Dev[b] = pci_cur_device
  PROVE  /\ \A d \in Kinds \ {b} : Dev[d] = NONE
         /\ pci_cur_device \in Cards
         /\ \A c \in Cards : Private(c) \in kernel => c = Dev[b]
<1>1. \A d \in Kinds \ {b} : Dev[d] = NONE
  BY DEF BusInv, Connected
<1>2. Dev[b] \in Cards
  BY DevType DEF BusInv
<1> QED
  BY <1>1, <1>2 DEF BusInv, Connected

(* free_platform_device *)
LEMMA FreePlatform ==
  ASSUME BusInv, path = "running", free_platform_device, UNCHANGED <<params, cards>>
  PROVE  BusInv' /\ Frees("platform")
<1>1. CASE ~Enabled("platform") /\ UNCHANGED <<busState, path>>
  <2>1. BusInv' /\ Dev' = Dev
    BY <1>1, BusUnchanged
  <2> QED
    BY <1>1, <2>1 DEF Frees
<1>2. CASE Enabled("platform") /\ ~MayFreePci(platform_private) /\ path' = "free panic" /\ UNCHANGED busState
  <2>1. BusInv' /\ Dev' = Dev
    BY <1>2, BusUnchanged
  <2>2. hotplugs = 0 => Dev["platform"] = NONE
    BY <1>2, DevOf DEF BusInv, Connected, MayFreePci
  <2> QED
    BY <1>2, <2>1, <2>2 DEF Frees
<1>3. CASE /\ Enabled("platform") /\ MayFreePci(platform_private)
           /\ pci_cur_device' = NONE
           /\ platform_private' = NONE
           /\ kernel' = kernel \ (PciThings(platform_private) \cup {<<"platform_device">>})
           /\ UNCHANGED <<i2c_private, spi_private, path>>
  <2>1. Dev["platform"] = platform_private /\ platform_private # NONE /\ platform_private = pci_cur_device
    BY <1>3, DevOf DEF MayFreePci
  <2>2. /\ \A d \in Kinds \ {"platform"} : Dev[d] = NONE
        /\ pci_cur_device \in Cards
        /\ \A c \in Cards : Private(c) \in kernel => c = platform_private
    BY <2>1, OthersHaveNothing
  <2>3. \A d \in Kinds : Dev'[d] = NONE
    BY <1>3, <2>2 DEF Dev
  <2>4. kernel' = kernel \ {PciDriver, Private(platform_private), <<"platform_device">>}
    BY <1>3 DEF PciThings, PciDriver
  <2>5. i2c_private'.pdev = NONE /\ spi_private'.pdev = NONE
    BY <1>3, <2>2, DevOf
  <2>6. BusTypeOK'
    BY <1>3, <2>4 DEF BusInv, BusTypeOK, cards
  <2>7. Connected'
    BY <1>3, <2>1, <2>2, <2>3, <2>4, <2>5, DevOf, CardsAssumption, ThingsDiffer DEF BusInv, Connected
  <2>8. AllChipsOrNone'
    BY <1>3, <2>1, <2>2, <2>4, ThingsDiffer, ClientsKept DEF BusInv
  <2>9. Frees("platform")
    BY <1>3, <2>2, <2>3 DEF Frees
  <2> QED
    BY <2>6, <2>7, <2>8, <2>9 DEF BusInv
<1> QED
  BY <1>1, <1>2, <1>3 DEF free_platform_device

(* free_spi_device *)
LEMMA FreeSpi ==
  ASSUME BusInv, path = "running", free_spi_device, UNCHANGED <<params, cards>>
  PROVE  BusInv' /\ Frees("spi")
<1>1. CASE ~Enabled("spi") /\ UNCHANGED <<busState, path>>
  <2>1. BusInv' /\ Dev' = Dev
    BY <1>1, BusUnchanged
  <2> QED
    BY <1>1, <2>1 DEF Frees
<1>2. CASE Enabled("spi") /\ ~MayFreePci(spi_private.pdev) /\ path' = "free panic" /\ UNCHANGED busState
  <2>1. BusInv' /\ Dev' = Dev
    BY <1>2, BusUnchanged
  <2>2. hotplugs = 0 => Dev["spi"] = NONE
    BY <1>2, DevOf DEF BusInv, Connected, MayFreePci
  <2> QED
    BY <1>2, <2>1, <2>2 DEF Frees
<1>3. CASE /\ Enabled("spi") /\ MayFreePci(spi_private.pdev)
           /\ pci_cur_device' = NONE
           /\ spi_private' = cleanup_spi_device
           /\ kernel' = kernel \ (PciThings(spi_private.pdev) \cup {<<"spi_bus">>})
           /\ UNCHANGED <<platform_private, i2c_private, path>>
  <2>1. Dev["spi"] = spi_private.pdev /\ spi_private.pdev # NONE /\ spi_private.pdev = pci_cur_device
    BY <1>3, DevOf DEF MayFreePci
  <2>2. /\ \A d \in Kinds \ {"spi"} : Dev[d] = NONE
        /\ pci_cur_device \in Cards
        /\ \A c \in Cards : Private(c) \in kernel => c = spi_private.pdev
    BY <2>1, OthersHaveNothing
  <2>3. spi_private.refs = 2 /\ spi_private \in [pdev : Cards \cup {NONE}, refs : 0 .. 2]
    BY <2>1 DEF BusInv, Connected, BusTypeOK
  <2>4. spi_private' = [pdev |-> NONE, refs |-> 0]
    <3> DEFINE put == [spi_private EXCEPT !.refs = 0]
    <3>1. put \in [pdev : Cards \cup {NONE}, refs : 0 .. 2] /\ put.refs = 0
      BY <2>3
    <3>2. cleanup_spi_device = [put EXCEPT !.pdev = NONE]
      BY <2>3 DEF cleanup_spi_device
    <3> HIDE DEF put
    <3> QED
      BY <1>3, <3>1, <3>2
  <2>5. \A d \in Kinds : Dev'[d] = NONE
    <3>1. spi_private'.pdev = NONE
      BY <2>4
    <3>2. platform_private = NONE /\ i2c_private.pdev = NONE
      BY <2>2, DevOf
    <3> QED
      BY <1>3, <3>1, <3>2 DEF Dev
  <2>6. kernel' = kernel \ {PciDriver, Private(spi_private.pdev), <<"spi_bus">>}
    BY <1>3 DEF PciThings, PciDriver
  <2>7. i2c_private'.pdev = NONE /\ platform_private' = NONE /\ spi_private'.pdev = NONE /\ spi_private'.refs = 0
    BY <1>3, <2>2, <2>4, DevOf
  <2>8. BusTypeOK'
    BY <1>3, <2>4, <2>6 DEF BusInv, BusTypeOK, cards
  <2>9. Connected'
    BY <1>3, <2>1, <2>2, <2>5, <2>6, <2>7, DevOf, CardsAssumption, ThingsDiffer DEF BusInv, Connected
  <2>10. AllChipsOrNone'
    BY <1>3, <2>1, <2>2, <2>6, ThingsDiffer, ClientsKept DEF BusInv
  <2>11. Frees("spi")
    BY <1>3, <2>2, <2>5 DEF Frees
  <2> QED
    BY <2>8, <2>9, <2>10, <2>11 DEF BusInv
<1> QED
  BY <1>1, <1>2, <1>3 DEF free_spi_device

(* free_i2c_device *)
LEMMA FreeI2C ==
  ASSUME BusInv, path = "running", free_i2c_device, UNCHANGED <<params, cards>>
  PROVE  BusInv' /\ Frees("i2c")
<1>1. CASE ~Enabled("i2c") /\ UNCHANGED <<busState, path>>
  <2>1. BusInv' /\ Dev' = Dev
    BY <1>1, BusUnchanged
  <2> QED
    BY <1>1, <2>1 DEF Frees
<1>2. CASE Enabled("i2c") /\ ~MayFreePci(i2c_private.pdev) /\ path' = "free panic" /\ UNCHANGED busState
  <2>1. BusInv' /\ Dev' = Dev
    BY <1>2, BusUnchanged
  <2>2. hotplugs = 0 => Dev["i2c"] = NONE
    BY <1>2, DevOf DEF BusInv, Connected, MayFreePci
  <2> QED
    BY <1>2, <2>1, <2>2 DEF Frees
<1>3. CASE /\ Enabled("i2c") /\ MayFreePci(i2c_private.pdev)
           /\ pci_cur_device' = NONE
           /\ i2c_private' = [pdev |-> NONE, client |-> cleanup_devices(i2c_private.client)]
           /\ kernel' = kernel \ (PciThings(i2c_private.pdev) \cup {<<"i2c_adapter">>} \cup Clients(i2c_private.client))
           /\ UNCHANGED <<platform_private, spi_private, path>>
  <2>1. Dev["i2c"] = i2c_private.pdev /\ i2c_private.pdev # NONE /\ i2c_private.pdev = pci_cur_device
    BY <1>3, DevOf DEF MayFreePci
  <2>2. /\ \A d \in Kinds \ {"i2c"} : Dev[d] = NONE
        /\ pci_cur_device \in Cards
        /\ \A c \in Cards : Private(c) \in kernel => c = i2c_private.pdev
    BY <2>1, OthersHaveNothing
  <2>3. cleanup_devices(i2c_private.client) = NoClients
    <3>1. \A i \in Entries : i2c_private.client[i] => i \in Chips
      BY DEF BusInv, AllChipsOrNone
    <3>2. i2c_private.client \in [Entries -> BOOLEAN]
      BY DEF BusInv, BusTypeOK
    <3>3. \A i \in Entries : (i2c_private.client[i] /\ i \notin Chips) = FALSE
      BY <3>1, <3>2
    <3> QED
      BY <3>3 DEF cleanup_devices, NoClients
  <2>4. i2c_private'.pdev = NONE /\ i2c_private'.client = NoClients
    BY <1>3, <2>3
  <2>5. \A d \in Kinds : Dev'[d] = NONE
    BY <1>3, <2>2, <2>4 DEF Dev
  <2>6. /\ \A i \in Entries : Client(i) \in Clients(i2c_private.client) <=> i2c_private.client[i]
        /\ \A x \in {PciDriver, <<"platform_device">>, <<"i2c_adapter">>, <<"spi_bus">>} : x \notin Clients(i2c_private.client)
    BY ThingsDiffer DEF Clients
  <2>7. kernel' = kernel \ ({PciDriver, Private(i2c_private.pdev), <<"i2c_adapter">>} \cup Clients(i2c_private.client))
    BY <1>3 DEF PciThings, PciDriver
  <2>8. spi_private'.pdev = NONE /\ platform_private' = NONE
    BY <1>3, <2>2, DevOf
  <2>9. BusTypeOK'
    <3>1. i2c_private' \in [pdev : Cards \cup {NONE}, client : [Entries -> BOOLEAN]]
      BY <1>3, <2>3 DEF NoClients
    <3> QED
      BY <1>3, <2>7, <3>1 DEF BusInv, BusTypeOK, cards
  <2>10. Connected'
    BY <1>3, <2>1, <2>2, <2>4, <2>5, <2>6, <2>7, <2>8, DevOf, CardsAssumption, ThingsDiffer DEF BusInv, Connected
  <2>11. \A i \in Entries : Client(i) \notin kernel'
    BY <2>6, <2>7 DEF BusInv, AllChipsOrNone
  <2>12. \A i \in Entries : i2c_private'.client[i] = FALSE
    BY <2>4 DEF NoClients
  <2>13. AllChipsOrNone'
    BY <2>11, <2>12 DEF AllChipsOrNone
  <2>14. Frees("i2c")
    BY <1>3, <2>2, <2>5 DEF Frees
  <2> QED
    BY <2>9, <2>10, <2>13, <2>14 DEF BusInv
<1> QED
  BY <1>1, <1>2, <1>3 DEF free_i2c_device

(* The kernel binds and unbinds the card. *)
LEMMA HotplugKeeps ==
  ASSUME BusInv, path = "running", Hotplug
  PROVE  BusInv' /\ Dev' = Dev /\ path' \in {"running", "probe panic"}
<1> DEFINE new == plugged' \ plugged
           driven == PciDriver \in kernel
<1>0. /\ hotplugs < MaxHotplug /\ hotplugs' = hotplugs + 1 /\ UNCHANGED params
      /\ \E c \in Cards : plugged' \in {plugged \cup {c}, plugged \ {c}}
  BY DEF Hotplug
<1>1. hotplugs' \in 0 .. MaxHotplug /\ hotplugs' # 0 /\ plugged' \subseteq Cards
  BY <1>0, CardsAssumption DEF BusInv, BusTypeOK
<1>2. Chips' = Chips
  BY <1>0 DEF Chips
<1>3. CASE UNCHANGED busState /\ path' \in {"running", "probe panic"}
  <2>1. Dev' = Dev
    BY <1>3 DEF Dev, busState
  <2>2. BusTypeOK'
    BY <1>0, <1>1, <1>3 DEF BusInv, BusTypeOK, busState
  <2>3. Connected'
    BY <1>1, <1>3, <2>1 DEF BusInv, Connected, busState
  <2>4. AllChipsOrNone'
    BY <1>0, <1>2, <1>3 DEF BusInv, AllChipsOrNone, stub_xfer_finds, busState
  <2> QED
    BY <1>3, <2>1, <2>2, <2>3, <2>4 DEF BusInv
<1>4. ASSUME NEW c \in Cards, driven, MayProbe(c), pci_cur_device' = c, kernel' = kernel \cup {Private(c)},
             UNCHANGED <<platform_private, i2c_private, spi_private, path>>
      PROVE  BusInv' /\ Dev' = Dev /\ path' = "running"
  <2>1. Dev' = Dev
    BY <1>4 DEF Dev
  <2>2. BusTypeOK'
    BY <1>0, <1>1, <1>4 DEF BusInv, BusTypeOK, Things
  <2>3. pci_cur_device = NONE
    BY <1>4 DEF MayProbe
  <2>4. Connected'
    BY <1>1, <1>4, <2>1, <2>3, CardsAssumption, ThingsDiffer DEF BusInv, Connected
  <2>5. AllChipsOrNone'
    BY <1>0, <1>4, ThingsDiffer, ClientsKept DEF BusInv
  <2> QED
    BY <1>4, <2>1, <2>2, <2>4, <2>5 DEF BusInv
<1>5. ASSUME NEW c \in Cards, Private(c) \in kernel, pci_cur_device' = NONE, kernel' = kernel \ {Private(c)},
             UNCHANGED <<platform_private, i2c_private, spi_private, path>>
      PROVE  BusInv' /\ Dev' = Dev /\ path' = "running"
  <2>1. Dev' = Dev
    BY <1>5 DEF Dev
  <2>2. BusTypeOK'
    BY <1>0, <1>1, <1>5 DEF BusInv, BusTypeOK
  <2>3. pci_cur_device = c
    BY <1>5 DEF BusInv, Connected
  <2>4. Connected'
    BY <1>1, <1>5, <2>1, <2>3, CardsAssumption, ThingsDiffer DEF BusInv, Connected
  <2>5. AllChipsOrNone'
    BY <1>0, <1>5, ThingsDiffer, ClientsKept DEF BusInv
  <2> QED
    BY <1>5, <2>1, <2>2, <2>4, <2>5 DEF BusInv
<1>6. new \subseteq Cards /\ plugged \ plugged' \subseteq Cards
  BY <1>1 DEF BusInv, BusTypeOK
<1>7. \/ UNCHANGED busState /\ path' \in {path, "probe panic"}
      \/ \E c \in new : driven /\ MayProbe(c) /\ pci_cur_device' = c /\ kernel' = kernel \cup {Private(c)}
                          /\ UNCHANGED <<platform_private, i2c_private, spi_private, path>>
      \/ \E c \in plugged \ plugged' : Private(c) \in kernel /\ pci_cur_device' = NONE /\ kernel' = kernel \ {Private(c)}
                          /\ UNCHANGED <<platform_private, i2c_private, spi_private, path>>
  BY DEF Hotplug, PciDriver
<1> QED
  BY <1>3, <1>4, <1>5, <1>6, <1>7

-----------------------------------------------------------------------------
(* The devices of the two buses are different. *)
LEMMA DevicesDiffer ==
  /\ \A b, d \in PMBuses : b # d => Devices[b] \cap Devices[d] = {}
  /\ \A b \in PMBuses : Devices[b] \subseteq AllDevices
BY DEF PMBuses, Devices, AllDevices, Client

EpStates == [net_dev : Netdevs \cup {NONE}, drv : [PMBuses -> Drivers \cup {NONE}],
             dev : [PMBuses -> AllDevices \cup {NONE}]]

(* What the three records of ep_init_* change. *)
LEMMA EpInit ==
  ASSUME NEW e \in EpStates, NEW b \in PMBuses
  PROVE  /\ \A n \in Netdevs : LET s == [e EXCEPT !.net_dev = n] IN
              s \in EpStates /\ s.drv = e.drv /\ s.dev = e.dev
         /\ \A d \in Drivers : LET s == [e EXCEPT !.drv[b] = d] IN
              s \in EpStates /\ s.dev = e.dev /\ s.drv = [e.drv EXCEPT ![b] = d]
         /\ \A v \in AllDevices : LET s == [e EXCEPT !.dev[b] = v] IN
              s \in EpStates /\ s.drv = e.drv /\ s.dev = [e.dev EXCEPT ![b] = v]
BY DEF EpStates

TestInv == TestTypeOK /\ Recorded

(* A bus that a step does not touch keeps its record. *)
LEMMA OtherBus ==
  ASSUME NEW b \in PMBuses, RecordedOn(b),
         registered'[b] = registered[b], calling'[b] = calling[b], probing'[b] = probing[b],
         ep_state'.dev[b] = ep_state.dev[b], ep_state'.drv[b] = ep_state.drv[b],
         b \in second => b \in second',
         \A v \in Devices[b] : bound'[v] = bound[v]
  PROVE  RecordedOn(b)'
BY DEF RecordedOn, Known

(* Nothing that ep_state is about changes. *)
LEMMA TestUnchanged ==
  ASSUME TestInv, UNCHANGED <<driver_bus, ep_state, driverVars>>, device_irq_disabled' \in BOOLEAN
  PROVE  TestInv'
<1>1. TestTypeOK'
  BY DEF TestInv, TestTypeOK, driverVars
<1>2. InFlight'
  BY DEF TestInv, Recorded, InFlight, driverVars
<1>3. \A b \in PMBuses : RecordedOn(b)'
  BY OtherBus DEF TestInv, Recorded, driverVars
<1> QED
  BY <1>1, <1>2, <1>3 DEF TestInv, Recorded

(* __pci_register_driver and i2c_add_driver: before. *)
LEMMA RegisterDriverKeeps ==
  ASSUME TestInv, NEW b \in PMBuses, NEW d \in Drivers, RegisterDriver(b, d),
         UNCHANGED <<driver_bus, device_irq_disabled>>
  PROVE  TestInv'
<1>1. CASE Killed
  <2>1. device_irq_disabled' \in BOOLEAN
    BY DEF TestInv, TestTypeOK
  <2> QED
    BY <1>1, <2>1, TestUnchanged DEF Killed
<1>2. ASSUME NEW ok \in BOOLEAN, calling' = [calling EXCEPT ![b] = [drv |-> d, ok |-> ok]],
             UNCHANGED <<ep_state, registered, probing, bound, netdevs, second, path>>
      PROVE  TestInv'
  <2>1. TestTypeOK'
    BY <1>2 DEF TestInv, TestTypeOK
  <2>2. calling \in [PMBuses -> [drv : Drivers, ok : BOOLEAN] \cup {NONE}] /\ calling[b] = NONE
    BY DEF TestInv, Recorded, InFlight, RegisterDriver
  <2>3. [drv |-> d, ok |-> ok] \in [drv : Drivers, ok : BOOLEAN]
    BY <1>2
  <2>4. InFlight'
    BY <1>2, <2>2, <2>3 DEF TestInv, Recorded, InFlight
  <2>5. ASSUME NEW c \in PMBuses
        PROVE  RecordedOn(c)'
    <3>1. RecordedOn(c)
      BY DEF TestInv, Recorded
    <3>2. CASE c # b
      <4>1. calling'[c] = calling[c]
        BY <1>2, <2>2, <3>2
      <4> QED
        BY <1>2, <3>1, <4>1, OtherBus
    <3>3. CASE c = b
      <4>1. Known(b) = registered[b]
        BY <2>2 DEF Known
      <4>2. Known(b) \subseteq Known(b)'
        BY <1>2, <4>1 DEF Known
      <4> QED
        BY <1>2, <3>1, <3>3, <4>2 DEF RecordedOn
    <3> QED
      BY <3>2, <3>3
  <2> QED
    BY <2>1, <2>4, <2>5 DEF TestInv, Recorded
<1> QED
  BY <1>1, <1>2 DEF RegisterDriver

(* ... and after. *)
LEMMA RegisterDriverReturnsKeeps ==
  ASSUME TestInv, NEW b \in PMBuses, RegisterDriverReturns(b),
         UNCHANGED <<driver_bus, device_irq_disabled>>
  PROVE  TestInv'
<1> DEFINE c == calling[b]
<1>1. /\ registered' = [registered EXCEPT ![b] = IF c.ok THEN registered[b] \cup {c.drv} ELSE registered[b]]
      /\ second' = IF c.ok /\ registered[b] # {} THEN second \cup {b} ELSE second
      /\ ep_state' = IF c.ok THEN [ep_state EXCEPT !.drv[b] = c.drv] ELSE ep_state
      /\ calling' = [calling EXCEPT ![b] = NONE]
      /\ UNCHANGED <<probing, bound, netdevs>>
      /\ probing[b] = NONE
  BY DEF RegisterDriverReturns, ep_init_driver
<1>2. c \in [drv : Drivers, ok : BOOLEAN]
  BY DEF TestInv, Recorded, InFlight, RegisterDriverReturns
<1>3. c.drv \in Drivers /\ c.ok \in BOOLEAN /\ c # NONE
  BY <1>2 DEF RegisterDriverReturns
<1>4. ep_state \in EpStates /\ registered \in [PMBuses -> SUBSET Drivers]
  BY DEF TestInv, TestTypeOK, EpStates
<1>5. calling \in [PMBuses -> [drv : Drivers, ok : BOOLEAN] \cup {NONE}]
  BY DEF TestInv, Recorded, InFlight
<1>6. Known(b) = registered[b] \cup (IF c.ok THEN {c.drv} ELSE {})
  BY <1>3 DEF Known
<1> HIDE DEF c
<1>7. /\ ep_state' \in EpStates /\ ep_state'.dev = ep_state.dev
      /\ ep_state'.drv = IF c.ok THEN [ep_state.drv EXCEPT ![b] = c.drv] ELSE ep_state.drv
  <2>1. CASE c.ok
    BY <1>1, <1>3, <1>4, <2>1, EpInit
  <2>2. CASE ~c.ok
    BY <1>1, <1>4, <2>2
  <2> QED
    BY <2>1, <2>2
<1>8. TestTypeOK'
  <2>1. registered' \in [PMBuses -> SUBSET Drivers]
    BY <1>1, <1>3, <1>4
  <2>2. second' \subseteq PMBuses
    BY <1>1 DEF TestInv, TestTypeOK
  <2> QED
    BY <1>1, <1>7, <2>1, <2>2 DEF TestInv, TestTypeOK, EpStates
<1>9. InFlight'
  BY <1>1, <1>5 DEF TestInv, Recorded, InFlight
<1>10. ASSUME NEW d \in PMBuses
       PROVE  RecordedOn(d)'
  <2>1. RecordedOn(d)
    BY DEF TestInv, Recorded
  <2>2. ep_state.drv \in [PMBuses -> Drivers \cup {NONE}]
    BY <1>4 DEF EpStates
  <2>3. CASE d # b
    <3>1. calling'[d] = calling[d] /\ registered'[d] = registered[d]
      BY <1>1, <1>4, <1>5, <2>3
    <3>2. ep_state'.drv[d] = ep_state.drv[d]
      BY <1>7, <2>2, <2>3
    <3>3. d \in second => d \in second'
      BY <1>1
    <3> QED
      BY <1>1, <1>7, <2>1, <3>1, <3>2, <3>3, OtherBus
  <2>4. CASE d = b
    <3>1. /\ registered'[b] = Known(b)
          /\ calling'[b] = NONE
      BY <1>1, <1>4, <1>5, <1>6
    <3>2. Known(b)' = Known(b)
      BY <3>1 DEF Known
    <3>3. b \notin second' => registered'[b] \subseteq {ep_state'.drv[b]}
      <4>1. CASE c.ok
        <5>1. ep_state'.drv[b] = c.drv
          BY <1>7, <2>2, <4>1
        <5> QED
          BY <1>1, <1>6, <3>1, <4>1, <5>1
      <4>2. CASE ~c.ok
        <5>1. registered'[b] = registered[b] /\ second' = second /\ ep_state'.drv = ep_state.drv
          BY <1>1, <1>6, <1>7, <3>1, <4>2
        <5> QED
          BY <2>1, <2>4, <5>1 DEF RecordedOn
      <4> QED
        BY <4>1, <4>2
    <3> QED
      BY <1>1, <1>7, <2>1, <2>4, <3>2, <3>3 DEF RecordedOn
  <2> QED
    BY <2>3, <2>4
<1> QED
  BY <1>8, <1>9, <1>10 DEF TestInv, Recorded

(* A probe begins. *)
LEMMA ProbeKeeps ==
  ASSUME TestInv, NEW b \in PMBuses, NEW d \in Drivers, NEW v \in Devices[b], Probe(b, d, v),
         UNCHANGED <<driver_bus, device_irq_disabled>>
  PROVE  TestInv'
<1>1. CASE Killed
  <2>1. device_irq_disabled' \in BOOLEAN
    BY DEF TestInv, TestTypeOK
  <2> QED
    BY <1>1, <2>1, TestUnchanged DEF Killed
<1>2. CASE /\ ep_init_dev(b, v)
           /\ probing' = [probing EXCEPT ![b] = [drv |-> d, dev |-> v]]
           /\ UNCHANGED <<registered, calling, bound, netdevs, second, path>>
  <2>1. v \in AllDevices
    BY DevicesDiffer
  <2>2. ep_state \in EpStates
    BY DEF TestInv, TestTypeOK, EpStates
  <2>3. ep_state' \in EpStates /\ ep_state'.drv = ep_state.drv /\ ep_state'.dev = [ep_state.dev EXCEPT ![b] = v]
    BY <1>2, <2>1, <2>2, EpInit DEF ep_init_dev
  <2>4. TestTypeOK'
    BY <1>2, <2>3 DEF TestInv, TestTypeOK, EpStates
  <2>5. probing \in [PMBuses -> [drv : Drivers, dev : AllDevices] \cup {NONE}]
    BY DEF TestInv, Recorded, InFlight
  <2>6. [drv |-> d, dev |-> v] \in [drv : Drivers, dev : AllDevices]
    BY <2>1
  <2>7. InFlight'
    BY <1>2, <2>5, <2>6 DEF TestInv, Recorded, InFlight
  <2>8. ep_state.dev \in [PMBuses -> AllDevices \cup {NONE}]
    BY <2>2 DEF EpStates
  <2>9. ASSUME NEW c \in PMBuses
        PROVE  RecordedOn(c)'
    <3>1. RecordedOn(c)
      BY DEF TestInv, Recorded
    <3>2. CASE c # b
      <4>1. probing'[c] = probing[c] /\ ep_state'.dev[c] = ep_state.dev[c]
        BY <1>2, <2>3, <2>5, <2>8, <3>2
      <4> QED
        BY <1>2, <2>3, <3>1, <4>1, OtherBus
    <3>3. CASE c = b
      <4>1. ep_state'.dev[b] = v /\ ep_state'.drv = ep_state.drv
        BY <2>3, <2>8
      <4>2. Known(b)' = Known(b) /\ d \in Known(b)
        BY <1>2 DEF Known, Probe
      <4>3. probing'[b] = [drv |-> d, dev |-> v]
        BY <1>2, <2>5
      <4>4. probing'[b].drv = d /\ probing'[b].dev = v
        BY <4>3
      <4> QED
        BY <1>2, <3>1, <3>3, <4>1, <4>2, <4>4 DEF RecordedOn
    <3> QED
      BY <3>2, <3>3
  <2> QED
    BY <2>4, <2>7, <2>9 DEF TestInv, Recorded
<1> QED
  BY <1>1, <1>2 DEF Probe

(* ... and ends. *)
LEMMA ProbeReturnsKeeps ==
  ASSUME TestInv, NEW b \in PMBuses, NEW ok \in BOOLEAN, ProbeReturns(b, ok),
         UNCHANGED <<driver_bus, device_irq_disabled>>
  PROVE  TestInv'
<1> DEFINE p == probing[b]
<1>1. /\ bound' = IF ok THEN [bound EXCEPT ![p.dev] = p.drv] ELSE bound
      /\ probing' = [probing EXCEPT ![b] = NONE]
      /\ UNCHANGED <<ep_state, registered, calling, netdevs, second>>
      /\ p # NONE
  BY DEF ProbeReturns
<1>2. p \in [drv : Drivers, dev : AllDevices] /\ probing \in [PMBuses -> [drv : Drivers, dev : AllDevices] \cup {NONE}]
  BY <1>1 DEF TestInv, Recorded, InFlight
<1>3. p.drv \in Known(b) /\ p.dev \in Devices[b]
  BY <1>1 DEF TestInv, Recorded, RecordedOn
<1>4. p.drv \in Drivers /\ p.dev \in AllDevices
  BY <1>2
<1>5. bound \in [AllDevices -> Drivers \cup {NONE}]
  BY DEF TestInv, TestTypeOK
<1> HIDE DEF p
<1>6. TestTypeOK'
  <2>1. bound' \in [AllDevices -> Drivers \cup {NONE}]
    BY <1>1, <1>4, <1>5
  <2> QED
    BY <1>1, <2>1 DEF TestInv, TestTypeOK
<1>7. InFlight'
  BY <1>1, <1>2 DEF TestInv, Recorded, InFlight
<1>8. ASSUME NEW c \in PMBuses
      PROVE  RecordedOn(c)'
  <2>1. RecordedOn(c)
    BY DEF TestInv, Recorded
  <2>2. Known(c)' = Known(c)
    BY <1>1 DEF Known
  <2>3. CASE c # b
    <3>1. probing'[c] = probing[c]
      BY <1>1, <1>2, <2>3
    <3>2. \A v \in Devices[c] : v # p.dev /\ v \in AllDevices
      BY <1>3, <2>3, DevicesDiffer
    <3>3. \A v \in Devices[c] : bound'[v] = bound[v]
      BY <1>1, <1>5, <3>2
    <3> QED
      BY <1>1, <2>1, <3>1, <3>3, OtherBus
  <2>4. CASE c = b
    <3>1. probing'[b] = NONE
      BY <1>1, <1>2
    <3>2. \A v \in Devices[b] : v \in AllDevices
      BY DevicesDiffer
    <3>3. \A v \in Devices[b] : bound'[v] \in {bound[v], p.drv}
      BY <1>1, <1>5, <3>2
    <3> QED
      BY <1>1, <1>3, <2>1, <2>2, <2>4, <3>1, <3>3 DEF RecordedOn
  <2> QED
    BY <2>3, <2>4
<1> QED
  BY <1>6, <1>7, <1>8 DEF TestInv, Recorded

(* pci_unregister_driver, i2c_del_driver *)
LEMMA UnregisterDriverKeeps ==
  ASSUME TestInv, NEW b \in PMBuses, NEW d \in Drivers, UnregisterDriver(b, d),
         UNCHANGED <<driver_bus, device_irq_disabled>>
  PROVE  TestInv'
<1>1. /\ registered' = [registered EXCEPT ![b] = registered[b] \ {d}]
      /\ bound' = [v \in AllDevices |-> IF v \in Devices[b] /\ bound[v] = d THEN NONE ELSE bound[v]]
      /\ calling[b] = NONE /\ probing[b] = NONE
      /\ UNCHANGED <<ep_state, calling, probing, netdevs, second>>
  BY DEF UnregisterDriver
<1>2. registered \in [PMBuses -> SUBSET Drivers] /\ bound \in [AllDevices -> Drivers \cup {NONE}]
  BY DEF TestInv, TestTypeOK
<1>3. TestTypeOK'
  <2>1. registered' \in [PMBuses -> SUBSET Drivers] /\ bound' \in [AllDevices -> Drivers \cup {NONE}]
    BY <1>1, <1>2
  <2> QED
    BY <1>1, <2>1 DEF TestInv, TestTypeOK
<1>4. InFlight'
  BY <1>1 DEF TestInv, Recorded, InFlight
<1>5. ASSUME NEW c \in PMBuses
      PROVE  RecordedOn(c)'
  <2>1. RecordedOn(c)
    BY DEF TestInv, Recorded
  <2>2. \A v \in Devices[c] : v \in AllDevices
    BY DevicesDiffer
  <2>3. CASE c # b
    <3>1. registered'[c] = registered[c]
      BY <1>1, <1>2, <2>3
    <3>2. \A v \in Devices[c] : v \notin Devices[b]
      BY <2>3, DevicesDiffer
    <3>3. \A v \in Devices[c] : bound'[v] = bound[v]
      BY <1>1, <2>2, <3>2
    <3> QED
      BY <1>1, <2>1, <3>1, <3>3, OtherBus
  <2>4. CASE c = b
    <3>1. Known(b) = registered[b] /\ Known(b)' = registered[b] \ {d}
      BY <1>1, <1>2 DEF Known
    <3>2. registered'[b] = registered[b] \ {d}
      BY <1>1, <1>2
    <3>3. \A v \in Devices[b] : bound'[v] \in (registered[b] \ {d}) \cup {NONE}
      BY <1>1, <2>1, <2>2, <2>4, <3>1 DEF RecordedOn
    <3> QED
      BY <1>1, <2>1, <2>4, <3>1, <3>2, <3>3 DEF RecordedOn
  <2> QED
    BY <2>3, <2>4
<1> QED
  BY <1>3, <1>4, <1>5 DEF TestInv, Recorded

(* register_netdev, unregister_netdev *)
LEMMA NetdevKeeps ==
  ASSUME TestInv, NEW n \in Netdevs, register_netdev(n) \/ unregister_netdev(n),
         UNCHANGED <<driver_bus, device_irq_disabled>>
  PROVE  TestInv'
<1>1. ep_state \in EpStates
  BY DEF TestInv, TestTypeOK, EpStates
<1>2. "pci" \in PMBuses
  BY DEF PMBuses
<1>3. ep_state' \in EpStates /\ ep_state'.drv = ep_state.drv /\ ep_state'.dev = ep_state.dev
  <2>1. CASE register_netdev(n)
    BY <1>1, <1>2, <2>1, EpInit DEF register_netdev, ep_init_net
  <2>2. CASE unregister_netdev(n)
    BY <1>1, <2>2 DEF unregister_netdev
  <2> QED
    BY <2>1, <2>2
<1>4. netdevs' \subseteq Netdevs /\ UNCHANGED <<registered, calling, probing, bound, second>>
  BY DEF TestInv, TestTypeOK, register_netdev, unregister_netdev
<1>5. TestTypeOK'
  BY <1>3, <1>4 DEF TestInv, TestTypeOK, EpStates
<1>6. InFlight'
  BY <1>4 DEF TestInv, Recorded, InFlight
<1>7. \A b \in PMBuses : RecordedOn(b)'
  BY <1>3, <1>4, OtherBus DEF TestInv, Recorded
<1> QED
  BY <1>5, <1>6, <1>7 DEF TestInv, Recorded

-----------------------------------------------------------------------------
(* The array of the ethtool tests agrees with the enumeration up to the    *)
(* obsolete names, which it does not have.                                 *)
LEMMA EthtoolArray ==
  /\ DOMAIN symdrive_TEST_CASE_ETHTOOL = 1 .. 45 /\ Len(symdrive_TEST_CASE_ETHTOOL) = 45
  /\ DOMAIN ethtool_fn_array = 1 .. 42 /\ ethtool_fn_array[42] = "test_end"
  /\ \A id \in 1 .. 41 : symdrive_TEST_CASE_ETHTOOL[id] = ethtool_fn_array[id]
<1>1. DOMAIN symdrive_TEST_CASE_ETHTOOL = 1 .. 45 /\ Len(symdrive_TEST_CASE_ETHTOOL) = 45
  BY DEF symdrive_TEST_CASE_ETHTOOL, Obsolete
<1>2. DOMAIN ethtool_fn_array = 1 .. 42
  BY DEF ethtool_fn_array
<1>3. ethtool_fn_array[42] = "test_end"
  BY DEF ethtool_fn_array
<1>4. ASSUME NEW id \in 1 .. 41
      PROVE  symdrive_TEST_CASE_ETHTOOL[id] = ethtool_fn_array[id]
  BY DEF ethtool_fn_array, symdrive_TEST_CASE_ETHTOOL, Obsolete
<1> QED
  BY <1>1, <1>2, <1>3, <1>4

(* The entry that is called for a case is the case's own function, unless  *)
(* the case is an obsolete one.                                            *)
LEMMA ArrayAgrees ==
  ASSUME NEW cat \in {"ethtool", "pci", "i2c"}, NEW id \in DOMAIN Cases(cat)
  PROVE  \/ fn_array(cat, id) = Cases(cat)[id]
         \/ /\ cat = "ethtool" /\ id > Len(Cases(cat)) - Len(Obsolete)
            /\ fn_array(cat, id) \in {"test_end", NONE}
<1>1. Len(Obsolete) = 4
  BY DEF Obsolete
<1>2. CASE cat = "ethtool"
  <2>1. Cases(cat) = symdrive_TEST_CASE_ETHTOOL
    BY <1>2 DEF Cases
  <2>2. id \in 1 .. 45
    BY <2>1, EthtoolArray
  <2>3. fn_array(cat, id) = IF id \in DOMAIN ethtool_fn_array THEN ethtool_fn_array[id] ELSE NONE
    BY <1>2 DEF fn_array
  <2>4. CASE id \in 1 .. 41
    <3>1. id \in DOMAIN ethtool_fn_array /\ symdrive_TEST_CASE_ETHTOOL[id] = ethtool_fn_array[id]
      BY <2>4, EthtoolArray
    <3> QED
      BY <2>1, <2>3, <3>1
  <2>5. CASE id \in 42 .. 45
    <3>1. Len(Cases(cat)) - Len(Obsolete) = 41
      BY <1>1, <2>1, EthtoolArray
    <3>2. id > 41
      BY <2>5
    <3>3. id = 42 => ethtool_fn_array[id] = "test_end"
      BY EthtoolArray
    <3>4. id \in DOMAIN ethtool_fn_array => id = 42
      BY <2>5, EthtoolArray
    <3>5. fn_array(cat, id) \in {"test_end", NONE}
      BY <2>3, <3>3, <3>4
    <3> QED
      BY <1>2, <3>1, <3>2, <3>5
  <2> QED
    BY <2>2, <2>4, <2>5
<1>3. CASE cat # "ethtool"
  <2>1. Cases(cat) = <<"suspend", "resume">>
    BY <1>3 DEF Cases
  <2>2. id \in {1, 2}
    BY <2>1
  <2>3. fn_array(cat, id) = IF id \in DOMAIN pm_fn_array THEN pm_fn_array[id] ELSE NONE
    BY <1>3 DEF fn_array
  <2>4. id \in DOMAIN pm_fn_array /\ pm_fn_array[id] = <<"suspend", "resume">>[id]
    BY <2>2 DEF pm_fn_array
  <2> QED
    BY <2>1, <2>3, <2>4
<1> QED
  BY <1>2, <1>3

(* What a test that has been called leaves behind: the function that ran   *)
(* is the case's (or the case is obsolete and nothing was called), and a   *)
(* power-management test ran on the recorded driver and device.            *)
Outcome(cat, id, ran, on) ==
  /\ \/ ran \in {Cases(cat)[id], "no memory"}
     \/ cat = "ethtool" /\ id > Len(Cases(cat)) - Len(Obsolete) /\ on = NONE
  /\ cat \in PMBuses /\ on # NONE =>
       on = [drv |-> ep_state.drv[cat], dev |-> ep_state.dev[cat]] /\ NONE \notin {ep_state.drv[cat], ep_state.dev[cat]}

(* CallTest *)
LEMMA CallTestEnds ==
  ASSUME NEW cat \in {"ethtool", "pci", "i2c"}, NEW id \in DOMAIN Cases(cat), CallTest(cat, id)
  PROVE  \E how, ran, on : Ends(how, cat, id, ran, on) /\ Outcome(cat, id, ran, on)
<1> DEFINE f == fn_array(cat, id)
<1>1. CASE f = NONE /\ Ends("oops", cat, id, NONE, NONE)
  BY <1>1, ArrayAgrees DEF Outcome
<1>2. CASE f = "test_end" /\ Ends("victory", cat, id, f, NONE)
  BY <1>2, ArrayAgrees DEF Outcome
<1>3. CASE f \notin {NONE, "test_end"} /\ cat = "ethtool" /\ EthtoolCall(id, f)
  <2>1. f = Cases(cat)[id]
    BY <1>3, ArrayAgrees
  <2>2. cat \notin PMBuses
    BY <1>3 DEF PMBuses
  <2>3. CASE Ends("oops", "ethtool", id, "no memory", NONE)
    <3>1. Ends("oops", cat, id, "no memory", NONE)
      BY <1>3, <2>3
    <3>2. Outcome(cat, id, "no memory", NONE)
      BY <2>2 DEF Outcome
    <3> QED
      BY <3>1, <3>2
  <2>4. ASSUME NEW how, NEW on, Ends(how, "ethtool", id, f, on)
        PROVE  \E h, ran, o : Ends(h, cat, id, ran, o) /\ Outcome(cat, id, ran, o)
    <3>1. Ends(how, cat, id, f, on)
      BY <1>3, <2>4
    <3>2. Outcome(cat, id, f, on)
      BY <2>1, <2>2 DEF Outcome
    <3> QED
      BY <3>1, <3>2
  <2> QED
    BY <1>3, <2>3, <2>4 DEF EthtoolCall
<1>4. CASE f \notin {NONE, "test_end"} /\ cat \in PMBuses /\ PMCall(cat, id, f)
  <2>1. f = Cases(cat)[id]
    BY <1>4, ArrayAgrees
  <2>2. CASE Ends("assert", cat, id, f, NONE)
    BY <2>1, <2>2 DEF Outcome
  <2>3. ASSUME NEW how, NONE \notin {ep_state.drv[cat], ep_state.dev[cat]},
               Ends(how, cat, id, f, [drv |-> ep_state.drv[cat], dev |-> ep_state.dev[cat]])
        PROVE  \E h, ran, on : Ends(h, cat, id, ran, on) /\ Outcome(cat, id, ran, on)
    BY <2>1, <2>3 DEF Outcome
  <2> QED
    BY <1>4, <2>2, <2>3 DEF PMCall
<1> QED
  BY <1>1, <1>2, <1>3, <1>4 DEF CallTest

(* No test has been run, and none has its result: the properties of the    *)
(* results hold of it.                                                     *)
LEMMA NoTest ==
  ASSUME test = NONE
  PROVE  RightFunction /\ RightPair
BY DEF RightFunction, RightPair

(* A user asks for a test. *)
LEMMA TestRuns ==
  ASSUME TestInv, path = "running", test = NONE, driver_bus' = driver_bus,
         NEW cat \in {"ethtool", "pci", "i2c", "snd"}, NEW fn_id \in Args, ep_test_generic(cat, fn_id)
  PROVE  /\ TestInv' /\ RightFunction' /\ RightPair'
         /\ path' # "free panic" /\ (path' = "running" => test' = NONE)
<1>1. UNCHANGED <<ep_state, driverVars>> /\ device_irq_disabled' \in BOOLEAN
  BY DEF ep_test_generic
<1>2. TestInv'
  BY <1>1, TestUnchanged
<1>3. CASE path' \in {"assert", "extra"} /\ UNCHANGED test
  BY <1>2, <1>3, NoTest DEF RightFunction, RightPair
<1>4. ASSUME NEW id \in DOMAIN Cases(cat), CallTest(cat, id)
      PROVE  RightFunction' /\ RightPair' /\ path' \in {"oops", "victory", "assert"}
  <2>1. cat # "snd"
    BY <1>4 DEF Cases
  <2>2. PICK how, ran, on : Ends(how, cat, id, ran, on) /\ Outcome(cat, id, ran, on)
    BY <1>4, <2>1, CallTestEnds
  <2>3. test' = [cat |-> cat, id |-> id, ran |-> ran, on |-> on]
    BY <2>2 DEF Ends
  <2>4. test'.cat = cat /\ test'.id = id /\ test'.ran = ran /\ test'.on = on
    BY <2>3
  <2>5. RightFunction'
    <3>1. \/ ran \in {Cases(cat)[id], "no memory"}
          \/ cat = "ethtool" /\ id > Len(Cases(cat)) - Len(Obsolete) /\ on = NONE
      BY <2>2 DEF Outcome
    <3> QED
      BY <2>4, <3>1 DEF RightFunction
  <2>6. ASSUME NEW b \in PMBuses, test'.cat = b, test'.on # NONE
        PROVE  calling'[b] # NONE \/ b \in second' \/ bound'[test'.on.dev] \in {test'.on.drv, NONE}
    <3>1. on = [drv |-> ep_state.drv[b], dev |-> ep_state.dev[b]] /\ ep_state.dev[b] # NONE
      BY <2>2, <2>4, <2>6 DEF Outcome
    <3>2. on.drv = ep_state.drv[b] /\ on.dev = ep_state.dev[b]
      BY <3>1
    <3>3. RecordedOn(b)
      BY DEF TestInv, Recorded
    <3>4. calling[b] = NONE /\ b \notin second => bound[ep_state.dev[b]] \in {ep_state.drv[b], NONE}
      BY <3>1, <3>3 DEF RecordedOn, Known
    <3> QED
      BY <1>1, <2>4, <3>2, <3>4 DEF driverVars
  <2>7. RightPair'
    BY <2>6 DEF RightPair
  <2>8. path' \in {"oops", "victory", "assert"}
    BY <1>4 DEF CallTest, EthtoolCall, PMCall, Ends
  <2> QED
    BY <2>5, <2>7, <2>8
<1>5. \/ path' \in {"assert", "extra"} /\ UNCHANGED test
      \/ \E id \in DOMAIN Cases(cat) : CallTest(cat, id)
  BY DEF ep_test_generic
<1>6. CASE \E id \in DOMAIN Cases(cat) : CallTest(cat, id)
  BY <1>2, <1>4, <1>6
<1> QED
  BY <1>2, <1>3, <1>5, <1>6

-----------------------------------------------------------------------------
(* The order in which the parts come up: what a part uses is up before it. *)
LEMMA UsesBefore ==
  ASSUME NEW i \in DOMAIN InitOrder
  PROVE  Uses[InitOrder[i]] \subseteq {InitOrder[j] : j \in 1 .. i - 1}
<1>1. DOMAIN InitOrder = 1 .. 10
  BY DEF InitOrder
<1>2. InitOrder[i] \in Parts
  BY DEF Parts
<1>3. /\ InitOrder[1] = "global_lock" /\ InitOrder[2] = "function_tracker" /\ InitOrder[3] = "driver_state"
      /\ InitOrder[4] = "irqs" /\ InitOrder[5] = "enter_exit" /\ InitOrder[6] = "ep"
      /\ InitOrder[7] = "ep_control" /\ InitOrder[8] = "platform" /\ InitOrder[9] = "i2c"
      /\ InitOrder[10] = "spi"
  BY DEF InitOrder
<1>4. CASE i \in {1, 3, 6, 8, 9, 10}
  BY <1>2, <1>3, <1>4 DEF Uses
<1>5. CASE i = 2
  BY <1>2, <1>3, <1>5 DEF Uses
<1>6. CASE i = 4
  BY <1>2, <1>3, <1>6 DEF Uses
<1>7. CASE i = 5
  BY <1>2, <1>3, <1>7 DEF Uses
<1>8. CASE i = 7
  BY <1>2, <1>3, <1>8 DEF Uses
<1> QED
  BY <1>1, <1>4, <1>5, <1>6, <1>7, <1>8

(* The order in which they go down: what goes is used by none that stays. *)
LEMMA UsesAfter ==
  ASSUME NEW i \in DOMAIN FreeOrder, NEW q \in Parts,
         q \in {"ep"} \cup {FreeOrder[j] : j \in i .. Len(FreeOrder)}, q # FreeOrder[i]
  PROVE  FreeOrder[i] \notin Uses[q]
<1>1. DOMAIN FreeOrder = 1 .. 9 /\ Len(FreeOrder) = 9
  BY DEF FreeOrder
<1>2. /\ FreeOrder[1] = "spi" /\ FreeOrder[2] = "i2c" /\ FreeOrder[3] = "platform"
      /\ FreeOrder[4] = "ep_control" /\ FreeOrder[5] = "enter_exit" /\ FreeOrder[6] = "irqs"
      /\ FreeOrder[7] = "driver_state" /\ FreeOrder[8] = "function_tracker" /\ FreeOrder[9] = "global_lock"
  BY DEF FreeOrder
<1>3. CASE q = "ep"
  BY <1>3 DEF Uses
<1>4. ASSUME NEW j \in i + 1 .. 9, q = FreeOrder[j]
      PROVE  FreeOrder[i] \notin Uses[q]
  <2>1. CASE i \in 1 .. 4
    BY <1>1, <1>2, <1>4, <2>1 DEF Uses
  <2>2. CASE i \in 5 .. 6
    BY <1>1, <1>2, <1>4, <2>2 DEF Uses
  <2>3. CASE i \in 7 .. 9
    BY <1>1, <1>2, <1>4, <2>3 DEF Uses
  <2> QED
    BY <1>1, <2>1, <2>2, <2>3
<1> QED
  BY <1>1, <1>3, <1>4

(* The buses are parts of the framework. *)
LEMMA BusesAreParts == Kinds \subseteq Parts /\ BusParts = Kinds
<1>1. DOMAIN InitOrder = 1 .. 10 /\ InitOrder[8] = "platform" /\ InitOrder[9] = "i2c" /\ InitOrder[10] = "spi"
  BY DEF InitOrder
<1> QED
  BY <1>1 DEF Parts, BusParts

(* With all the parts up every wanted bus has a card, and only one can. *)
LEMMA OneIsUp ==
  ASSUME BusInv, Powered, up = Parts
  PROVE  Cardinality(params.enabled) <= 1
<1>1. params.enabled \in SUBSET Kinds
  BY DEF BusInv, BusTypeOK
<1>2. \A b, d \in params.enabled : b = d
  BY <1>1, BusesAreParts DEF BusInv, Connected, Powered, Enabled
<1>3. CASE params.enabled = {}
  BY <1>3, FS_EmptySet
<1>4. ASSUME NEW b \in params.enabled
      PROVE  Cardinality(params.enabled) = 1
  <2>1. params.enabled = {b}
    BY <1>2
  <2> QED
    BY <2>1, FS_Singleton
<1> QED
  BY <1>3, <1>4

(* The tests are where they were. *)
LEMMA TestsStay ==
  ASSUME IInv, UNCHANGED testVars, path = "running"
  PROVE  /\ TestInv' /\ Recorded' /\ test' = NONE
         /\ RightFunction' /\ RightPair' /\ Untested'
<1>1. UNCHANGED <<driver_bus, ep_state, driverVars, test, device_irq_disabled>>
  BY DEF testVars
<1>2. TestInv /\ test = NONE
  BY DEF IInv, WellFormed, TypeOK, TestInv, Untested
<1>3. device_irq_disabled' \in BOOLEAN
  BY <1>1, <1>2 DEF TestInv, TestTypeOK
<1>4. TestInv'
  BY <1>1, <1>2, <1>3, TestUnchanged
<1>5. test' = NONE
  BY <1>1, <1>2
<1> QED
  BY <1>4, <1>5 DEF TestInv, RightFunction, RightPair, Untested

(* The parts of IInv, put together again. *)
LEMMA Together ==
  ASSUME BusInv', TestInv', up' \subseteq Parts,
         phase' \in {"loading", "loaded", "unloading", "unloaded"},
         UsesInitialised', OneBus', FreePanics', Powered', Untested', RightFunction', RightPair'
  PROVE  IInv'
BY DEF BusInv, TestInv, IInv, WellFormed, TypeOK

(* A part is initialised. *)
LEMMA InitialiseKeeps ==
  ASSUME IInv, path = "running", NEW p \in Parts, Initialise(p)
  PROVE  IInv'
<1>1. /\ phase = "loading"
      /\ up' = IF path' = "running" THEN up \cup {p} ELSE up
      /\ UNCHANGED <<params, cards, testVars, phase>>
  BY DEF Initialise
<1>2. BusInv
  BY DEF IInv, WellFormed, TypeOK, BusInv
<1>3. TestInv' /\ RightFunction' /\ RightPair' /\ Untested'
  BY <1>1, TestsStay
<1>4. UsesInitialised'
  <2>1. PICK i \in DOMAIN InitOrder : InitOrder[i] = p /\ up = {InitOrder[j] : j \in 1 .. i - 1}
    BY DEF Initialise
  <2>2. Uses[p] \subseteq up
    BY <2>1, UsesBefore
  <2> QED
    BY <1>1, <2>2 DEF IInv, WellFormed, UsesInitialised
<1>5. OneBus'
  BY <1>1 DEF OneBus
<1>6. /\ BusInv'
      /\ path' \in {"running", "init panic"}
      /\ p \notin Kinds => Dev' = Dev
      /\ p \in Kinds => Initialises(p)
  <2>1. CASE p \notin BusParts
    <3>1. UNCHANGED <<params, cards, busState>> /\ path' \in {"running", "init panic"}
      BY <1>1, <2>1 DEF Initialise, BusParts
    <3> QED
      BY <1>2, <2>1, <3>1, BusUnchanged, BusesAreParts
  <2>2. CASE p = "platform"
    <3>1. initialize_platform_device
      BY <2>2 DEF Initialise, BusParts
    <3> QED
      BY <1>1, <1>2, <2>2, <3>1, InitializePlatform DEF Initialises
  <2>3. CASE p = "i2c"
    <3>1. initialize_i2c_device
      BY <2>3 DEF Initialise, BusParts
    <3> QED
      BY <1>1, <1>2, <2>3, <3>1, InitializeI2C DEF Initialises
  <2>4. CASE p = "spi"
    <3>1. initialize_spi_device
      BY <2>4 DEF Initialise, BusParts
    <3> QED
      BY <1>1, <1>2, <2>4, <3>1, InitializeSpi DEF Initialises
  <2> QED
    BY <2>1, <2>2, <2>3, <2>4 DEF BusParts
<1>7. Powered'
  <2>1. \A b \in Kinds : Enabled(b)' <=> Enabled(b)
    BY <1>1 DEF Enabled
  <2>2. ASSUME NEW b \in Kinds
        PROVE  Dev'[b] # NONE <=> Enabled(b)' /\ b \in up'
    <3>1. Dev[b] # NONE <=> Enabled(b) /\ b \in up
      BY DEF IInv, Powered
    <3>2. CASE b # p
      <4>1. Dev'[b] = Dev[b]
        BY <1>6, <3>2 DEF Initialises
      <4> QED
        BY <1>1, <2>1, <3>1, <3>2, <4>1
    <3>3. CASE b = p /\ path' = "running"
      <4>1. IF Enabled(b) THEN Dev'[b] # NONE ELSE Dev'[b] = Dev[b]
        BY <1>6, <3>3 DEF Initialises
      <4> QED
        BY <1>1, <2>1, <3>1, <3>3, <4>1
    <3>4. CASE b = p /\ path' = "init panic"
      <4>1. Dev'[b] = Dev[b]
        BY <1>6, <3>4 DEF Initialises
      <4> QED
        BY <1>1, <2>1, <3>1, <3>4, <4>1
    <3> QED
      BY <1>6, <3>2, <3>3, <3>4
  <2> QED
    BY <1>1, <2>2 DEF Powered
<1>8. FreePanics'
  BY <1>6 DEF FreePanics
<1>9. up' \subseteq Parts /\ phase' \in {"loading", "loaded", "unloading", "unloaded"}
  BY <1>1 DEF IInv, WellFormed, TypeOK
<1> QED
  BY <1>3, <1>4, <1>5, <1>6, <1>7, <1>8, <1>9, Together

(* A part is freed. *)
LEMMA FreeKeeps ==
  ASSUME IInv, path = "running", NEW p \in Parts, Free(p)
  PROVE  IInv'
<1>1. /\ phase = "unloading"
      /\ up' = IF path' = "running" THEN up \ {p} ELSE up
      /\ UNCHANGED <<params, cards, testVars, phase>>
  BY DEF Free
<1>2. BusInv
  BY DEF IInv, WellFormed, TypeOK, BusInv
<1>3. TestInv' /\ RightFunction' /\ RightPair' /\ Untested'
  BY <1>1, TestsStay
<1>4. PICK i \in DOMAIN FreeOrder :
        FreeOrder[i] = p /\ up = {"ep"} \cup {FreeOrder[j] : j \in i .. Len(FreeOrder)}
  BY DEF Free
<1>5. UsesInitialised'
  <2>1. ASSUME NEW q \in up, q # p
        PROVE  p \notin Uses[q]
    <3>1. q \in Parts
      BY DEF IInv, WellFormed, TypeOK
    <3> QED
      BY <1>4, <2>1, <3>1, UsesAfter
  <2> QED
    BY <1>1, <2>1 DEF IInv, WellFormed, UsesInitialised
<1>6. OneBus'
  BY <1>1 DEF IInv, WellFormed, OneBus
<1>7. /\ BusInv'
      /\ path' \in {"running", "free panic"}
      /\ p \notin Kinds => Dev' = Dev /\ path' = "running"
      /\ p \in Kinds => Frees(p)
  <2>1. CASE p \notin BusParts
    <3>1. UNCHANGED <<params, cards, busState>> /\ path' = "running"
      BY <1>1, <2>1 DEF Free, BusParts
    <3> QED
      BY <1>2, <2>1, <3>1, BusUnchanged, BusesAreParts
  <2>2. CASE p = "platform"
    <3>1. free_platform_device
      BY <2>2 DEF Free, BusParts
    <3> QED
      BY <1>1, <1>2, <2>2, <3>1, FreePlatform DEF Frees
  <2>3. CASE p = "i2c"
    <3>1. free_i2c_device
      BY <2>3 DEF Free, BusParts
    <3> QED
      BY <1>1, <1>2, <2>3, <3>1, FreeI2C DEF Frees
  <2>4. CASE p = "spi"
    <3>1. free_spi_device
      BY <2>4 DEF Free, BusParts
    <3> QED
      BY <1>1, <1>2, <2>4, <3>1, FreeSpi DEF Frees
  <2> QED
    BY <2>1, <2>2, <2>3, <2>4 DEF BusParts
<1>8. \A b \in Kinds : Dev[b] # NONE <=> Enabled(b) /\ b \in up
  BY DEF IInv, Powered
<1>9. Powered'
  <2>1. \A b \in Kinds : Enabled(b)' <=> Enabled(b)
    BY <1>1 DEF Enabled
  <2>2. ASSUME NEW b \in Kinds
        PROVE  Dev'[b] # NONE <=> Enabled(b)' /\ b \in up'
    <3>1. CASE b # p
      <4>1. Dev'[b] = Dev[b]
        BY <1>7, <3>1 DEF Frees
      <4> QED
        BY <1>1, <1>8, <2>1, <3>1, <4>1
    <3>2. CASE b = p /\ path' = "running"
      <4>1. Dev'[b] = IF Enabled(b) THEN NONE ELSE Dev[b]
        BY <1>7, <3>2 DEF Frees
      <4> QED
        BY <1>1, <1>8, <2>1, <3>2, <4>1
    <3>3. CASE b = p /\ path' = "free panic"
      <4>1. Dev'[b] = Dev[b]
        BY <1>7, <3>3 DEF Frees
      <4> QED
        BY <1>1, <1>8, <2>1, <3>3, <4>1
    <3> QED
      BY <1>7, <3>1, <3>2, <3>3
  <2> QED
    BY <1>1, <2>2 DEF Powered
<1>10. FreePanics'
  <2>1. CASE path' = "free panic"
    <3>1. p \in Kinds /\ Enabled(p) /\ (hotplugs = 0 => Dev[p] = NONE)
      BY <1>7, <2>1 DEF Frees
    <3>2. p \in up
      <4>1. DOMAIN FreeOrder = 1 .. 9 /\ Len(FreeOrder) = 9
        BY DEF FreeOrder
      <4> QED
        BY <1>4, <4>1
    <3>3. hotplugs # 0
      BY <1>8, <3>1, <3>2
    <3>4. hotplugs \in Nat
      BY DEF IInv, WellFormed, TypeOK, BusTypeOK
    <3>5. hotplugs' = hotplugs
      BY <1>1 DEF cards
    <3>6. hotplugs' > 0
      BY <3>3, <3>4, <3>5
    <3> QED
      BY <3>6 DEF FreePanics
  <2> QED
    BY <2>1 DEF FreePanics
<1>11. up' \subseteq Parts /\ phase' \in {"loading", "loaded", "unloading", "unloaded"}
  BY <1>1 DEF IInv, WellFormed, TypeOK
<1> QED
  BY <1>3, <1>5, <1>6, <1>7, <1>9, <1>10, <1>11, Together

(* The bus side is where it was. *)
LEMMA BusesStay ==
  ASSUME IInv, UNCHANGED <<params, busState, cards>>
  PROVE  /\ BusInv' /\ Dev' = Dev
         /\ \A b \in Kinds : Enabled(b)' <=> Enabled(b)
<1>1. BusInv
  BY DEF IInv, WellFormed, TypeOK, BusInv
<1> QED
  BY <1>1, BusUnchanged DEF Enabled

(* linux_init has brought up every part. *)
LEMMA LoadedKeeps ==
  ASSUME IInv, path = "running", Loaded
  PROVE  IInv'
<1>1. phase = "loading" /\ up = Parts /\ phase' = "loaded" /\ UNCHANGED <<params, busState, cards, path, testVars, up>>
  BY DEF Loaded, busVars
<1>2. BusInv' /\ Dev' = Dev /\ \A b \in Kinds : Enabled(b)' <=> Enabled(b)
  BY <1>1, BusesStay
<1>3. TestInv' /\ RightFunction' /\ RightPair' /\ Untested'
  BY <1>1, TestsStay
<1>4. BusInv /\ Powered
  BY DEF IInv, WellFormed, TypeOK, BusInv
<1>5. OneBus'
  BY <1>1, <1>4, OneIsUp DEF OneBus
<1>6. Powered'
  BY <1>1, <1>2, <1>4 DEF Powered
<1>7. UsesInitialised' /\ up' \subseteq Parts
  BY <1>1 DEF IInv, WellFormed, UsesInitialised
<1>8. FreePanics'
  BY <1>1 DEF FreePanics
<1> QED
  BY <1>1, <1>2, <1>3, <1>5, <1>6, <1>7, <1>8, Together

(* linux_cleanup begins ... *)
LEMMA UnloadKeeps ==
  ASSUME IInv, path = "running", Unload
  PROVE  IInv'
<1>1. phase = "loaded" /\ phase' = "unloading" /\ UNCHANGED <<params, busState, cards, path, testVars, up>>
  BY DEF Unload, busVars
<1>2. BusInv' /\ Dev' = Dev /\ \A b \in Kinds : Enabled(b)' <=> Enabled(b)
  BY <1>1, BusesStay
<1>3. TestInv' /\ RightFunction' /\ RightPair' /\ Untested'
  BY <1>1, TestsStay
<1>4. OneBus'
  BY <1>1 DEF IInv, WellFormed, OneBus
<1>5. Powered'
  BY <1>1, <1>2 DEF IInv, Powered
<1>6. UsesInitialised' /\ up' \subseteq Parts
  BY <1>1 DEF IInv, WellFormed, TypeOK, UsesInitialised
<1>7. FreePanics'
  BY <1>1 DEF FreePanics
<1> QED
  BY <1>1, <1>2, <1>3, <1>4, <1>5, <1>6, <1>7, Together

(* ... and is done. *)
LEMMA UnloadedKeeps ==
  ASSUME IInv, path = "running", Unloaded
  PROVE  IInv'
<1>1. /\ phase = "unloading" /\ up = {"ep"} /\ phase' = "unloaded" /\ up' = {}
      /\ UNCHANGED <<params, busState, cards, path, testVars>>
  BY DEF Unloaded, busVars
<1>2. BusInv' /\ Dev' = Dev /\ \A b \in Kinds : Enabled(b)' <=> Enabled(b)
  BY <1>1, BusesStay
<1>3. TestInv' /\ RightFunction' /\ RightPair' /\ Untested'
  BY <1>1, TestsStay
<1>4. OneBus'
  BY <1>1 DEF IInv, WellFormed, OneBus
<1>5. \A b \in Kinds : b \notin up
  BY <1>1
<1>6. Powered'
  BY <1>1, <1>2, <1>5 DEF IInv, Powered
<1>7. UsesInitialised' /\ up' \subseteq Parts
  BY <1>1 DEF UsesInitialised
<1>8. FreePanics'
  BY <1>1 DEF FreePanics
<1> QED
  BY <1>1, <1>2, <1>3, <1>4, <1>6, <1>7, <1>8, Together

(* A step that leaves the framework itself alone. *)
LEMMA FrameworkStays ==
  ASSUME IInv, BusInv', Dev' = Dev, UNCHANGED <<params, up, phase>>, FreePanics',
         TestInv', Untested', RightFunction', RightPair'
  PROVE  IInv'
<1>1. \A b \in Kinds : Enabled(b)' <=> Enabled(b)
  BY DEF Enabled
<1>2. Powered'
  BY <1>1 DEF IInv, Powered
<1>3. OneBus' /\ UsesInitialised' /\ up' \subseteq Parts /\ phase' \in {"loading", "loaded", "unloading", "unloaded"}
  BY DEF IInv, WellFormed, TypeOK, OneBus, UsesInitialised
<1> QED
  BY <1>2, <1>3, Together

(* A driver registers, is probed, and goes. *)
LEMMA DriverKeeps ==
  ASSUME IInv, path = "running", DriverStep
  PROVE  IInv'
<1>1. UNCHANGED <<params, busState, cards, driver_bus, test, device_irq_disabled, up, phase>>
  BY DEF DriverStep
<1>2. TestInv /\ test = NONE
  BY DEF IInv, WellFormed, TypeOK, TestInv, Untested
<1>3. TestInv' /\ path' # "free panic"
  <2>1. ASSUME NEW b \in PMBuses, NEW d \in Drivers, RegisterDriver(b, d)
        PROVE  TestInv' /\ path' # "free panic"
    BY <1>1, <1>2, <2>1, RegisterDriverKeeps DEF RegisterDriver, Killed
  <2>2. ASSUME NEW b \in PMBuses, NEW d \in Drivers, UnregisterDriver(b, d)
        PROVE  TestInv' /\ path' # "free panic"
    BY <1>1, <1>2, <2>2, UnregisterDriverKeeps DEF UnregisterDriver
  <2>3. ASSUME NEW b \in PMBuses, RegisterDriverReturns(b)
        PROVE  TestInv' /\ path' # "free panic"
    BY <1>1, <1>2, <2>3, RegisterDriverReturnsKeeps DEF RegisterDriverReturns
  <2>4. ASSUME NEW b \in PMBuses, NEW d \in Drivers, NEW v \in Devices[b], Probe(b, d, v)
        PROVE  TestInv' /\ path' # "free panic"
    BY <1>1, <1>2, <2>4, ProbeKeeps DEF Probe, Killed
  <2>5. ASSUME NEW b \in PMBuses, NEW ok \in BOOLEAN, ProbeReturns(b, ok)
        PROVE  TestInv' /\ path' # "free panic"
    BY <1>1, <1>2, <2>5, ProbeReturnsKeeps DEF ProbeReturns
  <2>6. ASSUME NEW n \in Netdevs, register_netdev(n) \/ unregister_netdev(n)
        PROVE  TestInv' /\ path' # "free panic"
    BY <1>1, <1>2, <2>6, NetdevKeeps DEF register_netdev, unregister_netdev
  <2> QED
    BY <2>1, <2>2, <2>3, <2>4, <2>5, <2>6 DEF DriverStep
<1>4. BusInv' /\ Dev' = Dev
  BY <1>1, BusesStay
<1>5. test' = NONE
  BY <1>1, <1>2
<1>6. RightFunction' /\ RightPair' /\ Untested'
  BY <1>5 DEF RightFunction, RightPair, Untested
<1>7. FreePanics'
  BY <1>3 DEF FreePanics
<1> QED
  BY <1>1, <1>3, <1>4, <1>6, <1>7, FrameworkStays

(* A user asks for a test. *)
LEMMA TestKeeps ==
  ASSUME IInv, path = "running", TestStep
  PROVE  IInv'
<1>1. UNCHANGED <<params, busState, cards, driver_bus, up, phase>>
  BY DEF TestStep
<1>2. TestInv /\ test = NONE
  BY DEF IInv, WellFormed, TypeOK, TestInv, Untested
<1>3. PICK cat \in {"ethtool", "pci", "i2c", "snd"}, id \in Args : ep_test_generic(cat, id)
  BY DEF TestStep
<1>4. /\ TestInv' /\ RightFunction' /\ RightPair'
      /\ path' # "free panic" /\ (path' = "running" => test' = NONE)
  BY <1>1, <1>2, <1>3, TestRuns
<1>5. BusInv' /\ Dev' = Dev
  BY <1>1, BusesStay
<1>6. FreePanics' /\ Untested'
  BY <1>4 DEF FreePanics, Untested
<1> QED
  BY <1>1, <1>4, <1>5, <1>6, FrameworkStays

(* An i2c driver talks to a chip. *)
LEMMA TransferKeeps ==
  ASSUME IInv, path = "running", Transfer
  PROVE  IInv'
<1>1. path' = "transfer panic" /\ UNCHANGED <<params, busState, cards, testVars, up, phase>>
  BY DEF Transfer, stub_xfer, Panic
<1>2. BusInv' /\ Dev' = Dev
  BY <1>1, BusesStay
<1>3. TestInv' /\ RightFunction' /\ RightPair' /\ Untested'
  BY <1>1, TestsStay
<1>4. FreePanics'
  BY <1>1 DEF FreePanics
<1> QED
  BY <1>1, <1>2, <1>3, <1>4, FrameworkStays

(* The card comes or goes. *)
LEMMA CardKeeps ==
  ASSUME IInv, path = "running", Hotplug, UNCHANGED <<testVars, up, phase>>
  PROVE  IInv'
<1>1. BusInv
  BY DEF IInv, WellFormed, TypeOK, BusInv
<1>2. BusInv' /\ Dev' = Dev /\ path' \in {"running", "probe panic"}
  BY <1>1, HotplugKeeps
<1>3. UNCHANGED params
  BY DEF Hotplug
<1>4. TestInv' /\ RightFunction' /\ RightPair' /\ Untested'
  BY TestsStay
<1>5. FreePanics'
  BY <1>2 DEF FreePanics
<1> QED
  BY <1>2, <1>3, <1>4, <1>5, FrameworkStays

(* The module before it is loaded. *)
LEMMA InitEstablishes == Init => IInv
<1> SUFFICES ASSUME Init
             PROVE  IInv
  OBVIOUS
<1> USE DEF Init, BusInit, TestInit
<1>1. BusTypeOK
  BY CardsAssumption DEF BusTypeOK, NoClients
<1>2. \A b \in Kinds : Dev[b] = NONE
  BY DEF Dev
<1>3. platform_private = NONE /\ i2c_private.pdev = NONE /\ spi_private.pdev = NONE
      /\ i2c_private.client = NoClients /\ spi_private.refs = 0
  OBVIOUS
<1>4. Connected
  BY <1>2, <1>3, CardsAssumption DEF Connected
<1>5. AllChipsOrNone
  <2>1. \A i \in Entries : i2c_private.client[i] = FALSE
    BY <1>3 DEF NoClients
  <2> QED
    BY <2>1 DEF AllChipsOrNone
<1>6. TestTypeOK
  BY DEF TestTypeOK
<1>7. /\ \A b \in PMBuses : calling[b] = NONE /\ probing[b] = NONE /\ registered[b] = {} /\ ep_state.dev[b] = NONE
      /\ \A v \in AllDevices : bound[v] = NONE
  OBVIOUS
<1>8. Recorded
  BY <1>7, DevicesDiffer DEF Recorded, InFlight, RecordedOn
<1>9. WellFormed
  BY <1>1, <1>6 DEF WellFormed, TypeOK, UsesInitialised, OneBus
<1>10. Powered
  BY <1>2 DEF Powered
<1>11. FreePanics /\ Untested /\ RightFunction /\ RightPair
  BY DEF FreePanics, Untested, RightFunction, RightPair
<1> QED
  BY <1>4, <1>5, <1>8, <1>9, <1>10, <1>11 DEF IInv

(* The invariant is inductive. *)
LEMMA NextKeeps == IInv /\ [Next]_vars => IInv'
<1> SUFFICES ASSUME IInv, [Next]_vars
             PROVE  IInv'
  OBVIOUS
<1>1. CASE UNCHANGED vars
  <2>1. UNCHANGED <<params, busState, cards, path, testVars, up, phase>>
    BY <1>1 DEF vars, busVars
  <2>2. UNCHANGED <<driver_bus, ep_state, driverVars, test, device_irq_disabled>>
    BY <2>1 DEF testVars
  <2>3. BusInv' /\ Dev' = Dev
    BY <2>1, BusesStay
  <2>4. TestInv
    BY DEF IInv, WellFormed, TypeOK, TestInv
  <2>5. TestInv'
    BY <2>2, <2>4, TestUnchanged DEF TestInv, TestTypeOK
  <2>6. FreePanics' /\ Untested'
    BY <2>1, <2>2 DEF IInv, FreePanics, Untested, cards
  <2>7. RightFunction' /\ RightPair'
    BY <2>1, <2>2 DEF IInv, RightFunction, RightPair, driverVars
  <2> QED
    BY <2>1, <2>3, <2>5, <2>6, <2>7, FrameworkStays
<1>2. CASE Next
  <2>1. path = "running"
    BY <1>2 DEF Next
  <2>2. ASSUME NEW p \in Parts, Initialise(p)
        PROVE  IInv'
    BY <2>1, <2>2, InitialiseKeeps
  <2>3. ASSUME NEW p \in Parts, Free(p)
        PROVE  IInv'
    BY <2>1, <2>3, FreeKeeps
  <2> QED
    BY <1>2, <2>1, <2>2, <2>3, LoadedKeeps, UnloadKeeps, UnloadedKeeps, DriverKeeps, TestKeeps,
       TransferKeeps, CardKeeps DEF Next
<1> QED
  BY <1>1, <1>2

-----------------------------------------------------------------------------
(* Every reachable state satisfies the inductive invariant. *)
THEOREM Invariance == Spec => []IInv
<1>1. Init => IInv
  BY InitEstablishes
<1>2. IInv /\ [Next]_vars => IInv'
  BY NextKeeps
<1> QED
  BY <1>1, <1>2, PTL DEF Spec

(* linux_init and linux_cleanup keep every part up while another one uses  *)
(* it, whichever call fails, and the framework never comes up with two     *)
(* buses: there is one card, and initialize_pci_device panics in the       *)
(* second.                                                                 *)
THEOREM FrameworkIsWellFormed == Spec => []WellFormed
<1>1. IInv => WellFormed
  BY DEF IInv
<1> QED
  BY <1>1, Invariance, PTL

(* The i2c chips come up all or not at all (alloc_devices), the kernel's   *)
(* clients are those the framework will take back, and stub_xfer knows     *)
(* each one's address; for any list of addresses and any refusal.          *)
THEOREM ChipsComeTogether == Spec => []AllChipsOrNone
<1>1. IInv => AllChipsOrNone
  BY DEF IInv
<1> QED
  BY <1>1, Invariance, PTL

(* Nothing is left with the kernel when the module is gone, and a free     *)
(* panics only if the card was bound or unbound since it was initialised   *)
(* (pci_platform_remove_one).                                              *)
THEOREM NothingIsLeft == Spec => []NothingLeft
<1>1. IInv => NothingLeft
  <2> SUFFICES ASSUME IInv
               PROVE  NothingLeft
    OBVIOUS
  <2>1. ASSUME phase = "unloaded"
        PROVE  kernel = {} /\ spi_private.refs = 0 /\ pci_cur_device = NONE
    <3>1. \A b \in Kinds : Dev[b] = NONE
      BY <2>1 DEF IInv, Powered
    <3>2. PciDriver \notin kernel
      BY <3>1 DEF IInv, Connected
    <3>3. BusInv
      BY DEF IInv, WellFormed, TypeOK, BusInv
    <3> QED
      BY <3>2, <3>3, NothingYet
  <2>2. path = "free panic" => hotplugs > 0
    BY DEF IInv, FreePanics
  <2> QED
    BY <2>1, <2>2 DEF NothingLeft
<1> QED
  BY <1>1, Invariance, PTL

(* A test calls the function that the enumeration names by its number,     *)
(* although initialize_ep fills the array by position; only the obsolete   *)
(* numbers find none.                                                      *)
THEOREM TestsCallTheirFunction == Spec => []RightFunction
<1>1. IInv => RightFunction
  BY DEF IInv
<1> QED
  BY <1>1, Invariance, PTL

(* A power-management test never pairs a driver with a device that belongs *)
(* to another one, outside a registration in flight and a second driver on *)
(* the bus, although ep_state keeps what it was told last.                 *)
THEOREM TestsUseAPair == Spec => []RightPair
<1>1. IInv => RightPair
  BY DEF IInv
<1> QED
  BY <1>1, Invariance, PTL
=============================================================================
