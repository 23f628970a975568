------------------------------- MODULE Buses -------------------------------
(***************************************************************************)
(* The fake buses of the framework module: gtf/bus_generic_pci.c finds one *)
(* symbolic PCI card, and gtf/bus_platform.c, gtf/bus_i2c.c and            *)
(* gtf/bus_spi.c put a device of their own kind on top of it.  Which of    *)
(* them are wanted, and the addresses of the i2c chips, are parameters of  *)
(* the module.                                                             *)
(*                                                                         *)
(* Each initialize and free function is one action.  Most failures stop    *)
(* the machine (panic).  The kernel may bind and unbind the card at any    *)
(* time in between.                                                        *)
(***************************************************************************)
EXTENDS Integers, FiniteSets

CONSTANTS
  Cards,       \* PCI cards with the framework's made-up identifiers
  MAX_CHIPS,
  Addresses,   \* i2c addresses a user may write, 0 for an unused entry
  MaxHotplug,  \* bound on the bindings and unbindings of a path
  NONE

Kinds == {"platform", "i2c", "spi"}
Entries == 1 .. MAX_CHIPS

ASSUME ChipsAssumption == MAX_CHIPS \in Nat \ {0} /\ Addresses \subseteq Nat /\ 0 \in Addresses
ASSUME CardsAssumption == IsFiniteSet(Cards) /\ NONE \notin Cards /\ MaxHotplug \in Nat

VARIABLES
  params,           \* g_*_enable, g_i2c_chip_addr
  pci_cur_device,
  platform_private, \* pdev
  i2c_private,      \* pdev and client
  spi_private,      \* pdev and the references held on the master
  kernel,           \* what the kernel has been given and not taken back
  plugged,          \* cards in the machine
  hotplugs,         \* bindings and unbindings so far
  path

busState == <<pci_cur_device, platform_private, i2c_private, spi_private, kernel>>
cards == <<plugged, hotplugs>>
busVars == <<params, busState, cards, path>>

Client(i) == <<"client", i>>
Private(c) == <<"private", c>>
Things == {<<"pci_driver">>, <<"platform_device">>, <<"i2c_adapter">>, <<"spi_bus">>}
            \cup {Client(i) : i \in Entries} \cup {Private(c) : c \in Cards}

NoClients == [i \in Entries |-> FALSE]

BusTypeOK ==
  /\ params \in [enabled : SUBSET Kinds, g_i2c_chip_addr : [Entries -> Addresses]]
  /\ pci_cur_device \in Cards \cup {NONE}
  /\ platform_private \in Cards \cup {NONE}
  /\ i2c_private \in [pdev : Cards \cup {NONE}, client : [Entries -> BOOLEAN]]
  /\ spi_private \in [pdev : Cards \cup {NONE}, refs : 0 .. 2]
  /\ kernel \subseteq Things
  /\ plugged \subseteq Cards
  /\ hotplugs \in 0 .. MaxHotplug

(* The parameters and the machine the module is loaded into; the addresses *)
(* are given when i2c is wanted.                                           *)
BusInit ==
  /\ params \in [enabled : SUBSET Kinds, g_i2c_chip_addr : [Entries -> Addresses]]
  /\ "i2c" \notin params.enabled => params.g_i2c_chip_addr = [i \in Entries |-> 0]
  /\ pci_cur_device = NONE
  /\ platform_private = NONE
  /\ i2c_private = [pdev |-> NONE, client |-> NoClients]
  /\ spi_private = [pdev |-> NONE, refs |-> 0]
  /\ kernel = {}
  /\ plugged \in SUBSET Cards
  /\ hotplugs = 0
  /\ path = "running"

Panic(where) == path' = where /\ UNCHANGED <<params, busState, cards>>

Enabled(b) == b \in params.enabled

-----------------------------------------------------------------------------
(* The card.  pci_platform_probe allocates the private structure and       *)
(* panics when there already is a current card, or when something fails.   *)
MayProbe(c) == pci_cur_device = NONE

(* initialize_pci_device succeeds when the kernel accepts the driver and   *)
(* has exactly one card for it: registering the same driver twice fails,   *)
(* and so does a second card, and none at all.                             *)
InitializePci(c) == <<"pci_driver">> \notin kernel /\ plugged = {c} /\ MayProbe(c)

PciThings(c) == {<<"pci_driver">>, Private(c)}

(* free_pci_device and pci_platform_remove_one: the bus gives back the     *)
(* card it was given.                                                      *)
MayFreePci(dev) == dev = pci_cur_device /\ dev # NONE

(* The kernel binds the driver to a card that was not bound, or takes one  *)
(* away.  pci_platform_probe with a current card panics.                   *)
Hotplug ==
  /\ hotplugs < MaxHotplug /\ hotplugs' = hotplugs + 1
  /\ \E c \in Cards : plugged' \in {plugged \cup {c}, plugged \ {c}} /\ plugged' # plugged
  /\ LET new == plugged' \ plugged
         driven == <<"pci_driver">> \in kernel
     IN /\ \/ \E c \in new : driven /\ ~MayProbe(c) /\ path' = "probe panic" /\ UNCHANGED busState
           \/ \E c \in new : driven /\ MayProbe(c)
                /\ pci_cur_device' = c
                /\ kernel' = kernel \cup {Private(c)}
                /\ UNCHANGED <<platform_private, i2c_private, spi_private, path>>
           \/ \E c \in plugged \ plugged' : Private(c) \in kernel
                /\ pci_cur_device' = NONE
                /\ kernel' = kernel \ {Private(c)}
                /\ UNCHANGED <<platform_private, i2c_private, spi_private, path>>
           \/ /\ \A c \in new : ~driven
              /\ \A c \in plugged \ plugged' : Private(c) \notin kernel
              /\ UNCHANGED <<busState, path>>
  /\ UNCHANGED params

-----------------------------------------------------------------------------
(* initialize_platform_device, setup_platform_device *)
initialize_platform_device ==
  \/ ~Enabled("platform") /\ UNCHANGED <<busState, path>>
  \/ Enabled("platform") /\ path' = "init panic" /\ UNCHANGED busState
  \/ /\ Enabled("platform")
     /\ platform_private = NONE
     /\ \E c \in Cards :
          /\ InitializePci(c)
          /\ pci_cur_device' = c
          /\ platform_private' = c
          /\ kernel' = kernel \cup PciThings(c) \cup {<<"platform_device">>}
     /\ UNCHANGED <<i2c_private, spi_private, path>>

free_platform_device ==
  \/ ~Enabled("platform") /\ UNCHANGED <<busState, path>>
  \/ /\ Enabled("platform") /\ ~MayFreePci(platform_private)
     /\ path' = "free panic" /\ UNCHANGED busState
  \/ /\ Enabled("platform") /\ MayFreePci(platform_private)
     /\ pci_cur_device' = NONE
     /\ platform_private' = NONE
     /\ kernel' = kernel \ (PciThings(platform_private) \cup {<<"platform_device">>})
     /\ UNCHANGED <<i2c_private, spi_private, path>>

-----------------------------------------------------------------------------
(* The i2c chips are the entries before the first 0.                       *)
Chips == {i \in Entries : \A j \in 1 .. i : params.g_i2c_chip_addr[j] # 0}

(* alloc_chips *)
alloc_chips == \A i \in Chips : params.g_i2c_chip_addr[i] \in 3 .. 119

(* cleanup_devices *)
cleanup_devices(client) == [i \in Entries |-> client[i] /\ i \notin Chips]

(* Mutant: the devices made before the failure are kept.                   *)
alloc_devices_kept(made) == [i \in Entries |-> i \in Chips /\ i <= made]

(* alloc_devices, when the kernel makes the first `made' devices: if it    *)
(* refuses one, those before it are removed and nothing is said.           *)
alloc_devices(made) ==
  LET client == [i \in Entries |-> i \in Chips /\ i <= made] IN
  IF \A i \in Chips : client[i] THEN client ELSE cleanup_devices(client)

(* The kernel refuses a second device at an address.                       *)
MayMake(made) ==
  \A i, j \in Chips : i < j /\ j <= made => params.g_i2c_chip_addr[i] # params.g_i2c_chip_addr[j]

Clients(client) == {Client(i) : i \in {e \in Entries : client[e]}}

(* initialize_i2c_device, setup_i2c_devices *)
initialize_i2c_device ==
  \/ ~Enabled("i2c") /\ UNCHANGED <<busState, path>>
  \/ Enabled("i2c") /\ path' = "init panic" /\ UNCHANGED busState
  \/ /\ Enabled("i2c")
     /\ i2c_private.pdev = NONE
     /\ Chips # {} /\ alloc_chips
     /\ \E c \in Cards, made \in 0 .. MAX_CHIPS :
          /\ InitializePci(c)
          /\ MayMake(made)
          /\ pci_cur_device' = c
          /\ i2c_private' = [pdev |-> c, client |-> alloc_devices(made)]
          /\ kernel' = kernel \cup PciThings(c) \cup {<<"i2c_adapter">>} \cup Clients(alloc_devices(made))
     /\ UNCHANGED <<platform_private, spi_private, path>>

(* Mutant: the adapter goes, the devices on it stay.                       *)
free_i2c_device_only_adapter ==
  \/ ~Enabled("i2c") /\ UNCHANGED <<busState, path>>
  \/ /\ Enabled("i2c") /\ ~MayFreePci(i2c_private.pdev)
     /\ path' = "free panic" /\ UNCHANGED busState
  \/ /\ Enabled("i2c") /\ MayFreePci(i2c_private.pdev)
     /\ pci_cur_device' = NONE
     /\ i2c_private' = [pdev |-> NONE, client |-> NoClients]
     /\ kernel' = kernel \ (PciThings(i2c_private.pdev) \cup {<<"i2c_adapter">>})
     /\ UNCHANGED <<platform_private, spi_private, path>>

free_i2c_device ==
  \/ ~Enabled("i2c") /\ UNCHANGED <<busState, path>>
  \/ /\ Enabled("i2c") /\ ~MayFreePci(i2c_private.pdev)
     /\ path' = "free panic" /\ UNCHANGED busState
  \/ /\ Enabled("i2c") /\ MayFreePci(i2c_private.pdev)
     /\ pci_cur_device' = NONE
     /\ i2c_private' = [pdev |-> NONE, client |-> cleanup_devices(i2c_private.client)]
     /\ kernel' = kernel \ (PciThings(i2c_private.pdev) \cup {<<"i2c_adapter">>} \cup Clients(i2c_private.client))
     /\ UNCHANGED <<platform_private, spi_private, path>>

(* stub_xfer: the search for the chip; an address that is not there is     *)
(* answered with -ENODEV.                                                  *)
stub_xfer_finds(addr) == \E i \in Chips : params.g_i2c_chip_addr[i] = addr

(* The transfers that stub_xfer panics on: three it leaves to be finished, *)
(* and whatever it does not know.                                          *)
Unfinished == {"block_broken", "block_proc_call", "block_data", "unsupported"}
Protocols == {"quick", "byte", "byte_data", "word_data", "proc_call", "i2c_block_data"} \cup Unfinished

(* A driver of the chip at entry i talks to it.  What comes back is        *)
(* symbolic (master_xfer, process_message, symspi_txrx_bufs): only the     *)
(* unfinished protocols matter to the state.                               *)
stub_xfer(i, protocol) ==
  /\ Client(i) \in kernel
  /\ stub_xfer_finds(params.g_i2c_chip_addr[i])
  /\ protocol \in Unfinished
  /\ Panic("transfer panic")

-----------------------------------------------------------------------------
(* initialize_spi_device, setup_spi_devices: spi_alloc_master and          *)
(* spi_master_get each take a reference.                                   *)
initialize_spi_device ==
  \/ ~Enabled("spi") /\ UNCHANGED <<busState, path>>
  \/ Enabled("spi") /\ path' = "init panic" /\ UNCHANGED busState
  \/ /\ Enabled("spi")
     /\ \E c \in Cards :
          /\ InitializePci(c)
          /\ pci_cur_device' = c
          /\ spi_private' = [pdev |-> c, refs |-> 2]
          /\ kernel' = kernel \cup PciThings(c) \cup {<<"spi_bus">>}
     /\ UNCHANGED <<platform_private, i2c_private, path>>

(* cleanup_spi_device: spi_bitbang_stop takes the devices away and drops   *)
(* one reference, spi_master_put the other.                                *)
cleanup_spi_device == [spi_private EXCEPT !.refs = @ - 2, !.pdev = NONE]

free_spi_device ==
  \/ ~Enabled("spi") /\ UNCHANGED <<busState, path>>
  \/ /\ Enabled("spi") /\ ~MayFreePci(spi_private.pdev)
     /\ path' = "free panic" /\ UNCHANGED busState
  \/ /\ Enabled("spi") /\ MayFreePci(spi_private.pdev)
     /\ pci_cur_device' = NONE
     /\ spi_private' = cleanup_spi_device
     /\ kernel' = kernel \ (PciThings(spi_private.pdev) \cup {<<"spi_bus">>})
     /\ UNCHANGED <<platform_private, i2c_private, path>>
=============================================================================
