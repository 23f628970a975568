--------------------------- MODULE ObjectTracker ---------------------------
(***************************************************************************)
(* The object tracker of gtf/test_state.c (generic_allocator,              *)
(* generic_free, generic_lock_allocator, assert_allocated, the new-object  *)
(* list) as driven by the checks of gtf/misc_checks/main.c, pci.c,         *)
(* class.c, driver_core.c and the transmit check of                        *)
(* gtf/structs/net_device_ops.c.                                           *)
(*                                                                         *)
(* The check of an allocator runs after the kernel's function and the      *)
(* check of a free function before it, each under the global lock; in      *)
(* between the kernel may hand the address to another thread.  objs is the *)
(* map that HashTable implements; heap is what the kernel has handed out.  *)
(*                                                                         *)
(* The table has one entry per number, and legal calls can give a number   *)
(* to two things at once: the driver's own struct device that kmalloc made *)
(* and device_register registers, one attribute that device_create_file    *)
(* adds to two devices, a bus address, a port or a physical address that   *)
(* equals a pointer, two packets that share a buffer, a lock whose key     *)
(* stays when the memory around it is freed.  The tracker is wrong about   *)
(* such an address from then on, and it joins lost.                        *)
(***************************************************************************)
EXTENDS Integers, FiniteSets

CONSTANTS
  Threads,
  Addresses,
  MaxSane,     \* the largest object size that is not "insane"
  Allocators,  \* allocator checks the driver's calls run, of AllAllocators
  CopyKinds,   \* kinds of object the driver copies user data into
  Faulty,      \* TRUE: the driver also makes illegal calls
  NONE

(* Sizes a driver asks for, what -1 counts as, and what is refused.        *)
Sizes == 0 .. MaxSane + 1
UNKNOWN == MaxSane + 2
Insane(n) == n # UNKNOWN /\ (n = 0 \/ n > MaxSane)

-----------------------------------------------------------------------------
(* What each allocator check does.  kind: the kernel's kind of object;     *)
(* origin: what the tracker records; size: the recorded size (as asked,    *)
(* -1, the number of pages, or the address of the size); refused: what     *)
(* happens when the kernel's function fails (nothing is recorded, the      *)
(* address is recorded all the same, or the check follows a NULL pointer). *)
Allocator(kind, origin, size, refused) ==
  [kind |-> kind, origin |-> origin, size |-> size, refused |-> refused]

__kmalloc == Allocator("kmalloc", "KMALLOC", "asked", "ignored")
kstrdup == Allocator("kmalloc", "KMALLOC", "unknown", "ignored")
vmalloc == Allocator("vmalloc", "VMALLOC", "asked", "ignored")
__get_free_pages == Allocator("pages", "GET_FREE_PAGES", "pages", "ignored")
dma_alloc_coherent == Allocator("dma", "DMA_ALLOC_COHERENT", "asked", "ignored")
ioremap_nocache == Allocator("ioremap", "IOREMAP", "asked", "ignored")
pci_ioremap_bar == Allocator("ioremap", "IOREMAP", "unknown", "ignored")
usb_alloc_urb == Allocator("urb", "ALLOC_URB", "unknown", "ignored")
alloc_etherdev_mqs == Allocator("netdev", "ALLOC_ETHERDEV_MQS", "unknown", "ignored")
pci_map_single == Allocator("dmamap", "PCI_MAP_SINGLE", "asked", "ignored")
pci_map_page == Allocator("pagemap", "PCI_MAP_PAGE", "asked", "ignored")
device_create_file == Allocator("file", "DEVICEFILE_CREATE", "unknown", "ignored")
__class_create == Allocator("class", "CLASS_CREATE", "unknown", "ignored")
__netdev_alloc_skb == Allocator("skb", "DEV_ALLOC_SKB", "unknown", "ignored")
dev_alloc_skb == Allocator("skb", "DEV_ALLOC_SKB", "unknown", "oops")
__alloc_skb == Allocator("skb", "DEV_ALLOC_SKB", "address", "oops")
device_register == Allocator("device", "DEVICE_REGISTER", "unknown", "recorded")
__request_region == Allocator("region", "KMALLOC", "asked", "recorded")

AllAllocators ==
  {__kmalloc, kstrdup, vmalloc, __get_free_pages, dma_alloc_coherent, ioremap_nocache,
   pci_ioremap_bar, usb_alloc_urb, alloc_etherdev_mqs, pci_map_single, pci_map_page,
   device_create_file, __class_create, __netdev_alloc_skb, dev_alloc_skb, __alloc_skb,
   device_register, __request_region}

(* What each free check does: the origins it accepts.  A NULL pointer is   *)
(* let through by kfree, vfree and usb_free_urb and changes nothing; the   *)
(* driver gives none to the others.                                        *)
Free(kind, origins) == [kind |-> kind, origins |-> origins]

kfree == Free("kmalloc", {"KMALLOC"})
vfree == Free("vmalloc", {"VMALLOC"})
free_pages == Free("pages", {"GET_FREE_PAGES"})
dma_free_coherent == Free("dma", {"DMA_ALLOC_COHERENT"})
iounmap == Free("ioremap", {"IOREMAP"})
usb_free_urb == Free("urb", {"ALLOC_URB"})
free_netdev == Free("netdev", {"ALLOC_ETHERDEV_MQS"})
pci_unmap_single == Free("dmamap", {"PCI_MAP_SINGLE"})
pci_unmap_page == Free("pagemap", {"PCI_MAP_PAGE"})
device_remove_file == Free("file", {"DEVICEFILE_CREATE"})
class_destroy == Free("class", {"CLASS_CREATE"})
device_unregister == Free("device", {"DEVICE_REGISTER", "GET_DEVICE"})
__release_region == Free("region", {"KMALLOC"})

kfree_skb == Free("skb", {"DEV_ALLOC_SKB"})

AllFrees ==
  {kfree, vfree, free_pages, dma_free_coherent, iounmap, usb_free_urb, free_netdev,
   pci_unmap_single, pci_unmap_page, device_remove_file, class_destroy, kfree_skb,
   device_unregister, __release_region}

(* The checks that want a tracked buffer: kinds that are legal, origins    *)
(* that are accepted.                                                      *)
usb_control_msg ==
  [kinds |-> {"kmalloc", "urb", "skb"}, origins |-> {"KMALLOC", "ALLOC_URB", "DEV_ALLOC_SKB"}]
urb_argument == [kinds |-> {"urb"}, origins |-> {"KMALLOC", "ALLOC_URB"}]
urb_buffer == [kinds |-> {"kmalloc", "skb"}, origins |-> {"KMALLOC", "DEV_ALLOC_SKB"}]

Uses == {usb_control_msg, urb_argument, urb_buffer}
Kinds == {f.kind : f \in AllAllocators}
Origins == {f.origin : f \in AllAllocators} \cup {"GET_DEVICE", "LOCK"}

(* Bus addresses, ports and physical memory are numbers of spaces of their *)
(* own, and a buffer may be mapped twice.                                  *)
Foreign == {"dmamap", "pagemap", "region"}

(* A number that names a k may also be given to an l.                      *)
Shares(k, l) ==
  {k, l} \cap Foreign # {} \/ <<k, l>> \in {<<"kmalloc", "device">>, <<"file", "file">>}

(* struct hvalue, and the kernel's view of an object.                      *)
hvalue == [origin: Origins, size: Sizes \cup {UNKNOWN}, new_object: BOOLEAN]
Object == [kind: Kinds, size: Sizes \cup {UNKNOWN}, holder: {"driver", "kernel"}]

ASSUME ConstantsAssumption ==
  /\ MaxSane \in Nat \ {0}
  /\ Allocators \subseteq AllAllocators
  /\ Faulty \in BOOLEAN
  /\ NONE \notin Addresses \cup Threads
(* A page is recorded as one byte, so copies into pages are left out.      *)
ASSUME CopyAssumption == CopyKinds \subseteq Kinds \ {"pages"}
ASSUME NoneAssumption == NONE \notin hvalue \cup Object

VARIABLES
  objs,        \* hvalue of each tracked address
  objs_dirty,  \* an object was added since the list of new ones was reset
  heap,        \* the kernel's view: what each address is, and who has it
  pc, call,    \* where each thread is, and the call it is making
  xmit,        \* the buffer of the transmission a thread is in
  fault,       \* the driver has made an illegal call
  lost,        \* addresses the tracker is known to be wrong about
  path, alarm  \* how the path ended, and the address at fault

tracker == <<objs, objs_dirty>>
thread == <<pc, call, xmit>>
ending == <<path, alarm>>
vars == <<tracker, heap, thread, fault, lost, ending>>

AllocCall == [fn: AllAllocators, addr: Addresses \cup {NONE}, size: Sizes, ok: BOOLEAN]
FreeCall == [fn: AllFrees, addr: Addresses]

(* One type invariant.                                                     *)
TypeOK ==
  /\ objs \in [Addresses -> hvalue \cup {NONE}]
  /\ objs_dirty \in BOOLEAN
  /\ heap \in [Addresses -> Object \cup {NONE}]
  /\ pc \in [Threads -> {"run", "alloc", "allocated", "free"}]
  /\ call \in [Threads -> AllocCall \cup FreeCall \cup {NONE}]
  /\ \A t \in Threads :
       /\ pc[t] \in {"alloc", "allocated"} => call[t] \in AllocCall
       /\ pc[t] = "allocated" /\ (call[t].ok \/ call[t].fn.refused = "recorded") => call[t].addr # NONE
       /\ pc[t] = "free" => call[t] \in FreeCall
  /\ xmit \in [Threads -> Addresses \cup {NONE}]
  /\ fault \in BOOLEAN
  /\ lost \subseteq Addresses
  /\ path \in {"running", "assert", "oops"}
  /\ alarm \in Addresses \cup {NONE}

(* initialize_driver_state *)
Init ==
  /\ objs = [a \in Addresses |-> NONE]
  /\ objs_dirty = FALSE
  /\ heap = [a \in Addresses |-> NONE]
  /\ pc = [t \in Threads |-> "run"]
  /\ call = [t \in Threads |-> NONE]
  /\ xmit = [t \in Threads |-> NONE]
  /\ fault = FALSE
  /\ lost = {}
  /\ path = "running"
  /\ alarm = NONE

-----------------------------------------------------------------------------
(* The driver's legal calls.  It frees what it holds, once, with the       *)
(* function of the kind; nobody else is freeing it or being given it.  A   *)
(* call about a lost address is not judged.                                *)
Held(a) == heap[a] # NONE /\ heap[a].holder = "driver"

Busy(a) == \E t \in Threads : pc[t] \in {"allocated", "free"} /\ call[t].addr = a

LegalFree(f, a) ==
  a \in lost \/ (Held(a) /\ heap[a].kind = f.kind /\ ~Busy(a))

LegalUse(u, a) ==
  a \in lost \/ (Held(a) /\ heap[a].kind \in u.kinds /\ ~Busy(a))

LegalCopy(a, n) ==
  a \in lost \/ (Held(a) /\ heap[a].kind \in CopyKinds /\ ~Busy(a) /\ n <= heap[a].size)

(* A lock is at the start of an object of the driver's, or anywhere else.  *)
LegalLock(a) ==
  a \in lost \/ ((heap[a] = NONE \/ Held(a)) /\ ~Busy(a))

Kill(reason, a) ==
  /\ path' = reason
  /\ alarm' = a
  /\ UNCHANGED <<tracker, heap, thread, lost>>

Return(t) ==
  /\ pc' = [pc EXCEPT ![t] = "run"]
  /\ call' = [call EXCEPT ![t] = NONE]

-----------------------------------------------------------------------------
(* Allocation.                                                             *)

(* The address is nobody's, or may be shared with what is there.           *)
Available(kind, a) == heap[a] # NONE => Shares(heap[a].kind, kind)

(* The driver calls an allocator; its check does nothing before the call.  *)
(* A region, a device or a file is named by the caller (its start, struct  *)
(* device or attribute), others get an address.                            *)
AskedSizes(f) == IF f.size = "asked" THEN Sizes ELSE {1}

Named(f) ==
  IF f.kind \in {"region", "device", "file"} THEN {a \in Addresses : Available(f.kind, a)} ELSE {NONE}

CallAllocator(t, f, n, a) ==
  /\ pc[t] = "run"
  /\ pc' = [pc EXCEPT ![t] = "alloc"]
  /\ call' = [call EXCEPT ![t] = [fn |-> f, addr |-> a, size |-> n, ok |-> FALSE]]
  /\ UNCHANGED <<tracker, heap, xmit, fault, lost, ending>>

(* The kernel hands out an address nobody has, but for what may share it.  *)
(* A page (order 0) holds more than any copy.                              *)
RealSize(f, n) == IF f.kind = "pages" THEN UNKNOWN ELSE n

KernelAlloc(t, a) ==
  /\ pc[t] = "alloc"
  /\ Available(call[t].fn.kind, a) /\ call[t].addr \in {NONE, a}
  /\ heap' = [heap EXCEPT ![a] = [kind |-> call[t].fn.kind, holder |-> "driver",
                                  size |-> RealSize(call[t].fn, call[t].size)]]
  /\ pc' = [pc EXCEPT ![t] = "allocated"]
  /\ call' = [call EXCEPT ![t].addr = a, ![t].ok = TRUE]
  /\ lost' = IF heap[a] = NONE THEN lost ELSE lost \cup {a}
  /\ UNCHANGED <<tracker, xmit, fault, ending>>

(* The kernel refuses: there is no pointer, but the address of a region or *)
(* device is recorded all the same.                                        *)
KernelRefuses(t) ==
  /\ pc[t] = "alloc"
  /\ pc' = [pc EXCEPT ![t] = "allocated"]
  /\ call' = IF call[t].fn.refused = "recorded" THEN call ELSE [call EXCEPT ![t].addr = NONE]
  /\ lost' = IF call[t].fn.refused = "recorded" THEN lost \cup {call[t].addr} ELSE lost
  /\ UNCHANGED <<tracker, heap, xmit, fault, ending>>

(* objs_value: the size that is recorded.                                  *)
RecordedSize(f, n) ==
  IF f.size = "asked" THEN n
  ELSE IF f.size = "unknown" THEN UNKNOWN
  ELSE IF f.size = "pages" THEN 1
  ELSE MaxSane + 1

RecordedOrigin(f, ok) ==
  IF f.kind = "device" /\ ~ok THEN "GET_DEVICE" ELSE f.origin

(* objs_value: an allocator's object is new, a lock is not.                *)
objs_value(o, n, new) == [origin |-> o, size |-> n, new_object |-> new]

(* Mutant: objs_insert does not mark the list.                             *)
objs_insert_clean(a, v) ==
  /\ objs' = [objs EXCEPT ![a] = v]
  /\ UNCHANGED objs_dirty

objs_insert(a, v) ==
  /\ objs' = [objs EXCEPT ![a] = v]
  /\ objs_dirty' = TRUE

(* The check after the allocator: generic_allocator.                       *)
AllocPost(t) ==
  LET f == call[t].fn
      a == call[t].addr
      n == RecordedSize(f, call[t].size)
      ok == call[t].ok IN
  /\ pc[t] = "allocated"
  /\ UNCHANGED fault
  /\ \/ ~ok /\ f.refused = "oops" /\ Kill("oops", NONE)
     \/ ~ok /\ f.refused = "ignored" /\ Return(t) /\ UNCHANGED <<tracker, heap, xmit, lost, ending>>
     \/ /\ ok \/ f.refused = "recorded"
        /\ \/ objs[a] # NONE /\ Kill("assert", a)
           \/ objs[a] = NONE /\ Insane(n) /\ Kill("oops", a)
           \/ /\ objs[a] = NONE /\ ~Insane(n)
              /\ objs_insert(a, objs_value(RecordedOrigin(f, ok), n, TRUE))
              /\ Return(t)
              /\ UNCHANGED <<heap, xmit, lost, ending>>

-----------------------------------------------------------------------------
(* Locks.                                                                  *)

(* Mutant: the lock's record replaces that of the object it is in.         *)
generic_lock_allocator_anew(t, a) ==
  /\ pc[t] = "run"
  /\ LegalLock(a) \/ Faulty
  /\ fault' = (fault \/ ~LegalLock(a))
  /\ objs_insert(a, objs_value("LOCK", UNKNOWN, FALSE))
  /\ lost' = IF objs[a] = NONE THEN lost \cup {a} ELSE lost
  /\ UNCHANGED <<heap, thread, ending>>

(* The check of a lock's initialisation, or of its first use: a lock at    *)
(* the start of a tracked object keeps the object's record, another gets   *)
(* one that nothing removes.                                               *)
generic_lock_allocator(t, a) ==
  /\ pc[t] = "run"
  /\ LegalLock(a) \/ Faulty
  /\ fault' = (fault \/ ~LegalLock(a))
  /\ objs_insert(a, IF objs[a] = NONE THEN objs_value("LOCK", UNKNOWN, FALSE) ELSE objs[a])
  /\ lost' = IF objs[a] = NONE THEN lost \cup {a} ELSE lost
  /\ UNCHANGED <<heap, thread, ending>>

-----------------------------------------------------------------------------
(* Free functions, and the checks that want a buffer.                      *)

(* Mutant: any origin will do.                                             *)
AcceptsAny(origins, a) == objs[a] # NONE

Accepts(origins, a) == objs[a] # NONE /\ objs[a].origin \in origins

(* An origin two kinds share, or that a refused device was recorded with,  *)
(* lets a call through that the kernel does not expect.                    *)
Confused(f, a) == heap[a] # NONE /\ heap[a].kind # f.kind /\ {heap[a].kind, f.kind} = {"kmalloc", "region"}

objs_remove(a) == objs' = [objs EXCEPT ![a] = NONE] /\ UNCHANGED objs_dirty

(* The check before a free function: generic_free.  A transmission whose   *)
(* packet is freed can only end well (XmitOK).                             *)
FreePre(t, f, a) ==
  /\ pc[t] = "run"
  /\ LegalFree(f, a) \/ Faulty
  /\ fault' = (fault \/ ~LegalFree(f, a))
  /\ \/ ~Accepts(f.origins, a) /\ Kill("assert", a)
     \/ /\ Accepts(f.origins, a)
        /\ objs_remove(a)
        /\ pc' = [pc EXCEPT ![t] = "free"]
        /\ call' = [call EXCEPT ![t] = [fn |-> f, addr |-> a]]
        /\ xmit' = [u \in Threads |-> IF xmit[u] = a THEN NONE ELSE xmit[u]]
        /\ lost' = IF Confused(f, a) THEN lost \cup {a} ELSE lost
        /\ UNCHANGED <<heap, ending>>

(* The kernel's free function.                                             *)
KernelFree(t) ==
  LET a == call[t].addr IN
  /\ pc[t] = "free"
  /\ heap' = [heap EXCEPT ![a] = NONE]
  /\ Return(t)
  /\ UNCHANGED <<tracker, xmit, fault, lost, ending>>

(* usb_control_msg and usb_submit_urb: assert_allocated stops the path.    *)
assert_allocated(t, u, a) ==
  /\ pc[t] = "run"
  /\ LegalUse(u, a) \/ Faulty
  /\ ~Accepts(u.origins, a)
  /\ fault' = (fault \/ ~LegalUse(u, a))
  /\ Kill("assert", a)

(* copy_from_user: assert_allocated_weak stops the path.                   *)
assert_allocated_weak(t, a, n) ==
  /\ pc[t] = "run"
  /\ LegalCopy(a, n) \/ Faulty
  /\ objs[a] # NONE /\ objs[a].size < n
  /\ fault' = (fault \/ ~LegalCopy(a, n))
  /\ Kill("assert", a)

-----------------------------------------------------------------------------
(* Packets: buffers the kernel gives to the driver and takes from it.      *)

(* The kernel makes, and releases, a packet of its own; a clone has the    *)
(* buffer of one that the driver has.                                      *)
Clone(a) == Held(a) /\ heap[a].kind = "skb"

KernelPacket(a) ==
  /\ Available("skb", a) \/ Clone(a)
  /\ heap' = [heap EXCEPT ![a] = [kind |-> "skb", size |-> UNKNOWN, holder |-> "kernel"]]
  /\ lost' = IF heap[a] = NONE THEN lost ELSE lost \cup {a}
  /\ UNCHANGED <<tracker, thread, fault, ending>>

KernelConsumes(a) ==
  /\ heap[a] # NONE /\ heap[a].holder = "kernel"
  /\ \A t \in Threads : xmit[t] # a
  /\ heap' = [heap EXCEPT ![a] = NONE]
  /\ UNCHANGED <<tracker, thread, fault, lost, ending>>

(* ndo_start_xmit, the check before: the packet is recorded as allocated.  *)
XmitPre(t, a) ==
  /\ pc[t] = "run" /\ xmit[t] = NONE
  /\ heap[a] # NONE /\ heap[a].holder = "kernel"
  /\ UNCHANGED fault
  /\ \/ objs[a] # NONE /\ Kill("assert", a)
     \/ /\ objs[a] = NONE
        /\ objs_insert(a, objs_value("DEV_ALLOC_SKB", UNKNOWN, TRUE))
        /\ heap' = [heap EXCEPT ![a].holder = "driver"]
        /\ xmit' = [xmit EXCEPT ![t] = a]
        /\ UNCHANGED <<pc, call, lost, ending>>

(* The driver keeps the packet: NETDEV_TX_OK.                              *)
XmitOK(t) ==
  /\ pc[t] = "run" /\ xmit[t] # NONE
  /\ xmit' = [xmit EXCEPT ![t] = NONE]
  /\ UNCHANGED <<tracker, heap, pc, call, fault, lost, ending>>

(* Mutant: the check does not look at the return value.                    *)
XmitBusyKept(t) ==
  LET a == xmit[t] IN
  /\ pc[t] = "run" /\ a # NONE
  /\ Held(a) /\ heap[a].kind = "skb" /\ ~Busy(a)
  /\ heap' = [heap EXCEPT ![a].holder = "kernel"]
  /\ xmit' = [xmit EXCEPT ![t] = NONE]
  /\ UNCHANGED <<tracker, pc, call, fault, lost, ending>>

(* It gives the packet back: the check after takes it off the table.       *)
XmitBusy(t) ==
  LET a == xmit[t] IN
  /\ pc[t] = "run" /\ a # NONE
  /\ Held(a) /\ heap[a].kind = "skb" /\ ~Busy(a)
  /\ UNCHANGED fault
  /\ \/ ~Accepts({"DEV_ALLOC_SKB"}, a) /\ Kill("assert", a)
     \/ /\ Accepts({"DEV_ALLOC_SKB"}, a)
        /\ objs_remove(a)
        /\ heap' = [heap EXCEPT ![a].holder = "kernel"]
        /\ xmit' = [xmit EXCEPT ![t] = NONE]
        /\ UNCHANGED <<pc, call, lost, ending>>

(* netif_rx: the packet is the kernel's now; its check leaves the tracker  *)
(* alone.                                                                  *)
netif_rx(t, a) ==
  /\ pc[t] = "run"
  /\ Held(a) /\ heap[a].kind = "skb" /\ ~Busy(a)
  /\ \A u \in Threads : xmit[u] # a
  /\ heap' = [heap EXCEPT ![a].holder = "kernel"]
  /\ lost' = lost \cup {a}
  /\ UNCHANGED <<tracker, thread, fault, ending>>

(* Leaving the driver for good: the list of new objects is emptied.        *)
reset_new_objects ==
  /\ objs_dirty
  /\ objs' = [a \in Addresses |-> IF objs[a] = NONE THEN NONE ELSE [objs[a] EXCEPT !.new_object = FALSE]]
  /\ objs_dirty' = FALSE
  /\ UNCHANGED <<heap, thread, fault, lost, ending>>

-----------------------------------------------------------------------------
ThreadStep(t) ==
  \/ \E f \in Allocators : \E n \in AskedSizes(f), a \in Named(f) : CallAllocator(t, f, n, a)
  \/ \E a \in Addresses : KernelAlloc(t, a)
  \/ KernelRefuses(t)
  \/ AllocPost(t)
  \/ \E f \in AllFrees, a \in Addresses : FreePre(t, f, a)
  \/ KernelFree(t)
  \/ \E a \in Addresses : generic_lock_allocator(t, a)
  \/ \E u \in Uses, a \in Addresses : assert_allocated(t, u, a)
  \/ \E a \in Addresses, n \in 1 .. MaxSane + 1 : assert_allocated_weak(t, a, n)
  \/ \E a \in Addresses : XmitPre(t, a)
  \/ XmitOK(t)
  \/ XmitBusy(t)
  \/ \E a \in Addresses : netif_rx(t, a)

KernelStep ==
  \/ \E a \in Addresses : KernelPacket(a)
  \/ \E a \in Addresses : KernelConsumes(a)
  \/ reset_new_objects

Next ==
  \/ path = "running" /\ \E t \in Threads : ThreadStep(t)
  \/ path = "running" /\ KernelStep

Spec == Init /\ [][Next]_vars

-----------------------------------------------------------------------------
(* What the tracker records is what the driver has: outside the calls in   *)
(* progress, and the addresses a check is known to mishandle (lost), an    *)
(* address is in the table exactly when the kernel has given it to the     *)
(* driver and not got it back (generic_allocator, generic_free,            *)
(* ndo_start_xmit).                                                        *)
TrackerAgrees ==
  \A a \in Addresses \ lost : objs[a] # NONE <=> Held(a) /\ ~Busy(a)

(* A free function that the check lets through is given an object of its   *)
(* kind which the driver has, and no second thread is freeing it: double   *)
(* and mismatched frees never reach the kernel (generic_free).             *)
FreeSafe ==
  \A t \in Threads :
    pc[t] = "free" /\ call[t].addr \in Addresses \ lost =>
      /\ Held(call[t].addr)
      /\ heap[call[t].addr].kind = call[t].fn.kind
      /\ \A u \in Threads \ {t} : pc[u] = "free" => call[u].addr # call[t].addr

(* A path is stopped only for an illegal call of the driver, whatever      *)
(* order two threads allocate and free in and however soon the kernel      *)
(* reuses an address; the exceptions are the addresses in lost.            *)
NoFalseAlarm ==
  path = "assert" => fault \/ alarm \in lost

(* reset_new_objects may skip the table when objs_dirty is off: no object  *)
(* in it is marked new then.                                               *)
DirtyCoversNew ==
  ~objs_dirty => \A a \in Addresses : objs[a] # NONE => ~objs[a].new_object
=============================================================================
