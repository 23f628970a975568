------------------------ MODULE ObjectTrackerProofs ------------------------
(***************************************************************************)
(* Proofs about ObjectTracker, for any threads, addresses and sizes and    *)
(* all the allocator checks: the table is what the driver has, no wrong    *)
(* free gets past the checks, and no legal call is stopped by them.  The   *)
(* inductive invariant says of each address that is not lost that it is    *)
(* either in the table, with an origin that fits its kind and a size that  *)
(* covers it, or claimed by exactly one thread between the kernel's        *)
(* function and its check, or not the driver's.                            *)
(***************************************************************************)
EXTENDS ObjectTracker, TLAPS

(* The origins under which the checks record each kind of object.          *)
Matches(k, o) ==
  \/ k \in {"kmalloc", "region"} /\ o = "KMALLOC"
  \/ k = "vmalloc" /\ o = "VMALLOC"
  \/ k = "pages" /\ o = "GET_FREE_PAGES"
  \/ k = "dma" /\ o = "DMA_ALLOC_COHERENT"
  \/ k = "ioremap" /\ o = "IOREMAP"
  \/ k = "urb" /\ o = "ALLOC_URB"
  \/ k = "netdev" /\ o = "ALLOC_ETHERDEV_MQS"
  \/ k = "dmamap" /\ o = "PCI_MAP_SINGLE"
  \/ k = "pagemap" /\ o = "PCI_MAP_PAGE"
  \/ k = "file" /\ o = "DEVICEFILE_CREATE"
  \/ k = "class" /\ o = "CLASS_CREATE"
  \/ k = "skb" /\ o = "DEV_ALLOC_SKB"
  \/ k = "device" /\ o = "DEVICE_REGISTER"

(* What a record of an allocator check may be.                             *)
AllocatorRight(f) ==
  /\ Matches(f.kind, f.origin)
  /\ f.size \in {"asked", "unknown", "pages", "address"}
  /\ f.size = "pages" => f.kind = "pages"
  /\ f.refused \in {"ignored", "oops", "recorded"}
  /\ f.refused = "recorded" => f.kind \in {"region", "device"}

(* Each allocator check records an origin that fits.                       *)
LEMMA AllocatorsRight == \A f \in AllAllocators : AllocatorRight(f)
BY DEF AllocatorRight, Matches, AllAllocators, Allocator, __kmalloc, kstrdup, vmalloc,
  __get_free_pages, dma_alloc_coherent, ioremap_nocache, pci_ioremap_bar, usb_alloc_urb,
  alloc_etherdev_mqs, pci_map_single, pci_map_page, device_create_file, __class_create,
  __netdev_alloc_skb, dev_alloc_skb, __alloc_skb, device_register, __request_region

(* The kinds and origins are those of the allocators.                      *)
LEMMA AllocatorType ==
  /\ \A f \in AllAllocators : f.kind \in Kinds /\ f.origin \in Origins
  /\ {"GET_DEVICE", "LOCK"} \subseteq Origins
BY DEF Kinds, Origins

(* Packets have a kind and an origin.                                      *)
LEMMA PacketType == "skb" \in Kinds /\ "DEV_ALLOC_SKB" \in Origins
BY DEF Kinds, Origins, AllAllocators, dev_alloc_skb, Allocator

(* A free check accepts its own kind, and another only where an origin is  *)
(* shared.                                                                 *)
LEMMA FreesRight ==
  ASSUME NEW f \in AllFrees, NEW k, NEW o, Matches(k, o)
  PROVE  /\ k = f.kind => o \in f.origins
         /\ o \in f.origins => k = f.kind \/ {k, f.kind} = {"kmalloc", "region"}
BY DEF Matches, AllFrees, Free, kfree, vfree, free_pages, dma_free_coherent,
  iounmap, usb_free_urb, free_netdev, pci_unmap_single, pci_unmap_page, device_remove_file,
  class_destroy, kfree_skb, device_unregister, __release_region

(* A check that wants a buffer accepts the kinds that are legal for it.    *)
LEMMA UsesRight ==
  ASSUME NEW u \in Uses, NEW k \in u.kinds, NEW o, Matches(k, o)
  PROVE  o \in u.origins
BY DEF Matches, Uses, usb_control_msg, urb_argument, urb_buffer

(* What is recorded covers what the kernel gave, but for pages.            *)
LEMMA RecordedCovers ==
  ASSUME NEW f \in AllAllocators, NEW n \in Sizes
  PROVE  /\ RecordedSize(f, n) \in Sizes \cup {UNKNOWN}
         /\ RealSize(f, n) \in Sizes \cup {UNKNOWN}
         /\ f.kind # "pages" /\ ~Insane(RecordedSize(f, n)) => RealSize(f, n) <= RecordedSize(f, n)
BY AllocatorsRight, ConstantsAssumption DEF AllocatorRight, RecordedSize, RealSize, Insane, Sizes, UNKNOWN

-----------------------------------------------------------------------------
(* A thread between the kernel's function and its check, on either side.   *)
Claims(t, a) == pc[t] \in {"allocated", "free"} /\ call[t].addr = a

(* What the tracker knows of an address, and who else has it.              *)
Tracked(a) ==
  objs[a] # NONE =>
    /\ Held(a)
    /\ Matches(heap[a].kind, objs[a].origin)
    /\ heap[a].kind # "pages" => heap[a].size <= objs[a].size

Covered(a) == Held(a) => objs[a] # NONE \/ \E t \in Threads : Claims(t, a)

Claimed(a) ==
  \A t \in Threads : Claims(t, a) =>
    /\ Held(a) /\ objs[a] = NONE
    /\ heap[a].kind = call[t].fn.kind
    /\ pc[t] = "allocated" => call[t].ok /\ heap[a].size = RealSize(call[t].fn, call[t].size)
    /\ \A u \in Threads : Claims(u, a) => u = t

AddrInv(a) == Tracked(a) /\ Covered(a) /\ Claimed(a)

AllAddr == \A a \in Addresses \ lost : AddrInv(a)

(* Only packets are the kernel's.                                          *)
KernelHeld == \A a \in Addresses : heap[a] # NONE /\ heap[a].holder = "kernel" => heap[a].kind = "skb"

(* A call that has not been answered, or was refused.                      *)
CallOK(t) ==
  /\ pc[t] = "alloc" => ~call[t].ok
  /\ pc[t] \in {"alloc", "allocated"} /\ call[t].fn.refused = "recorded" => call[t].addr # NONE
  /\ pc[t] = "allocated" /\ call[t].ok => call[t].addr # NONE
  /\ pc[t] = "allocated" /\ ~call[t].ok /\ call[t].addr # NONE => call[t].addr \in lost

CallInv == \A t \in Threads : CallOK(t)

IInv == TypeOK /\ AllAddr /\ KernelHeld /\ CallInv /\ DirtyCoversNew /\ NoFalseAlarm

(* An address that a step does not touch stays as it is.                   *)
LEMMA Frame ==
  ASSUME NEW a, AddrInv(a), objs'[a] = objs[a], heap'[a] = heap[a],
         \A t \in Threads : Claims(t, a)' <=> Claims(t, a),
         \A t \in Threads : Claims(t, a) => pc'[t] = pc[t] /\ call'[t] = call[t]
  PROVE  AddrInv(a)'
<1>1. Held(a)' = Held(a)
  BY DEF Held
<1>2. Tracked(a)'
  BY <1>1 DEF AddrInv, Tracked
<1>3. Covered(a)'
  BY <1>1 DEF AddrInv, Covered
<1>4. Claimed(a)'
  BY <1>1 DEF AddrInv, Claimed
<1> QED
  BY <1>2, <1>3, <1>4 DEF AddrInv

(* The first state.                                                        *)
LEMMA InitInv == Init => IInv
<1> SUFFICES ASSUME Init PROVE IInv
  OBVIOUS
<1>1. TypeOK
  BY ConstantsAssumption DEF Init, TypeOK
<1>2. AllAddr
  BY DEF Init, AllAddr, AddrInv, Tracked, Covered, Claimed, Held, Claims
<1>3. KernelHeld /\ CallInv
  BY DEF Init, KernelHeld, CallInv, CallOK
<1>4. DirtyCoversNew /\ NoFalseAlarm
  BY DEF Init, DirtyCoversNew, NoFalseAlarm
<1> QED
  BY <1>1, <1>2, <1>3, <1>4 DEF IInv

-----------------------------------------------------------------------------
(* A step of one thread about one address.                                 *)
LEMMA Touch ==
  ASSUME AllAddr, NEW t \in Threads, NEW a,
         \A u \in Threads \ {t} : pc'[u] = pc[u] /\ call'[u] = call[u],
         \A b \in Addresses \ {a} : objs'[b] = objs[b] /\ heap'[b] = heap[b],
         \A b \in Addresses \ {a} : ~Claims(t, b) /\ ~Claims(t, b)',
         lost \subseteq lost',
         a \in Addresses \ lost' => AddrInv(a)'
  PROVE  AllAddr'
<1> SUFFICES ASSUME NEW b \in Addresses \ lost', b # a PROVE AddrInv(b)'
  BY DEF AllAddr
<1>1. AddrInv(b)
  BY DEF AllAddr
<1>2. \A u \in Threads : Claims(u, b)' <=> Claims(u, b)
  BY DEF Claims
<1>3. \A u \in Threads : Claims(u, b) => pc'[u] = pc[u] /\ call'[u] = call[u]
  OBVIOUS
<1> QED
  BY <1>1, <1>2, <1>3, Frame

(* A step about one address that leaves the threads' calls alone.          *)
LEMMA TouchHeap ==
  ASSUME AllAddr, NEW a, UNCHANGED <<pc, call>>,
         \A b \in Addresses \ {a} : objs'[b] = objs[b] /\ heap'[b] = heap[b],
         lost \subseteq lost',
         a \in Addresses \ lost' => AddrInv(a)'
  PROVE  AllAddr'
<1> SUFFICES ASSUME NEW b \in Addresses \ lost', b # a PROVE AddrInv(b)'
  BY DEF AllAddr
<1>1. AddrInv(b)
  BY DEF AllAddr
<1>2. \A u \in Threads : /\ Claims(u, b)' <=> Claims(u, b)
                         /\ Claims(u, b) => pc'[u] = pc[u] /\ call'[u] = call[u]
  BY DEF Claims
<1> QED
  BY <1>1, <1>2, Frame

(* What is known of the other threads' calls stays true.                   *)
LEMMA CallTouch ==
  ASSUME CallInv, lost \subseteq lost', NEW t \in Threads, CallOK(t)',
         \A u \in Threads \ {t} : pc'[u] = pc[u] /\ call'[u] = call[u]
  PROVE  CallInv'
<1> SUFFICES ASSUME NEW u \in Threads \ {t} PROVE CallOK(u)'
  BY DEF CallInv
<1> QED
  BY DEF CallInv, CallOK

(* A check that stops the path changes nothing else.                       *)
LEMMA KillInv ==
  ASSUME IInv, NEW reason \in {"assert", "oops"}, NEW a \in Addresses \cup {NONE},
         Kill(reason, a), fault' \in BOOLEAN,
         reason = "assert" => fault' \/ a \in lost
  PROVE  IInv'
<1> USE DEF IInv, Kill, tracker, thread
<1>1. TypeOK'
  BY DEF TypeOK
<1>2. AllAddr'
  BY DEF AllAddr, AddrInv, Tracked, Covered, Claimed, Held, Claims
<1>3. KernelHeld' /\ CallInv'
  BY DEF KernelHeld, CallInv, CallOK
<1>4. DirtyCoversNew' /\ NoFalseAlarm'
  BY DEF DirtyCoversNew, NoFalseAlarm
<1> QED
  BY <1>1, <1>2, <1>3, <1>4

(* One lemma per action: it preserves the invariant.                       *)
LEMMA CallAllocatorInv ==
  ASSUME IInv, path = "running", NEW t \in Threads, NEW f \in Allocators,
         NEW n \in AskedSizes(f), NEW a \in Named(f), CallAllocator(t, f, n, a)
  PROVE  IInv'
<1> USE DEF IInv, CallAllocator
<1>1. f \in AllAllocators /\ n \in Sizes /\ a \in Addresses \cup {NONE}
  BY ConstantsAssumption DEF AskedSizes, Sizes, Named
<1>2. TypeOK'
  BY <1>1 DEF TypeOK, tracker, ending, AllocCall
<1>3. AllAddr'
  <2>1. \A b : ~Claims(t, b) /\ ~Claims(t, b)'
    BY DEF Claims, TypeOK
  <2>2. \A u \in Threads \ {t} : pc'[u] = pc[u] /\ call'[u] = call[u]
    BY DEF TypeOK
  <2>3. NONE \notin Addresses
    BY ConstantsAssumption
  <2> QED
    BY <2>1, <2>2, <2>3, Touch DEF tracker
<1>4. KernelHeld' /\ DirtyCoversNew' /\ NoFalseAlarm'
  BY DEF KernelHeld, DirtyCoversNew, NoFalseAlarm, tracker, ending
<1>5. CallInv'
  <2>1. CallOK(t)'
    BY <1>1, AllocatorsRight, ConstantsAssumption DEF CallOK, TypeOK, Named, AllocatorRight
  <2>2. \A u \in Threads \ {t} : pc'[u] = pc[u] /\ call'[u] = call[u]
    BY DEF TypeOK
  <2> QED
    BY <2>1, <2>2, CallTouch
<1> QED
  BY <1>2, <1>3, <1>4, <1>5

(* The kernel's allocator: the address was nobody's, the thread claims it; *)
(* or it is lost.                                                          *)
LEMMA KernelAllocInv ==
  ASSUME IInv, path = "running", NEW t \in Threads, NEW a \in Addresses, KernelAlloc(t, a)
  PROVE  IInv'
<1> USE DEF IInv, KernelAlloc
<1>1. call[t] \in AllocCall /\ call[t].fn \in AllAllocators /\ call[t].size \in Sizes
  BY DEF TypeOK, AllocCall
<1>2. /\ call'[t] = [fn |-> call[t].fn, addr |-> a, size |-> call[t].size, ok |-> TRUE]
      /\ call'[t] \in AllocCall
      /\ pc'[t] = "allocated"
      /\ \A u \in Threads \ {t} : pc'[u] = pc[u] /\ call'[u] = call[u]
  BY <1>1 DEF TypeOK, AllocCall
<1>3. /\ call'[t].addr = a /\ call'[t].ok
      /\ call'[t].fn = call[t].fn /\ call'[t].size = call[t].size
  BY <1>2
<1>4. /\ heap'[a] = [kind |-> call[t].fn.kind, holder |-> "driver",
                     size |-> RealSize(call[t].fn, call[t].size)]
      /\ heap'[a] \in Object /\ heap'[a] # NONE
      /\ \A b \in Addresses \ {a} : heap'[b] = heap[b]
  <2>1. RealSize(call[t].fn, call[t].size) \in Sizes \cup {UNKNOWN} /\ call[t].fn.kind \in Kinds
    BY <1>1, RecordedCovers, AllocatorType
  <2> QED
    BY <2>1, NoneAssumption DEF TypeOK, Object
<1>10. lost \subseteq lost' /\ lost' \subseteq Addresses /\ (heap[a] # NONE => a \in lost')
  BY DEF TypeOK
<1>5. TypeOK'
  <2>1. pc' \in [Threads -> {"run", "alloc", "allocated", "free"}]
    BY DEF TypeOK
  <2>2. call' \in [Threads -> AllocCall \cup FreeCall \cup {NONE}]
    BY <1>2 DEF TypeOK
  <2>3. heap' \in [Addresses -> Object \cup {NONE}]
    BY <1>4 DEF TypeOK
  <2>4. a # NONE
    BY ConstantsAssumption
  <2> QED
    BY <1>2, <1>3, <2>1, <2>2, <2>3, <2>4, <1>10 DEF TypeOK, tracker, ending
<1>6. AllAddr'
  <2>1. a \in Addresses \ lost' => AddrInv(a)'
    <3> SUFFICES ASSUME a \notin lost' PROVE AddrInv(a)'
      OBVIOUS
    <3>1. AddrInv(a) /\ ~Held(a)
      BY <1>10 DEF AllAddr, Held
    <3>2. objs[a] = NONE /\ objs'[a] = NONE /\ \A u \in Threads : ~Claims(u, a)
      BY <3>1 DEF AddrInv, Tracked, Claimed, tracker
    <3>3. \A u \in Threads : Claims(u, a)' <=> u = t
      BY <1>2, <1>3, <3>2 DEF Claims
    <3>4. Held(a)'
      BY <1>4 DEF Held
    <3>5. Tracked(a)' /\ Covered(a)'
      BY <3>2, <3>3 DEF Tracked, Covered
    <3>6. Claimed(a)'
      <4> SUFFICES ASSUME NEW u \in Threads, Claims(u, a)'
                   PROVE  /\ heap'[a].kind = call'[u].fn.kind
                          /\ call'[u].ok
                          /\ heap'[a].size = RealSize(call'[u].fn, call'[u].size)
                          /\ \A w \in Threads : Claims(w, a)' => w = u
        BY <3>2, <3>4 DEF Claimed
      <4>1. u = t
        BY <3>3
      <4>2. heap'[a].kind = call[t].fn.kind /\ heap'[a].size = RealSize(call[t].fn, call[t].size)
        BY <1>4
      <4> QED
        BY <4>1, <4>2, <1>3, <3>3
    <3> QED
      BY <3>5, <3>6 DEF AddrInv
  <2>2. \A b \in Addresses \ {a} : ~Claims(t, b) /\ ~Claims(t, b)'
    BY <1>3 DEF Claims
  <2> QED
    BY <1>2, <1>4, <1>10, <2>1, <2>2, Touch DEF tracker
<1>7. KernelHeld'
  BY <1>4 DEF KernelHeld
<1>8. DirtyCoversNew' /\ NoFalseAlarm'
  BY <1>10 DEF DirtyCoversNew, NoFalseAlarm, TypeOK, tracker, ending
<1>9. CallInv'
  <2>1. CallOK(t)'
    BY <1>2, <1>3, ConstantsAssumption DEF CallOK
  <2> QED
    BY <2>1, <1>2, <1>10, CallTouch
<1> QED
  BY <1>5, <1>6, <1>7, <1>8, <1>9

(* A refusal: an address that is named all the same is lost.               *)
LEMMA KernelRefusesInv ==
  ASSUME IInv, path = "running", NEW t \in Threads, KernelRefuses(t)
  PROVE  IInv'
<1> USE DEF IInv, KernelRefuses
<1> DEFINE recorded == call[t].fn.refused = "recorded"
<1>1. /\ call[t] \in AllocCall /\ call[t].addr \in Addresses \cup {NONE} /\ ~call[t].ok
      /\ pc[t] = "alloc" /\ (recorded => call[t].addr # NONE)
  BY DEF TypeOK, AllocCall, CallInv, CallOK
<1>2. pc'[t] = "allocated" /\ \A u \in Threads \ {t} : pc'[u] = pc[u] /\ call'[u] = call[u]
  BY DEF TypeOK
<1>3. lost' \subseteq Addresses /\ lost \subseteq lost'
  BY <1>1 DEF TypeOK
<1>8. /\ call'[t] \in AllocCall /\ call'[t].fn = call[t].fn /\ ~call'[t].ok
      /\ call'[t].addr = IF recorded THEN call[t].addr ELSE NONE
      /\ call' \in [Threads -> AllocCall \cup FreeCall \cup {NONE}]
  <2>1. CASE recorded
    BY <1>1, <2>1 DEF TypeOK
  <2>2. CASE ~recorded
    <3>1. call'[t] = [fn |-> call[t].fn, addr |-> NONE, size |-> call[t].size, ok |-> call[t].ok]
      BY <1>1, <2>2 DEF TypeOK, AllocCall
    <3>2. call'[t] \in AllocCall
      BY <1>1, <3>1 DEF AllocCall
    <3>3. call'[t].fn = call[t].fn /\ call'[t].ok = call[t].ok /\ call'[t].addr = NONE
      BY <3>1
    <3>4. call' \in [Threads -> AllocCall \cup FreeCall \cup {NONE}]
      BY <2>2, <3>2 DEF TypeOK
    <3> QED
      BY <1>1, <2>2, <3>2, <3>3, <3>4
  <2> QED
    BY <2>1, <2>2
<1>4. TypeOK'
  <2>1. pc' \in [Threads -> {"run", "alloc", "allocated", "free"}]
    BY DEF TypeOK
  <2> QED
    BY <1>1, <1>2, <1>3, <1>8, <2>1 DEF TypeOK, tracker, ending
<1>5. AllAddr'
  <2>1. \A b \in Addresses \ {call[t].addr} : ~Claims(t, b) /\ ~Claims(t, b)'
    BY <1>1, <1>8, ConstantsAssumption DEF Claims
  <2>2. CASE recorded
    <3>1. call[t].addr \notin Addresses \ lost'
      BY <2>2
    <3> QED
      BY <1>2, <1>3, <2>1, <3>1, Touch DEF tracker
  <2>3. CASE ~recorded
    <3>1. \A b \in Addresses : ~Claims(t, b) /\ ~Claims(t, b)'
      BY <1>1, <1>8, <2>3, ConstantsAssumption DEF Claims
    <3>2. NONE \notin Addresses
      BY ConstantsAssumption
    <3> QED
      BY <1>2, <1>3, <3>1, <3>2, Touch DEF tracker
  <2> QED
    BY <2>2, <2>3
<1>6. KernelHeld' /\ DirtyCoversNew' /\ NoFalseAlarm'
  BY DEF KernelHeld, DirtyCoversNew, NoFalseAlarm, tracker, ending
<1>7. CallInv'
  <2>1. CallOK(t)'
    BY <1>1, <1>2, <1>8 DEF CallOK
  <2> QED
    BY <2>1, <1>2, <1>3, CallTouch
<1> QED
  BY <1>4, <1>5, <1>6, <1>7

(* What objs_insert does to the table.                                     *)
LEMMA InsertEffect ==
  ASSUME TypeOK, NEW a \in Addresses, NEW v \in hvalue, objs_insert(a, v)
  PROVE  /\ objs'[a] = v /\ objs'[a] # NONE
         /\ \A b \in Addresses \ {a} : objs'[b] = objs[b]
         /\ objs' \in [Addresses -> hvalue \cup {NONE}]
BY NoneAssumption DEF objs_insert, TypeOK

(* The record is a value of the table.                                     *)
LEMMA ValueType ==
  ASSUME NEW o \in Origins, NEW n \in Sizes \cup {UNKNOWN}, NEW new \in BOOLEAN
  PROVE  /\ objs_value(o, n, new) \in hvalue
         /\ objs_value(o, n, new).origin = o /\ objs_value(o, n, new).size = n
BY DEF objs_value, hvalue

(* Taking an object off the table can only help objs_dirty.                *)
LEMMA RemoveEffect ==
  ASSUME TypeOK, DirtyCoversNew, NEW a \in Addresses, objs_remove(a)
  PROVE  /\ objs'[a] = NONE
         /\ \A b \in Addresses \ {a} : objs'[b] = objs[b]
         /\ objs' \in [Addresses -> hvalue \cup {NONE}]
         /\ DirtyCoversNew'
<1>1. /\ objs'[a] = NONE /\ \A b \in Addresses \ {a} : objs'[b] = objs[b]
      /\ objs' \in [Addresses -> hvalue \cup {NONE}]
  BY DEF objs_remove, TypeOK
<1> QED
  BY <1>1 DEF DirtyCoversNew, objs_remove

(* generic_allocator: the claim becomes an entry.                          *)
LEMMA AllocPostInv ==
  ASSUME IInv, path = "running", NEW t \in Threads, AllocPost(t)
  PROVE  IInv'
<1> SUFFICES ASSUME NEW f, f = call[t].fn, NEW a, a = call[t].addr,
                    NEW n, n = RecordedSize(f, call[t].size)
             PROVE  IInv'
  OBVIOUS
<1>1. /\ pc[t] = "allocated" /\ f \in AllAllocators /\ call[t].size \in Sizes
      /\ a \in Addresses \cup {NONE} /\ call[t].ok \in BOOLEAN /\ CallOK(t)
      /\ fault' = fault /\ fault \in BOOLEAN
  BY DEF AllocPost, IInv, TypeOK, AllocCall, CallInv
<1>2. CASE Kill("oops", NONE)
  BY <1>1, <1>2, KillInv
<1>3. CASE Kill("oops", a)
  BY <1>1, <1>3, KillInv
<1>4. CASE (call[t].ok \/ f.refused = "recorded") /\ objs[a] # NONE /\ Kill("assert", a)
  <2>1. a \in Addresses
    BY <1>1, <1>4 DEF CallOK
  <2>2. a \in lost
    <3> SUFFICES ASSUME a \notin lost PROVE FALSE
      OBVIOUS
    <3>1. Claims(t, a) /\ AddrInv(a)
      BY <1>1, <2>1 DEF Claims, IInv, AllAddr
    <3> QED
      BY <3>1, <1>4 DEF AddrInv, Claimed
  <2> QED
    BY <1>1, <1>4, <2>1, <2>2, KillInv
<1> DEFINE Others == \A u \in Threads \ {t} : pc'[u] = pc[u] /\ call'[u] = call[u]
<1>5. ASSUME Return(t), UNCHANGED <<heap, xmit, lost, ending>>
      PROVE  /\ Others /\ pc'[t] = "run" /\ CallInv' /\ KernelHeld' /\ NoFalseAlarm'
             /\ pc' \in [Threads -> {"run", "alloc", "allocated", "free"}]
             /\ call' \in [Threads -> AllocCall \cup FreeCall \cup {NONE}]
             /\ \A b \in Addresses : ~Claims(t, b)'
  <2>1. Others /\ pc'[t] = "run"
    BY <1>5 DEF Return, IInv, TypeOK
  <2>2. /\ pc' \in [Threads -> {"run", "alloc", "allocated", "free"}]
        /\ call' \in [Threads -> AllocCall \cup FreeCall \cup {NONE}]
    BY <1>5 DEF Return, IInv, TypeOK
  <2>3. CallInv'
    BY <2>1, <1>5, CallTouch DEF CallOK, IInv
  <2>4. KernelHeld' /\ NoFalseAlarm'
    BY <1>1, <1>5 DEF IInv, KernelHeld, NoFalseAlarm, ending
  <2> QED
    BY <2>1, <2>2, <2>3, <2>4 DEF Claims
<1>6. CASE /\ ~call[t].ok /\ f.refused = "ignored"
           /\ Return(t) /\ UNCHANGED <<tracker, heap, xmit, lost, ending>>
  <2>1. TypeOK'
    BY <1>1, <1>5, <1>6 DEF IInv, TypeOK, tracker, ending
  <2>2. AllAddr'
    <3>1. a \in Addresses => a \in lost
      BY <1>1, <1>6, ConstantsAssumption DEF CallOK
    <3>2. \A b \in Addresses \ {a} : ~Claims(t, b)
      BY DEF Claims
    <3> QED
      BY <1>5, <1>6, <3>1, <3>2, Touch DEF IInv, tracker
  <2>3. DirtyCoversNew'
    BY <1>6 DEF IInv, DirtyCoversNew, tracker
  <2> QED
    BY <1>5, <1>6, <2>1, <2>2, <2>3 DEF IInv
<1>7. CASE /\ call[t].ok \/ f.refused = "recorded"
           /\ objs[a] = NONE /\ ~Insane(n)
           /\ objs_insert(a, objs_value(RecordedOrigin(f, call[t].ok), n, TRUE))
           /\ Return(t) /\ UNCHANGED <<heap, xmit, lost, ending>>
  <2>1. a \in Addresses
    BY <1>1, <1>7 DEF CallOK
  <2>2. n \in Sizes \cup {UNKNOWN} /\ RecordedOrigin(f, call[t].ok) \in Origins
    BY <1>1, RecordedCovers, AllocatorType DEF RecordedOrigin
  <2>3. /\ objs'[a].origin = RecordedOrigin(f, call[t].ok) /\ objs'[a].size = n
        /\ objs'[a] # NONE
        /\ \A b \in Addresses \ {a} : objs'[b] = objs[b]
        /\ objs' \in [Addresses -> hvalue \cup {NONE}]
    <3> DEFINE v == objs_value(RecordedOrigin(f, call[t].ok), n, TRUE)
    <3>1. v \in hvalue /\ v.origin = RecordedOrigin(f, call[t].ok) /\ v.size = n
      BY <2>2, ValueType
    <3>2. objs_insert(a, v) /\ TypeOK
      BY <1>7 DEF IInv
    <3> HIDE DEF v
    <3> QED
      BY <2>1, <3>1, <3>2, InsertEffect
  <2>4. TypeOK'
    <3>1. objs_dirty' \in BOOLEAN /\ UNCHANGED <<heap, xmit, lost, path, alarm>>
      BY <1>7 DEF objs_insert, ending
    <3> QED
      BY <1>1, <1>5, <1>7, <2>3, <3>1 DEF IInv, TypeOK
  <2>5. AllAddr'
    <3>1. ASSUME a \notin lost PROVE AddrInv(a)'
      <4>1. Claims(t, a) /\ AddrInv(a) /\ call[t].ok
        BY <1>1, <2>1, <3>1 DEF Claims, IInv, AllAddr, AddrInv, Claimed
      <4>2. /\ Held(a) /\ heap[a].kind = f.kind /\ heap[a].size = RealSize(f, call[t].size)
            /\ \A u \in Threads : Claims(u, a) => u = t
        BY <4>1, <1>1 DEF AddrInv, Claimed
      <4>3. \A u \in Threads : ~Claims(u, a)'
        BY <1>5, <1>7, <4>2, <2>1 DEF Claims
      <4>4. Held(a)' /\ heap'[a] = heap[a]
        BY <1>7, <4>2 DEF Held
      <4>5. objs'[a].origin = f.origin /\ objs'[a].size = n
        BY <2>3, <4>1 DEF RecordedOrigin
      <4>6. Matches(heap'[a].kind, objs'[a].origin)
        BY <1>1, <4>2, <4>4, <4>5, AllocatorsRight DEF AllocatorRight
      <4>7. heap'[a].kind # "pages" => heap'[a].size <= objs'[a].size
        BY <1>1, <1>7, <4>2, <4>4, <4>5, RecordedCovers
      <4> QED
        BY <2>3, <4>3, <4>4, <4>6, <4>7 DEF AddrInv, Tracked, Covered, Claimed
    <3>2. \A b \in Addresses \ {a} : ~Claims(t, b)
      BY DEF Claims
    <3> QED
      BY <1>5, <1>7, <2>3, <3>1, <3>2, Touch DEF IInv
  <2>6. DirtyCoversNew'
    BY <1>7 DEF DirtyCoversNew, objs_insert
  <2> QED
    BY <1>5, <1>7, <2>4, <2>5, <2>6 DEF IInv
<1> QED
  BY <1>2, <1>3, <1>4, <1>6, <1>7 DEF AllocPost

(* generic_lock_allocator: an object keeps its record, another address is  *)
(* lost.                                                                   *)
LEMMA LockInv ==
  ASSUME IInv, path = "running", NEW t \in Threads, NEW a \in Addresses, generic_lock_allocator(t, a)
  PROVE  IInv'
<1>1. \E v \in hvalue : objs_insert(a, v) /\ (objs[a] # NONE => v = objs[a])
  <2> DEFINE v == objs_value("LOCK", UNKNOWN, FALSE)
  <2>1. v \in hvalue
    BY AllocatorType, ValueType
  <2>2. objs_insert(a, IF objs[a] = NONE THEN v ELSE objs[a])
    BY DEF generic_lock_allocator
  <2> HIDE DEF v
  <2>3. CASE objs[a] = NONE
    BY <2>1, <2>2, <2>3
  <2>4. CASE objs[a] # NONE
    <3>1. objs[a] \in hvalue /\ objs_insert(a, objs[a])
      BY <2>2, <2>4 DEF IInv, TypeOK
    <3> QED
      BY <3>1
  <2> QED
    BY <2>3, <2>4
<1>2. /\ \A b \in Addresses \ {a} : objs'[b] = objs[b]
      /\ objs' \in [Addresses -> hvalue \cup {NONE}]
      /\ objs[a] # NONE => objs'[a] = objs[a]
      /\ objs_dirty'
  BY <1>1, InsertEffect DEF IInv, objs_insert
<1>3. lost \subseteq lost' /\ lost' \subseteq Addresses /\ (objs[a] = NONE => a \in lost')
  BY DEF generic_lock_allocator, IInv, TypeOK
<1>4. UNCHANGED <<heap, pc, call, xmit, path, alarm>> /\ fault' \in BOOLEAN /\ (fault => fault')
  BY DEF generic_lock_allocator, thread, ending, IInv, TypeOK
<1>5. TypeOK'
  BY <1>2, <1>3, <1>4 DEF IInv, TypeOK
<1>6. AllAddr'
  <2>1. ASSUME a \notin lost' PROVE AddrInv(a)'
    <3>1. AddrInv(a) /\ objs'[a] = objs[a]
      BY <1>2, <1>3, <2>1 DEF IInv, AllAddr
    <3>2. \A u \in Threads : Claims(u, a)' <=> Claims(u, a)
      BY <1>4 DEF Claims
    <3> QED
      BY <1>4, <3>1, <3>2, Frame
  <2> QED
    BY <1>2, <1>3, <1>4, <2>1, TouchHeap DEF IInv
<1>7. KernelHeld' /\ DirtyCoversNew' /\ NoFalseAlarm'
  BY <1>2, <1>3, <1>4 DEF IInv, KernelHeld, DirtyCoversNew, NoFalseAlarm
<1>8. CallInv'
  BY <1>3, <1>4 DEF IInv, CallInv, CallOK
<1> QED
  BY <1>5, <1>6, <1>7, <1>8 DEF IInv

(* generic_free: the entry becomes a claim, if the kinds fit.              *)
LEMMA FreePreInv ==
  ASSUME IInv, path = "running", NEW t \in Threads, NEW f \in AllFrees, NEW a \in Addresses,
         FreePre(t, f, a)
  PROVE  IInv'
<1>1. fault' \in BOOLEAN /\ pc[t] = "run"
  BY DEF FreePre
<1>2. CASE ~Accepts(f.origins, a) /\ Kill("assert", a)
  <2>1. ASSUME LegalFree(f, a), a \notin lost PROVE FALSE
    <3>1. AddrInv(a) /\ Held(a) /\ heap[a].kind = f.kind /\ objs[a] # NONE
      BY <2>1 DEF IInv, AllAddr, AddrInv, Covered, LegalFree, Busy, Claims
    <3>2. Matches(heap[a].kind, objs[a].origin)
      BY <3>1 DEF AddrInv, Tracked
    <3> QED
      BY <1>2, <3>1, <3>2, FreesRight DEF Accepts
  <2>2. fault' \/ a \in lost
    BY <2>1 DEF FreePre
  <2> QED
    BY <1>1, <1>2, <2>2, KillInv
<1>3. CASE /\ Accepts(f.origins, a)
           /\ objs_remove(a)
           /\ pc' = [pc EXCEPT ![t] = "free"]
           /\ call' = [call EXCEPT ![t] = [fn |-> f, addr |-> a]]
           /\ xmit' = [u \in Threads |-> IF xmit[u] = a THEN NONE ELSE xmit[u]]
           /\ lost' = IF Confused(f, a) THEN lost \cup {a} ELSE lost
           /\ UNCHANGED <<heap, ending>>
  <2>1. /\ pc'[t] = "free" /\ call'[t] = [fn |-> f, addr |-> a]
        /\ \A u \in Threads \ {t} : pc'[u] = pc[u] /\ call'[u] = call[u]
        /\ call'[t] \in FreeCall
        /\ pc' \in [Threads -> {"run", "alloc", "allocated", "free"}]
        /\ call' \in [Threads -> AllocCall \cup FreeCall \cup {NONE}]
    BY <1>3 DEF IInv, TypeOK, FreeCall
  <2>2. /\ objs'[a] = NONE /\ \A b \in Addresses \ {a} : objs'[b] = objs[b]
        /\ objs' \in [Addresses -> hvalue \cup {NONE}] /\ DirtyCoversNew'
    BY <1>3, RemoveEffect DEF IInv
  <2>3. lost \subseteq lost' /\ lost' \subseteq Addresses
    BY <1>3 DEF IInv, TypeOK
  <2>4. TypeOK'
    <3>1. xmit' \in [Threads -> Addresses \cup {NONE}]
      BY <1>3 DEF IInv, TypeOK
    <3> QED
      BY <1>1, <1>3, <2>1, <2>2, <2>3, <3>1 DEF IInv, TypeOK, objs_remove, ending
  <2>5. AllAddr'
    <3>1. ASSUME a \notin lost' PROVE AddrInv(a)'
      <4>1. AddrInv(a) /\ objs[a] # NONE /\ objs[a].origin \in f.origins /\ ~Confused(f, a)
        BY <1>3, <2>3, <3>1 DEF IInv, AllAddr, Accepts
      <4>2. Held(a) /\ Matches(heap[a].kind, objs[a].origin) /\ heap'[a] = heap[a]
        BY <1>3, <4>1 DEF AddrInv, Tracked
      <4>3. heap[a].kind = f.kind
        BY <4>1, <4>2, FreesRight DEF Confused, Held
      <4>4. \A u \in Threads : Claims(u, a)' <=> u = t
        BY <2>1, <4>1 DEF AddrInv, Claimed, Claims
      <4>5. Held(a)'
        BY <4>2 DEF Held
      <4>6. Tracked(a)' /\ Covered(a)'
        BY <2>2, <4>4 DEF Tracked, Covered
      <4>7. Claimed(a)'
        BY <2>1, <2>2, <4>2, <4>3, <4>4, <4>5 DEF Claimed
      <4> QED
        BY <4>6, <4>7 DEF AddrInv
    <3>2. \A b \in Addresses \ {a} : ~Claims(t, b) /\ ~Claims(t, b)'
      BY <1>1, <2>1 DEF Claims
    <3> QED
      BY <1>3, <2>1, <2>2, <2>3, <3>1, <3>2, Touch DEF IInv
  <2>6. CallInv'
    BY <2>1, <2>3, CallTouch DEF CallOK, IInv
  <2>7. KernelHeld' /\ NoFalseAlarm'
    BY <1>3 DEF IInv, KernelHeld, NoFalseAlarm, ending
  <2> QED
    BY <2>2, <2>4, <2>5, <2>6, <2>7 DEF IInv
<1> QED
  BY <1>2, <1>3 DEF FreePre

(* The kernel's free function ends the claim.                              *)
LEMMA KernelFreeInv ==
  ASSUME IInv, path = "running", NEW t \in Threads, KernelFree(t)
  PROVE  IInv'
<1> SUFFICES ASSUME NEW a, a = call[t].addr PROVE IInv'
  OBVIOUS
<1>1. pc[t] = "free" /\ a \in Addresses
  BY DEF KernelFree, IInv, TypeOK, FreeCall
<1>2. /\ pc'[t] = "run" /\ \A u \in Threads \ {t} : pc'[u] = pc[u] /\ call'[u] = call[u]
      /\ pc' \in [Threads -> {"run", "alloc", "allocated", "free"}]
      /\ call' \in [Threads -> AllocCall \cup FreeCall \cup {NONE}]
  BY DEF KernelFree, Return, IInv, TypeOK
<1>3. /\ heap'[a] = NONE /\ \A b \in Addresses \ {a} : heap'[b] = heap[b]
      /\ heap' \in [Addresses -> Object \cup {NONE}]
  BY <1>1 DEF KernelFree, IInv, TypeOK
<1>4. TypeOK'
  BY <1>2, <1>3 DEF KernelFree, IInv, TypeOK, tracker, ending
<1>5. AllAddr'
  <2>1. ASSUME a \notin lost PROVE AddrInv(a)'
    <3>1. AddrInv(a) /\ Claims(t, a)
      BY <1>1, <2>1 DEF IInv, AllAddr, Claims
    <3>2. objs'[a] = NONE /\ \A u \in Threads : Claims(u, a) => u = t
      BY <3>1 DEF AddrInv, Claimed, KernelFree, tracker
    <3>3. \A u \in Threads : ~Claims(u, a)'
      BY <1>2, <3>2 DEF Claims
    <3>4. ~Held(a)'
      BY <1>3 DEF Held
    <3> QED
      BY <3>2, <3>3, <3>4 DEF AddrInv, Tracked, Covered, Claimed
  <2>2. \A b \in Addresses \ {a} : ~Claims(t, b) /\ ~Claims(t, b)'
    BY <1>2 DEF Claims
  <2> QED
    BY <1>2, <1>3, <2>1, <2>2, Touch DEF IInv, KernelFree, tracker
<1>6. CallInv'
  BY <1>2, CallTouch DEF CallOK, IInv, KernelFree
<1>7. KernelHeld' /\ DirtyCoversNew' /\ NoFalseAlarm'
  BY <1>3 DEF IInv, KernelHeld, DirtyCoversNew, NoFalseAlarm, KernelFree, tracker, ending
<1> QED
  BY <1>4, <1>5, <1>6, <1>7 DEF IInv

(* assert_allocated stops no legal use.                                    *)
LEMMA AssertAllocatedInv ==
  ASSUME IInv, path = "running", NEW t \in Threads, NEW u \in Uses, NEW a \in Addresses,
         assert_allocated(t, u, a)
  PROVE  IInv'
<1>1. ASSUME LegalUse(u, a), a \notin lost PROVE FALSE
  <2>1. AddrInv(a) /\ heap[a].kind \in u.kinds /\ objs[a] # NONE
    BY <1>1 DEF IInv, AllAddr, AddrInv, Covered, LegalUse, Busy, Claims
  <2>2. Matches(heap[a].kind, objs[a].origin)
    BY <2>1 DEF AddrInv, Tracked
  <2> QED
    BY <2>1, <2>2, UsesRight DEF Accepts, assert_allocated
<1>2. (fault' \/ a \in lost) /\ fault' \in BOOLEAN
  BY <1>1 DEF assert_allocated
<1> QED
  BY <1>2, KillInv DEF assert_allocated

(* assert_allocated_weak stops no copy that fits.                          *)
LEMMA AssertAllocatedWeakInv ==
  ASSUME IInv, path = "running", NEW t \in Threads, NEW a \in Addresses, NEW n \in 1 .. MaxSane + 1,
         assert_allocated_weak(t, a, n)
  PROVE  IInv'
<1>1. ASSUME LegalCopy(a, n), a \notin lost PROVE FALSE
  <2>1. AddrInv(a) /\ objs[a] # NONE /\ heap[a] # NONE /\ heap[a].kind # "pages"
    BY <1>1, CopyAssumption DEF IInv, AllAddr, assert_allocated_weak, LegalCopy, Held
  <2>2. heap[a].size <= objs[a].size /\ n <= heap[a].size /\ objs[a].size < n
    BY <1>1, <2>1 DEF AddrInv, Tracked, assert_allocated_weak, LegalCopy
  <2>3. heap[a].size \in Int /\ objs[a].size \in Int
    BY <2>1, ConstantsAssumption DEF IInv, TypeOK, hvalue, Object, Sizes, UNKNOWN
  <2> QED
    BY <2>2, <2>3, ConstantsAssumption
<1>2. (fault' \/ a \in lost) /\ fault' \in BOOLEAN
  BY <1>1 DEF assert_allocated_weak
<1> QED
  BY <1>2, KillInv DEF assert_allocated_weak

(* The kernel's own packets are not the driver's.                          *)
LEMMA KernelPacketInv ==
  ASSUME IInv, path = "running", NEW a \in Addresses, KernelPacket(a)
  PROVE  IInv'
<1>1. /\ heap'[a] = [kind |-> "skb", size |-> UNKNOWN, holder |-> "kernel"]
      /\ \A b \in Addresses \ {a} : heap'[b] = heap[b]
      /\ heap' \in [Addresses -> Object \cup {NONE}]
  BY PacketType DEF KernelPacket, IInv, TypeOK, Object
<1>6. lost \subseteq lost' /\ lost' \subseteq Addresses /\ (heap[a] # NONE => a \in lost')
  BY DEF KernelPacket, IInv, TypeOK
<1>2. TypeOK'
  BY <1>1, <1>6 DEF KernelPacket, IInv, TypeOK, tracker, thread, ending
<1>3. AllAddr'
  <2>1. ASSUME a \notin lost' PROVE AddrInv(a)'
    <3>1. AddrInv(a) /\ ~Held(a)
      BY <1>6, <2>1 DEF IInv, AllAddr, Held
    <3>2. objs'[a] = NONE /\ \A u \in Threads : ~Claims(u, a)'
      BY <3>1 DEF AddrInv, Tracked, Claimed, Claims, KernelPacket, tracker, thread
    <3>3. ~Held(a)'
      BY <1>1 DEF Held
    <3> QED
      BY <3>2, <3>3 DEF AddrInv, Tracked, Covered, Claimed
  <2> QED
    BY <1>1, <1>6, <2>1, TouchHeap DEF IInv, KernelPacket, tracker, thread
<1>4. KernelHeld' /\ DirtyCoversNew' /\ NoFalseAlarm'
  BY <1>1, <1>6 DEF IInv, KernelHeld, DirtyCoversNew, NoFalseAlarm, KernelPacket, tracker, ending
<1>5. CallInv'
  BY <1>6 DEF IInv, CallInv, CallOK, KernelPacket, thread
<1> QED
  BY <1>2, <1>3, <1>4, <1>5 DEF IInv

(* Nor when they are released.                                             *)
LEMMA KernelConsumesInv ==
  ASSUME IInv, path = "running", NEW a \in Addresses, KernelConsumes(a)
  PROVE  IInv'
<1>1. /\ heap'[a] = NONE /\ \A b \in Addresses \ {a} : heap'[b] = heap[b]
      /\ heap' \in [Addresses -> Object \cup {NONE}]
  BY DEF KernelConsumes, IInv, TypeOK
<1>2. TypeOK'
  BY <1>1 DEF KernelConsumes, IInv, TypeOK, tracker, thread, ending
<1>3. AllAddr'
  <2>1. ASSUME a \notin lost PROVE AddrInv(a)'
    <3>1. AddrInv(a) /\ ~Held(a)
      BY <2>1 DEF IInv, AllAddr, KernelConsumes, Held
    <3>2. objs'[a] = NONE /\ \A u \in Threads : ~Claims(u, a)'
      BY <3>1 DEF AddrInv, Tracked, Claimed, Claims, KernelConsumes, tracker, thread
    <3>3. ~Held(a)'
      BY <1>1 DEF Held
    <3> QED
      BY <3>2, <3>3 DEF AddrInv, Tracked, Covered, Claimed
  <2> QED
    BY <1>1, <2>1, TouchHeap DEF IInv, KernelConsumes, tracker, thread
<1>4. KernelHeld' /\ DirtyCoversNew' /\ NoFalseAlarm'
  BY <1>1 DEF IInv, KernelHeld, DirtyCoversNew, NoFalseAlarm, KernelConsumes, tracker, ending
<1>5. CallInv'
  BY DEF IInv, CallInv, CallOK, KernelConsumes, thread
<1> QED
  BY <1>2, <1>3, <1>4, <1>5 DEF IInv

(* The holder of an object changes.                                        *)
LEMMA Handover ==
  ASSUME TypeOK, NEW a \in Addresses, heap[a] # NONE, NEW h \in {"driver", "kernel"},
         heap' = [heap EXCEPT ![a].holder = h]
  PROVE  /\ heap'[a].kind = heap[a].kind /\ heap'[a].size = heap[a].size
         /\ heap'[a].holder = h /\ heap'[a] # NONE
         /\ \A b \in Addresses \ {a} : heap'[b] = heap[b]
         /\ heap' \in [Addresses -> Object \cup {NONE}]
<1>1. heap[a] \in Object /\ heap \in [Addresses -> Object \cup {NONE}]
  BY DEF TypeOK
<1>2. heap'[a] = [heap[a] EXCEPT !.holder = h] /\ \A b \in Addresses \ {a} : heap'[b] = heap[b]
  BY <1>1
<1>3. /\ heap'[a] = [kind |-> heap[a].kind, size |-> heap[a].size, holder |-> h]
      /\ heap'[a] \in Object
  BY <1>1, <1>2 DEF Object
<1> QED
  BY <1>1, <1>2, <1>3, NoneAssumption

(* A packet to transmit becomes the driver's and is recorded.              *)
LEMMA XmitPreInv ==
  ASSUME IInv, path = "running", NEW t \in Threads, NEW a \in Addresses, XmitPre(t, a)
  PROVE  IInv'
<1>1. heap[a] # NONE /\ ~Held(a) /\ heap[a].kind = "skb" /\ fault' = fault /\ fault \in BOOLEAN
  BY DEF XmitPre, Held, IInv, KernelHeld, TypeOK
<1>2. CASE objs[a] # NONE /\ Kill("assert", a)
  <2>1. a \in lost
    BY <1>1, <1>2 DEF IInv, AllAddr, AddrInv, Tracked
  <2> QED
    BY <1>1, <1>2, <2>1, KillInv
<1>3. CASE /\ objs[a] = NONE
           /\ objs_insert(a, objs_value("DEV_ALLOC_SKB", UNKNOWN, TRUE))
           /\ heap' = [heap EXCEPT ![a].holder = "driver"]
           /\ xmit' = [xmit EXCEPT ![t] = a]
           /\ UNCHANGED <<pc, call, lost, ending>>
  <2>1. /\ objs'[a].origin = "DEV_ALLOC_SKB" /\ objs'[a].size = UNKNOWN /\ objs'[a] # NONE
        /\ \A b \in Addresses \ {a} : objs'[b] = objs[b]
        /\ objs' \in [Addresses -> hvalue \cup {NONE}]
    <3> DEFINE v == objs_value("DEV_ALLOC_SKB", UNKNOWN, TRUE)
    <3>1. v \in hvalue /\ v.origin = "DEV_ALLOC_SKB" /\ v.size = UNKNOWN
      BY PacketType, ValueType
    <3>2. objs_insert(a, v) /\ TypeOK
      BY <1>3 DEF IInv
    <3> HIDE DEF v
    <3> QED
      BY <3>1, <3>2, InsertEffect
  <2>2. /\ heap'[a].kind = "skb" /\ heap'[a].size = heap[a].size
        /\ heap'[a].holder = "driver" /\ heap'[a] # NONE
        /\ \A b \in Addresses \ {a} : heap'[b] = heap[b]
        /\ heap' \in [Addresses -> Object \cup {NONE}]
    BY <1>1, <1>3, Handover DEF IInv
  <2>3. TypeOK'
    <3>1. xmit' \in [Threads -> Addresses \cup {NONE}]
      BY <1>3 DEF IInv, TypeOK
    <3> QED
      BY <1>1, <1>3, <2>1, <2>2, <3>1 DEF IInv, TypeOK, objs_insert, ending
  <2>4. AllAddr'
    <3>1. ASSUME a \notin lost PROVE AddrInv(a)'
      <4>1. \A u \in Threads : ~Claims(u, a)'
        BY <1>1, <1>3, <3>1 DEF IInv, AllAddr, AddrInv, Claimed, Claims
      <4>2. heap'[a].size <= objs'[a].size
        BY <1>1, <2>1, <2>2, ConstantsAssumption DEF IInv, TypeOK, Object, Sizes, UNKNOWN
      <4>3. Held(a)' /\ Matches(heap'[a].kind, objs'[a].origin)
        BY <2>1, <2>2 DEF Held, Matches
      <4> QED
        BY <2>1, <4>1, <4>2, <4>3 DEF AddrInv, Tracked, Covered, Claimed
    <3> QED
      BY <1>3, <2>1, <2>2, <3>1, TouchHeap DEF IInv
  <2>5. KernelHeld' /\ DirtyCoversNew' /\ NoFalseAlarm'
    BY <1>1, <1>3, <2>2 DEF IInv, KernelHeld, DirtyCoversNew, NoFalseAlarm, objs_insert, ending
  <2>6. CallInv'
    BY <1>3 DEF IInv, CallInv, CallOK
  <2> QED
    BY <2>3, <2>4, <2>5, <2>6 DEF IInv
<1> QED
  BY <1>2, <1>3 DEF XmitPre

(* One that is given back is taken off the table.                          *)
LEMMA XmitBusyInv ==
  ASSUME IInv, path = "running", NEW t \in Threads, XmitBusy(t)
  PROVE  IInv'
<1> SUFFICES ASSUME NEW a, a = xmit[t] PROVE IInv'
  OBVIOUS
<1>1. /\ a \in Addresses /\ Held(a) /\ heap[a].kind = "skb" /\ heap[a] # NONE
      /\ \A u \in Threads : ~Claims(u, a)
      /\ fault' = fault /\ fault \in BOOLEAN
  BY DEF XmitBusy, Held, Busy, Claims, IInv, TypeOK
<1>2. CASE ~Accepts({"DEV_ALLOC_SKB"}, a) /\ Kill("assert", a)
  <2>1. a \in lost
    BY <1>1, <1>2 DEF IInv, AllAddr, AddrInv, Covered, Tracked, Accepts, Matches
  <2> QED
    BY <1>1, <1>2, <2>1, KillInv
<1>3. CASE /\ objs_remove(a)
           /\ heap' = [heap EXCEPT ![a].holder = "kernel"]
           /\ xmit' = [xmit EXCEPT ![t] = NONE]
           /\ UNCHANGED <<pc, call, lost, ending>>
  <2>1. /\ objs'[a] = NONE
        /\ \A b \in Addresses \ {a} : objs'[b] = objs[b]
        /\ objs' \in [Addresses -> hvalue \cup {NONE}] /\ DirtyCoversNew'
    BY <1>1, <1>3, RemoveEffect DEF IInv
  <2>2. /\ heap'[a].kind = "skb" /\ heap'[a].holder = "kernel"
        /\ \A b \in Addresses \ {a} : heap'[b] = heap[b]
        /\ heap' \in [Addresses -> Object \cup {NONE}]
    BY <1>1, <1>3, Handover DEF IInv
  <2>3. TypeOK'
    <3>1. xmit' \in [Threads -> Addresses \cup {NONE}]
      BY <1>3 DEF IInv, TypeOK
    <3> QED
      BY <1>1, <1>3, <2>1, <2>2, <3>1 DEF IInv, TypeOK, objs_remove, ending
  <2>4. AllAddr'
    <3>1. \A u \in Threads : ~Claims(u, a)'
      BY <1>1, <1>3 DEF Claims
    <3>2. ~Held(a)'
      BY <2>2 DEF Held
    <3>3. AddrInv(a)'
      BY <2>1, <3>1, <3>2 DEF AddrInv, Tracked, Covered, Claimed
    <3> QED
      BY <1>3, <2>1, <2>2, <3>3, TouchHeap DEF IInv
  <2>5. KernelHeld' /\ NoFalseAlarm'
    BY <1>1, <1>3, <2>2 DEF IInv, KernelHeld, NoFalseAlarm, ending
  <2>6. CallInv'
    BY <1>3 DEF IInv, CallInv, CallOK
  <2> QED
    BY <2>1, <2>3, <2>4, <2>5, <2>6 DEF IInv
<1> QED
  BY <1>2, <1>3 DEF XmitBusy

(* One that is passed up is lost to the tracker.                           *)
LEMMA NetifRxInv ==
  ASSUME IInv, path = "running", NEW t \in Threads, NEW a \in Addresses, netif_rx(t, a)
  PROVE  IInv'
<1>1. heap[a] # NONE /\ heap[a].kind = "skb"
  BY DEF netif_rx, Held
<1>2. /\ heap'[a].kind = "skb"
      /\ \A b \in Addresses \ {a} : heap'[b] = heap[b]
      /\ heap' \in [Addresses -> Object \cup {NONE}]
  BY <1>1, Handover DEF IInv, netif_rx
<1>3. lost \subseteq lost' /\ lost' \subseteq Addresses /\ a \in lost'
  BY DEF IInv, TypeOK, netif_rx
<1>4. TypeOK'
  BY <1>2, <1>3 DEF netif_rx, IInv, TypeOK, tracker, thread, ending
<1>5. AllAddr'
  BY <1>2, <1>3, TouchHeap DEF IInv, netif_rx, tracker, thread
<1>6. KernelHeld' /\ DirtyCoversNew' /\ NoFalseAlarm'
  BY <1>2 DEF IInv, KernelHeld, DirtyCoversNew, NoFalseAlarm, netif_rx, tracker, ending
<1>7. CallInv'
  BY <1>3 DEF IInv, CallInv, CallOK, netif_rx, thread
<1> QED
  BY <1>4, <1>5, <1>6, <1>7 DEF IInv

(* One that is kept changes nothing.                                       *)
LEMMA XmitOKInv ==
  ASSUME IInv, path = "running", NEW t \in Threads, XmitOK(t)
  PROVE  IInv'
<1>1. TypeOK'
  BY DEF XmitOK, IInv, TypeOK, tracker, ending
<1>2. AllAddr'
  BY DEF XmitOK, IInv, AllAddr, AddrInv, Tracked, Covered, Claimed, Held, Claims, tracker
<1>3. KernelHeld' /\ DirtyCoversNew' /\ NoFalseAlarm' /\ CallInv'
  BY DEF XmitOK, IInv, KernelHeld, DirtyCoversNew, NoFalseAlarm, CallInv, CallOK, tracker, ending
<1> QED
  BY <1>1, <1>2, <1>3 DEF IInv

(* reset_new_objects changes only the flags.                               *)
LEMMA ResetInv ==
  ASSUME IInv, path = "running", reset_new_objects
  PROVE  IInv'
<1>1. ASSUME NEW a \in Addresses, objs[a] = NONE PROVE objs'[a] = NONE
  BY <1>1 DEF reset_new_objects
<1>2. ASSUME NEW a \in Addresses, objs[a] # NONE
      PROVE  /\ objs'[a] \in hvalue /\ objs'[a] # NONE /\ ~objs'[a].new_object
             /\ objs'[a].origin = objs[a].origin /\ objs'[a].size = objs[a].size
  <2>1. objs[a] \in hvalue
    BY <1>2 DEF IInv, TypeOK
  <2>2. objs'[a] = [objs[a] EXCEPT !.new_object = FALSE]
    BY <1>2 DEF reset_new_objects
  <2>3. objs'[a] = [origin |-> objs[a].origin, size |-> objs[a].size, new_object |-> FALSE]
    BY <2>1, <2>2 DEF hvalue
  <2>4. objs'[a] \in hvalue
    BY <2>1, <2>3 DEF hvalue
  <2>5. objs'[a] # NONE
    BY <2>4, NoneAssumption
  <2> QED
    BY <2>3, <2>4, <2>5
<1>3. TypeOK'
  <2>1. objs' \in [Addresses -> hvalue \cup {NONE}]
    BY <1>1, <1>2 DEF reset_new_objects
  <2> QED
    BY <2>1 DEF reset_new_objects, IInv, TypeOK, thread, ending
<1>4. AllAddr'
  <2> SUFFICES ASSUME NEW a \in Addresses \ lost PROVE AddrInv(a)'
    BY DEF AllAddr, reset_new_objects
  <2>1. AddrInv(a)
    BY DEF IInv, AllAddr
  <2>2. /\ Held(a)' <=> Held(a)
        /\ heap' = heap
        /\ \A u \in Threads : Claims(u, a)' <=> Claims(u, a)
        /\ pc' = pc /\ call' = call
    BY DEF reset_new_objects, thread, Held, Claims
  <2>3. Tracked(a)'
    BY <1>1, <1>2, <2>1, <2>2 DEF AddrInv, Tracked
  <2>4. Covered(a)' /\ Claimed(a)'
    BY <1>1, <1>2, <2>1, <2>2 DEF AddrInv, Covered, Claimed
  <2> QED
    BY <2>3, <2>4 DEF AddrInv
<1>5. KernelHeld' /\ NoFalseAlarm' /\ CallInv'
  BY DEF reset_new_objects, IInv, KernelHeld, NoFalseAlarm, CallInv, CallOK, thread, ending
<1>6. DirtyCoversNew'
  BY <1>1, <1>2 DEF DirtyCoversNew
<1> QED
  BY <1>3, <1>4, <1>5, <1>6 DEF IInv

-----------------------------------------------------------------------------
(* Every step preserves the invariant.                                     *)
LEMMA StepInv == IInv /\ [Next]_vars => IInv'
<1> SUFFICES ASSUME IInv, [Next]_vars PROVE IInv'
  OBVIOUS
<1>1. CASE UNCHANGED vars
  <2>1. UNCHANGED <<objs, objs_dirty, heap, pc, call, xmit, fault, lost, path, alarm>>
    BY <1>1 DEF vars, tracker, thread, ending
  <2>2. TypeOK'
    BY <2>1 DEF IInv, TypeOK
  <2>3. AllAddr'
    BY <2>1 DEF IInv, AllAddr, AddrInv, Tracked, Covered, Claimed, Held, Claims
  <2>4. KernelHeld' /\ DirtyCoversNew' /\ NoFalseAlarm' /\ CallInv'
    BY <2>1 DEF IInv, KernelHeld, DirtyCoversNew, NoFalseAlarm, CallInv, CallOK
  <2> QED
    BY <2>2, <2>3, <2>4 DEF IInv
<1>2. ASSUME path = "running", NEW t \in Threads, ThreadStep(t) PROVE IInv'
  BY <1>2, CallAllocatorInv, KernelAllocInv, KernelRefusesInv, AllocPostInv, LockInv, FreePreInv, KernelFreeInv,
     AssertAllocatedInv, AssertAllocatedWeakInv, XmitPreInv, XmitOKInv, XmitBusyInv, NetifRxInv
     DEF ThreadStep
<1>3. ASSUME path = "running", KernelStep PROVE IInv'
  BY <1>3, KernelPacketInv, KernelConsumesInv, ResetInv DEF KernelStep
<1> QED
  BY <1>1, <1>2, <1>3 DEF Next

(* The inductive invariant holds on every path.                            *)
THEOREM Invariance == Spec => []IInv
BY InitInv, StepInv, PTL DEF Spec

(* The tracker's records and the threads' calls are well formed.           *)
THEOREM TypeCorrect == Spec => []TypeOK
<1>1. IInv => TypeOK
  BY DEF IInv
<1> QED
  BY <1>1, Invariance, PTL

(* The table is what the driver has, for any number of threads and         *)
(* addresses and all the allocator checks (generic_allocator,              *)
(* generic_free, ndo_start_xmit).                                          *)
THEOREM TrackerIsRight == Spec => []TrackerAgrees
<1>1. IInv => TrackerAgrees
  BY DEF IInv, AllAddr, AddrInv, Tracked, Covered, Claimed, Claims, TrackerAgrees, Busy
<1> QED
  BY <1>1, Invariance, PTL

(* No double or mismatched free gets past generic_free to the kernel,      *)
(* whatever the driver does.                                               *)
THEOREM FreesAreSafe == Spec => []FreeSafe
<1>1. IInv => FreeSafe
  BY DEF IInv, AllAddr, AddrInv, Claimed, Claims, FreeSafe
<1> QED
  BY <1>1, Invariance, PTL

(* A legal call is never reported, but for the addresses in lost           *)
(* (generic_allocator, generic_free, assert_allocated).                    *)
THEOREM AlarmsAreTrue == Spec => []NoFalseAlarm
<1>1. IInv => NoFalseAlarm
  BY DEF IInv
<1> QED
  BY <1>1, Invariance, PTL

(* reset_new_objects loses nothing by looking at objs_dirty first.         *)
THEOREM DirtyIsEnough == Spec => []DirtyCoversNew
<1>1. IInv => DirtyCoversNew
  BY DEF IInv
<1> QED
  BY <1>1, Invariance, PTL
=============================================================================
