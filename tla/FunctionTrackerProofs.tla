----------------------- MODULE FunctionTrackerProofs -----------------------
(***************************************************************************)
(* Proofs about FunctionTracker: a lookup never meets half a purpose, what *)
(* a wrapper keeps is current until the function is converted again, and a *)
(* call is then bracketed by one check.  The inductive invariant adds who  *)
(* holds the lock, what a converter at its second string has done, and     *)
(* what a thread between its lookup and its store carries.                 *)
(***************************************************************************)
EXTENDS FunctionTracker, TLAPS

Locked == {"search", "str1", "str2"}
Converting == {"convert", "str1", "str2"}

(* The check a wrapper should find now.                                    *)
Expected(f) == IF f \in Special THEN symbol_lookup(Name(f)) ELSE complex_lookup(f)

LockInv == \A t \in Threads : global_lock = t <=> pc[t] \in Locked

(* Busy threads work on a function, and converters carry a purpose.        *)
BusyInv ==
  \A t \in Threads : pc[t] # "idle" =>
    /\ fn[t] \in Fns
    /\ AllRegistered
    /\ pc[t] \in Converting => arg[t] \in Purposes

(* Both strings or none, unless a thread is between the two.               *)
WholeInv ==
  \A f \in Fns : objs[f] # NONE /\ (\A t \in Threads : pc[t] = "str2" => fn[t] # f) => ~Half(f)

Str2Inv ==
  \A t \in Threads : pc[t] = "str2" =>
    /\ objs[fn[t]][1] = arg[t][1]
    /\ LookedUp(fn[t]) /\ fn[t] \notin changed => objs[fn[t]] = arg[t]

CacheInv ==
  \A f \in Fns : cache[f] # NONE =>
    /\ objs[f] # NONE
    /\ f \notin changed => cache[f] = Expected(f)

StoreInv ==
  \A t \in Threads : pc[t] = "store" =>
    /\ arg[t] # NONE
    /\ fn[t] \notin changed => arg[t] = Expected(fn[t])

RanInv ==
  \A t \in Threads :
    /\ pc[t] \in {"pre", "body"} => cache[fn[t]] # NONE
    /\ pc[t] = "body" /\ fn[t] \notin changed => ran[t] = cache[fn[t]]

IInv == /\ TypeOK /\ LockInv /\ BusyInv /\ WholeInv
        /\ Str2Inv /\ CacheInv /\ StoreInv /\ RanInv /\ SameCheck

-----------------------------------------------------------------------------
(* A purpose is a pair of strings that are not empty.                      *)
LEMMA PurposePair ==
  ASSUME NEW p \in Purposes
  PROVE  /\ p = <<p[1], p[2]>> /\ p[1] # EMPTY /\ p[2] # EMPTY
         /\ p[1] \in Strings1 /\ p[2] \in Strings2 /\ p \in Names
BY PurposesAssumption DEF Strings1, Strings2, Names

(* symbol_lookup always finds a check.                                     *)
LEMMA LookupType ==
  \A name : symbol_lookup(name) \in Names \cup {DEFAULT} /\ symbol_lookup(name) # NONE
BY NamesAssumption, NoneAssumption DEF symbol_lookup

(* So does the wrapper.                                                    *)
LEMMA ExpectedType ==
  ASSUME NEW f
  PROVE  Expected(f) \in Names \cup {DEFAULT} /\ Expected(f) # NONE
BY LookupType DEF Expected, complex_lookup

(* The first state.                                                        *)
LEMMA InitInv == Init => IInv
BY NamesAssumption, NoneAssumption
DEF Init, IInv, TypeOK, LockInv, BusyInv, WholeInv, Str2Inv, CacheInv, StoreInv, RanInv, SameCheck,
    PCs, Locked, Converting

-----------------------------------------------------------------------------
(* What leaves everything but the path alone keeps the invariant.          *)
LEMMA FailsInv ==
  ASSUME IInv, NEW how \in {"assert", "freed"}, Fails(how)
  PROVE  IInv'
BY DEF IInv, TypeOK, LockInv, BusyInv, WholeInv, Str2Inv, CacheInv, StoreInv, RanInv, SameCheck,
       Fails, thread, Expected, complex_lookup, LookedUp, Half, AllRegistered

(* gen_register_one: nobody is in a wrapper yet.                           *)
LEMMA RegisterInv ==
  ASSUME IInv, NEW f \in Fns, gen_register_one(f)
  PROVE  IInv'
<1>1. CASE Fails("assert")
  BY <1>1, FailsInv
<1>2. CASE /\ objs' = [objs EXCEPT ![f] = <<EMPTY, EMPTY>>]
           /\ UNCHANGED <<global_lock, cache, thread, mixed, changed, path>>
  <2>0. objs[f] = NONE /\ <<EMPTY, EMPTY>> \in Strings1 \X Strings2
    BY DEF gen_register_one, Strings1, Strings2
  <2>1. \A t \in Threads : pc[t] = "idle"
    BY <2>0 DEF IInv, BusyInv, AllRegistered
  <2>2. cache[f] = NONE /\ \A g \in Fns \ {f} : objs'[g] = objs[g]
    BY <2>0, <1>2 DEF IInv, CacheInv, TypeOK
  <2>3. TypeOK'
    BY <1>2, <2>0 DEF IInv, TypeOK, thread
  <2>4. LockInv' /\ BusyInv' /\ Str2Inv' /\ StoreInv' /\ RanInv' /\ SameCheck'
    BY <1>2, <2>1 DEF IInv, LockInv, BusyInv, Str2Inv, StoreInv, RanInv, SameCheck, thread, Locked
  <2>5. WholeInv'
    <3>1. objs'[f] = <<EMPTY, EMPTY>>
      BY <1>2 DEF IInv, TypeOK
    <3> QED BY <1>2, <2>1, <2>2, <3>1 DEF IInv, WholeInv, Half, thread
  <2>6. CacheInv'
    BY <1>2, <2>2 DEF IInv, CacheInv, Expected, complex_lookup, thread
  <2> QED BY <2>3, <2>4, <2>5, <2>6 DEF IInv
<1> QED BY <1>1, <1>2 DEF gen_register_one

(* The lock is taken by one thread, to search or to convert.               *)
LEMMA AcquireInv ==
  ASSUME IInv, NEW t \in Threads, NEW to,
         \/ acquire_global_lock(t, "convert", "str1") /\ to = "str1"
         \/ acquire_global_lock(t, "lookup", "search") /\ to = "search"
  PROVE  IInv'
<1>1. /\ global_lock = NONE /\ global_lock' = t
      /\ pc[t] \in {"convert", "lookup"} /\ (to = "str1" => pc[t] = "convert")
      /\ to \in {"str1", "search"} /\ pc' = [pc EXCEPT ![t] = to]
      /\ UNCHANGED <<objs, cache, fn, arg, ran, mixed, changed, path>>
  BY DEF acquire_global_lock, Goto
<1>2. pc'[t] = to /\ \A u \in Threads \ {t} : pc'[u] = pc[u]
  BY <1>1 DEF IInv, TypeOK
<1>3. \A u \in Threads : pc[u] \notin Locked
  BY <1>1, NamesAssumption DEF IInv, LockInv
<1>4. TypeOK'
  BY <1>1 DEF IInv, TypeOK, PCs
<1>5. LockInv'
  BY <1>1, <1>2, <1>3 DEF LockInv, Locked
<1>6. BusyInv'
  BY <1>1, <1>2 DEF IInv, BusyInv, AllRegistered, Converting
<1>7. WholeInv' /\ Str2Inv'
  BY <1>1, <1>2, <1>3 DEF IInv, WholeInv, Str2Inv, Half, Locked
<1>8. CacheInv' /\ StoreInv' /\ RanInv' /\ SameCheck'
  BY <1>1, <1>2 DEF IInv, CacheInv, StoreInv, RanInv, SameCheck, Expected, complex_lookup
<1> QED BY <1>4, <1>5, <1>6, <1>7, <1>8 DEF IInv

(* A thread begins to convert or to call a function.                       *)
LEMMA BeginInv ==
  ASSUME IInv, NEW t \in Threads, NEW f \in Fns,
         Call(t, f) \/ \E p \in Purposes : Convert(t, f, p)
  PROVE  IInv'
<1>1. /\ pc[t] = "idle" /\ AllRegistered
      /\ fn' = [fn EXCEPT ![t] = f]
      /\ \/ pc' = [pc EXCEPT ![t] = "test"] /\ arg' = arg
         \/ pc' = [pc EXCEPT ![t] = "convert"] /\ \E p \in Purposes : arg' = [arg EXCEPT ![t] = p]
      /\ UNCHANGED <<objs, global_lock, cache, ran, mixed, changed, path>>
  BY DEF Call, Convert, Goto
<1>2. /\ pc'[t] \in {"test", "convert"} /\ fn'[t] = f
      /\ pc'[t] = "convert" => arg'[t] \in Purposes
      /\ \A u \in Threads \ {t} : pc'[u] = pc[u] /\ fn'[u] = fn[u] /\ arg'[u] = arg[u]
  BY <1>1 DEF IInv, TypeOK
<1>3. TypeOK'
  BY <1>1, PurposePair DEF IInv, TypeOK, PCs
<1>4. LockInv' /\ BusyInv'
  BY <1>1, <1>2 DEF IInv, LockInv, BusyInv, AllRegistered, Locked, Converting
<1>5. WholeInv'
  BY <1>1, <1>2 DEF IInv, WholeInv, Half
<1>6. Str2Inv'
  BY <1>1, <1>2 DEF IInv, Str2Inv, LookedUp
<1>7. \A g : Expected(g)' = Expected(g)
  BY <1>1 DEF Expected, complex_lookup
<1>8. CacheInv' /\ SameCheck'
  BY <1>1, <1>7 DEF IInv, CacheInv, SameCheck
<1>9. StoreInv' /\ RanInv'
  BY <1>1, <1>2, <1>7 DEF IInv, StoreInv, RanInv
<1> QED BY <1>3, <1>4, <1>5, <1>6, <1>8, <1>9 DEF IInv

(* The first string: a wrapper that has looked the function up is out of   *)
(* date from here on, unless the purpose is the same.                      *)
LEMMA SetStr1Inv ==
  ASSUME IInv, NEW t \in Threads, SetStr1(t)
  PROVE  IInv'
<1> DEFINE f == fn[t]
<1>1. /\ pc[t] = "str1" /\ global_lock = t /\ f \in Fns /\ arg[t] \in Purposes /\ objs[f] # NONE
      /\ objs[f] \in Strings1 \X Strings2
  BY DEF IInv, SetStr1, LockInv, BusyInv, Locked, Converting, AllRegistered, TypeOK
<1>2. /\ objs' = [objs EXCEPT ![f] = <<arg[t][1], objs[f][2]>>]
      /\ changed' = IF LookedUp(f) /\ arg[t] # objs[f] THEN changed \cup {f} ELSE changed
      /\ pc' = [pc EXCEPT ![t] = "str2"]
      /\ UNCHANGED <<global_lock, cache, fn, arg, ran, mixed, path>>
  BY DEF SetStr1, Goto
<1>3. /\ objs'[f] = <<arg[t][1], objs[f][2]>> /\ \A g \in Fns \ {f} : objs'[g] = objs[g]
      /\ pc'[t] = "str2" /\ \A u \in Threads \ {t} : pc'[u] = pc[u]
  BY <1>1, <1>2 DEF IInv, TypeOK
<1>4. \A u \in Threads \ {t} : pc[u] \notin Locked
  BY <1>1 DEF IInv, LockInv
<1>5. objs'[f] \in Strings1 \X Strings2 /\ objs'[f] # NONE
  BY <1>1, <1>3, PurposePair, NoneAssumption
<1>6. f \notin changed' /\ LookedUp(f) => objs'[f] = objs[f] /\ objs[f] = arg[t]
  BY <1>1, <1>2, <1>3, PurposePair
<1>7. LookedUp(f)' => LookedUp(f)
  BY <1>2, <1>3 DEF LookedUp
<1>8. TypeOK'
  BY <1>1, <1>2, <1>5 DEF IInv, TypeOK, PCs
<1>9. LockInv' /\ BusyInv'
  BY <1>1, <1>2, <1>3, <1>4, <1>5 DEF IInv, LockInv, BusyInv, AllRegistered, Locked, Converting
<1>10. WholeInv'
  BY <1>1, <1>2, <1>3, <1>4 DEF IInv, WholeInv, Half, Locked
<1>11. Str2Inv'
  BY <1>1, <1>2, <1>3, <1>4, <1>6, <1>7 DEF Str2Inv, Locked
<1>12. CacheInv'
  <2>1. cache[f] # NONE => LookedUp(f)
    BY DEF LookedUp
  <2> QED BY <1>1, <1>2, <1>3, <1>5, <1>6, <2>1 DEF IInv, CacheInv, Expected, complex_lookup
<1>13. StoreInv'
  <2>1. ASSUME NEW u \in Threads, pc[u] = "store", fn[u] = f PROVE LookedUp(f)
    BY <2>1 DEF LookedUp
  <2> QED BY <1>1, <1>2, <1>3, <1>6, <2>1 DEF IInv, StoreInv, BusyInv, Expected, complex_lookup
<1>14. RanInv' /\ SameCheck'
  BY <1>1, <1>2, <1>3 DEF IInv, RanInv, SameCheck
<1> QED BY <1>8, <1>9, <1>10, <1>11, <1>12, <1>13, <1>14 DEF IInv

(* The second string: the purpose is whole again.                          *)
LEMMA SetStr2Inv ==
  ASSUME IInv, NEW t \in Threads, SetStr2(t)
  PROVE  IInv'
<1>0. PICK f : f = fn[t]
  OBVIOUS
<1>1. /\ f = fn[t] /\ pc[t] = "str2" /\ global_lock = t /\ f \in Fns /\ arg[t] \in Purposes /\ objs[f] # NONE
      /\ objs[f] \in Strings1 \X Strings2 /\ objs[f][1] = arg[t][1]
      /\ LookedUp(f) /\ f \notin changed => objs[f] = arg[t]
  BY <1>0 DEF IInv, SetStr2, LockInv, BusyInv, Str2Inv, Locked, Converting, AllRegistered, TypeOK
<1>2. /\ objs' = [objs EXCEPT ![f] = <<objs[f][1], arg[t][2]>>]
      /\ global_lock' = NONE
      /\ pc' = [pc EXCEPT ![t] = "idle"] /\ fn' = [fn EXCEPT ![t] = NONE]
      /\ arg' = [arg EXCEPT ![t] = NONE] /\ ran' = [ran EXCEPT ![t] = NONE]
      /\ UNCHANGED <<cache, mixed, changed, path>>
  BY <1>0 DEF SetStr2, Leave, Goto
<1>3. /\ objs'[f] = <<objs[f][1], arg[t][2]>> /\ \A g \in Fns \ {f} : objs'[g] = objs[g]
      /\ pc'[t] = "idle"
      /\ \A u \in Threads \ {t} : pc'[u] = pc[u] /\ fn'[u] = fn[u] /\ arg'[u] = arg[u] /\ ran'[u] = ran[u]
  BY <1>1, <1>2 DEF IInv, TypeOK
<1>4. \A u \in Threads \ {t} : pc[u] \notin Locked
  BY <1>1 DEF IInv, LockInv
<1>5. objs'[f] = arg[t]
  BY <1>1, <1>3, PurposePair
<1>6. objs'[f] \in Strings1 \X Strings2 /\ objs'[f] # NONE /\ ~Half(f)'
  <2>1. /\ arg[t] = <<arg[t][1], arg[t][2]>> /\ arg[t][1] # EMPTY /\ arg[t][2] # EMPTY
        /\ arg[t][1] \in Strings1 /\ arg[t][2] \in Strings2
    BY <1>1, PurposePair
  <2>2. objs'[f] \in Strings1 \X Strings2
    BY <1>5, <2>1
  <2>3. objs'[f][1] # EMPTY /\ objs'[f][2] # EMPTY
    BY <1>5, <2>1
  <2> QED BY <2>2, <2>3, NoneAssumption DEF Half
<1>7. f \notin changed' /\ LookedUp(f) => objs'[f] = objs[f]
  BY <1>1, <1>2, <1>5
<1>8. TypeOK'
  BY <1>1, <1>2, <1>6 DEF IInv, TypeOK, PCs
<1>9. LockInv' /\ BusyInv'
  BY <1>1, <1>2, <1>3, <1>4, <1>6, NamesAssumption DEF IInv, LockInv, BusyInv, AllRegistered, Locked, Converting
<1>10. WholeInv'
  <2>1. \A g \in Fns \ {f} : (Half(g)' <=> Half(g)) /\ objs'[g] = objs[g]
    BY <1>3 DEF Half
  <2>2. \A u \in Threads : pc[u] = "str2" => u = t
    BY <1>4 DEF Locked
  <2>3. ASSUME NEW g \in Fns \ {f}, objs[g] # NONE PROVE ~Half(g)
    <3>1. \A u \in Threads : pc[u] = "str2" => fn[u] # g
      BY <1>1, <2>2
    <3> QED BY <2>3, <3>1 DEF IInv, WholeInv
  <2> QED BY <1>6, <2>1, <2>3 DEF WholeInv
<1>11. Str2Inv'
  BY <1>2, <1>3, <1>4 DEF Str2Inv, Locked
<1>12. CacheInv'
  <2>1. cache[f] # NONE => LookedUp(f)
    BY DEF LookedUp
  <2>2. ASSUME NEW g \in Fns, cache[g] # NONE
        PROVE  objs'[g] # NONE /\ (g \notin changed => objs'[g] = objs[g])
    BY <1>2, <1>3, <1>6, <1>7, <2>1, <2>2 DEF IInv, CacheInv
  <2> QED BY <1>2, <2>2 DEF IInv, CacheInv, Expected, complex_lookup
<1>13. StoreInv'
  <2>1. ASSUME NEW u \in Threads, pc[u] = "store", fn[u] = f PROVE LookedUp(f)
    BY <2>1 DEF LookedUp
  <2>2. ASSUME NEW u \in Threads \ {t}, pc[u] = "store", fn[u] \notin changed
        PROVE  Expected(fn[u])' = Expected(fn[u])
    BY <1>1, <1>2, <1>3, <1>7, <2>1, <2>2 DEF IInv, BusyInv, Expected, complex_lookup
  <2> QED BY <1>2, <1>3, <2>2 DEF IInv, StoreInv
<1>14. RanInv' /\ SameCheck'
  BY <1>1, <1>2, <1>3 DEF IInv, RanInv, SameCheck
<1> QED BY <1>8, <1>9, <1>10, <1>11, <1>12, <1>13, <1>14 DEF IInv

(* The static variable is looked at without the lock.                      *)
LEMMA TestCacheInv ==
  ASSUME IInv, NEW t \in Threads, TestCache(t)
  PROVE  IInv'
<1>1. /\ pc[t] = "test" /\ pc' = [pc EXCEPT ![t] = IF cache[fn[t]] = NONE THEN "lookup" ELSE "pre"]
      /\ UNCHANGED <<objs, global_lock, cache, fn, arg, ran, mixed, changed, path>>
  BY DEF TestCache, Goto
<1>2. /\ pc'[t] = IF cache[fn[t]] = NONE THEN "lookup" ELSE "pre"
      /\ \A u \in Threads \ {t} : pc'[u] = pc[u]
  BY <1>1 DEF IInv, TypeOK
<1>3. TypeOK'
  BY <1>1 DEF IInv, TypeOK, PCs
<1>4. LockInv' /\ BusyInv' /\ WholeInv'
  BY <1>1, <1>2 DEF IInv, LockInv, BusyInv, WholeInv, AllRegistered, Half, Locked, Converting
<1>5. Str2Inv' /\ StoreInv' /\ RanInv' /\ SameCheck'
  BY <1>1, <1>2 DEF IInv, Str2Inv, StoreInv, RanInv, SameCheck, LookedUp, Expected, complex_lookup
<1>6. CacheInv'
  BY <1>1 DEF IInv, CacheInv, Expected, complex_lookup
<1> QED BY <1>3, <1>4, <1>5, <1>6 DEF IInv

(* The lookup, under the lock: what it finds is what is expected.          *)
LEMMA LookupInv ==
  ASSUME IInv, NEW t \in Threads, gen_lookup_MJRcheck(t)
  PROVE  IInv'
<1>1. CASE Fails("assert")
  BY <1>1, FailsInv
<1>2. CASE ~Fails("assert")
  <2> DEFINE f == fn[t]
  <2>1. /\ pc[t] = "search" /\ global_lock = t
        /\ arg' = [arg EXCEPT ![t] = Expected(f)]
        /\ global_lock' = NONE /\ pc' = [pc EXCEPT ![t] = "store"]
        /\ UNCHANGED <<objs, cache, fn, ran, mixed, changed, path>>
    BY <1>2 DEF gen_lookup_MJRcheck, Goto, Expected, IInv, LockInv, Locked
  <2>2. /\ pc'[t] = "store" /\ arg'[t] = Expected(f)
        /\ \A u \in Threads \ {t} : pc'[u] = pc[u] /\ arg'[u] = arg[u] /\ pc[u] \notin Locked
    BY <2>1 DEF IInv, TypeOK, LockInv
  <2>3. TypeOK'
    BY <2>1, ExpectedType DEF IInv, TypeOK, PCs
  <2>4. LockInv' /\ BusyInv' /\ WholeInv'
    BY <2>1, <2>2, NamesAssumption
    DEF IInv, LockInv, BusyInv, WholeInv, AllRegistered, Half, Locked, Converting
  <2>5. Str2Inv' /\ CacheInv'
    BY <2>1, <2>2 DEF IInv, Str2Inv, CacheInv, Expected, complex_lookup, Locked
  <2>6. StoreInv' /\ RanInv' /\ SameCheck'
    BY <2>1, <2>2, ExpectedType DEF IInv, StoreInv, RanInv, SameCheck, Expected, complex_lookup
  <2> QED BY <2>3, <2>4, <2>5, <2>6 DEF IInv
<1> QED BY <1>1, <1>2

(* The store: another thread may have stored before, but the same check.   *)
LEMMA StoreStepInv ==
  ASSUME IInv, NEW t \in Threads, Store(t)
  PROVE  IInv'
<1> DEFINE f == fn[t]
<1>1. /\ pc[t] = "store" /\ f \in Fns /\ arg[t] # NONE /\ objs[f] # NONE
      /\ f \notin changed => arg[t] = Expected(f)
      /\ cache' = [cache EXCEPT ![f] = arg[t]] /\ arg' = [arg EXCEPT ![t] = NONE]
      /\ pc' = [pc EXCEPT ![t] = "pre"]
      /\ UNCHANGED <<objs, global_lock, fn, ran, mixed, changed, path>>
  BY DEF IInv, BusyInv, StoreInv, AllRegistered, Store, Goto
<1>2. /\ pc'[t] = "pre" /\ cache'[f] = arg[t]
      /\ \A u \in Threads \ {t} : pc'[u] = pc[u] /\ arg'[u] = arg[u]
      /\ \A g \in Fns \ {f} : cache'[g] = cache[g]
  BY <1>1 DEF IInv, TypeOK
<1>3. TypeOK'
  BY <1>1 DEF IInv, TypeOK, PCs
<1>4. LockInv' /\ BusyInv' /\ WholeInv'
  BY <1>1, <1>2 DEF IInv, LockInv, BusyInv, WholeInv, AllRegistered, Half, Locked, Converting
<1>5. Str2Inv'
  <2>1. \A g \in Fns : LookedUp(g)' => LookedUp(g)
    BY <1>1, <1>2 DEF LookedUp
  <2> QED BY <1>1, <1>2, <2>1 DEF IInv, Str2Inv, BusyInv
<1>6. CacheInv' /\ StoreInv'
  BY <1>1, <1>2 DEF IInv, CacheInv, StoreInv, Expected, complex_lookup
<1>7. RanInv' /\ SameCheck'
  <2>1. cache[f] # NONE /\ f \notin changed => cache'[f] = cache[f]
    BY <1>1, <1>2 DEF IInv, CacheInv
  <2> QED BY <1>1, <1>2, <2>1 DEF IInv, RanInv, BusyInv, SameCheck
<1> QED BY <1>3, <1>4, <1>5, <1>6, <1>7 DEF IInv

(* The check before the function, and the one after it.                    *)
LEMMA RunInv ==
  ASSUME IInv, NEW t \in Threads, RunPre(t) \/ RunPost(t)
  PROVE  IInv'
<1>1. CASE RunPre(t)
  <2>1. /\ pc[t] = "pre" /\ ran' = [ran EXCEPT ![t] = cache[fn[t]]] /\ pc' = [pc EXCEPT ![t] = "body"]
        /\ fn[t] \in Fns
        /\ UNCHANGED <<objs, global_lock, cache, fn, arg, mixed, changed, path>>
    BY <1>1 DEF RunPre, Goto, IInv, BusyInv
  <2>2. /\ pc'[t] = "body" /\ ran'[t] = cache[fn[t]]
        /\ \A u \in Threads \ {t} : pc'[u] = pc[u] /\ ran'[u] = ran[u]
    BY <2>1 DEF IInv, TypeOK
  <2>3. TypeOK'
    BY <2>1 DEF IInv, TypeOK, PCs
  <2>4. LockInv' /\ BusyInv' /\ WholeInv'
    BY <2>1, <2>2 DEF IInv, LockInv, BusyInv, WholeInv, AllRegistered, Half, Locked, Converting
  <2>5. Str2Inv' /\ StoreInv' /\ RanInv' /\ SameCheck'
    BY <2>1, <2>2 DEF IInv, Str2Inv, StoreInv, RanInv, SameCheck, LookedUp, Expected, complex_lookup
  <2>6. CacheInv'
    BY <2>1 DEF IInv, CacheInv, Expected, complex_lookup
  <2> QED BY <2>3, <2>4, <2>5, <2>6 DEF IInv
<1>2. CASE RunPost(t)
  <2>1. /\ pc[t] = "body" /\ fn[t] \in Fns
        /\ mixed' = IF cache[fn[t]] # ran[t] THEN mixed \cup {fn[t]} ELSE mixed
        /\ pc' = [pc EXCEPT ![t] = "idle"] /\ fn' = [fn EXCEPT ![t] = NONE]
        /\ arg' = [arg EXCEPT ![t] = NONE] /\ ran' = [ran EXCEPT ![t] = NONE]
        /\ UNCHANGED <<objs, global_lock, cache, changed, path>>
    BY <1>2 DEF RunPost, Leave, Goto, IInv, BusyInv
  <2>2. /\ pc'[t] = "idle"
        /\ \A u \in Threads \ {t} : pc'[u] = pc[u] /\ fn'[u] = fn[u] /\ arg'[u] = arg[u] /\ ran'[u] = ran[u]
    BY <2>1 DEF IInv, TypeOK
  <2>3. TypeOK'
    BY <2>1 DEF IInv, TypeOK, PCs
  <2>4. LockInv' /\ BusyInv' /\ WholeInv'
    BY <2>1, <2>2 DEF IInv, LockInv, BusyInv, WholeInv, AllRegistered, Half, Locked, Converting
  <2>5. Str2Inv' /\ StoreInv' /\ RanInv'
    <3>1. \A g : (Expected(g)' = Expected(g)) /\ (LookedUp(g)' => LookedUp(g))
      BY <2>1, <2>2 DEF Expected, complex_lookup, LookedUp
    <3> QED BY <2>1, <2>2, <3>1 DEF IInv, Str2Inv, StoreInv, RanInv
  <2>6. SameCheck'
    BY <2>1 DEF IInv, RanInv, SameCheck
  <2>7. CacheInv'
    BY <2>1 DEF IInv, CacheInv, Expected, complex_lookup
  <2> QED BY <2>3, <2>4, <2>5, <2>6, <2>7 DEF IInv
<1> QED BY <1>1, <1>2

-----------------------------------------------------------------------------
(* Every step keeps the invariant.                                         *)
LEMMA StepInv == IInv /\ [Next]_vars => IInv'
<1> SUFFICES ASSUME IInv, [Next]_vars PROVE IInv'
  OBVIOUS
<1>1. CASE UNCHANGED vars
  BY <1>1
  DEF IInv, TypeOK, LockInv, BusyInv, WholeInv, Str2Inv, CacheInv, StoreInv, RanInv, SameCheck,
      vars, thread, Expected, complex_lookup, LookedUp, Half, AllRegistered
<1>2. CASE \E f \in Fns : gen_register_one(f)
  BY <1>2, RegisterInv
<1>3. CASE free_function_tracker
  BY <1>3, FailsInv DEF free_function_tracker
<1>4. ASSUME NEW t \in Threads, NEW f \in Fns, Call(t, f) \/ \E p \in Purposes : Convert(t, f, p)
      PROVE  IInv'
  BY <1>4, BeginInv
<1>5. ASSUME NEW t \in Threads,
             \/ acquire_global_lock(t, "convert", "str1") \/ SetStr1(t) \/ SetStr2(t)
             \/ TestCache(t) \/ acquire_global_lock(t, "lookup", "search")
             \/ gen_lookup_MJRcheck(t) \/ Store(t) \/ RunPre(t) \/ RunPost(t)
      PROVE  IInv'
  BY <1>5, AcquireInv, SetStr1Inv, SetStr2Inv, TestCacheInv, LookupInv, StoreStepInv, RunInv
<1> QED BY <1>1, <1>2, <1>3, <1>4, <1>5 DEF Next

(* The invariant holds in every state the framework reaches.               *)
THEOREM Invariance == Spec => []IInv
<1>1. Init => IInv
  BY InitInv
<1>2. IInv /\ [Next]_vars => IInv'
  BY StepInv
<1> QED BY <1>1, <1>2, PTL DEF Spec

(* What a lookup meets is never half converted, for any number of threads  *)
(* and functions.                                                          *)
THEOREM LookupsMeetWholePurposes == Spec => []NeverHalf
<1>1. IInv => NeverHalf
  <2> SUFFICES ASSUME IInv, NEW t \in Threads, pc[t] = "search" PROVE ~Half(fn[t])
    BY DEF NeverHalf
  <2>1. fn[t] \in Fns /\ objs[fn[t]] # NONE /\ global_lock = t
    BY DEF IInv, BusyInv, AllRegistered, LockInv, Locked
  <2>2. \A u \in Threads : pc[u] # "str2"
    BY <2>1 DEF IInv, LockInv, Locked
  <2> QED BY <2>1, <2>2 DEF IInv, WholeInv
<1> QED BY <1>1, Invariance, PTL

(* A wrapper's static variable is current unless the function was          *)
(* converted again.                                                        *)
THEOREM CachesAreCurrent == Spec => []CacheCurrent
<1>1. IInv => CacheCurrent
  BY DEF IInv, CacheInv, CacheCurrent, Expected
<1> QED BY <1>1, Invariance, PTL

(* A call is bracketed by one check unless the function was converted      *)
(* again.                                                                  *)
THEOREM CallsAreBracketed == Spec => []SameCheck
<1>1. IInv => SameCheck
  BY DEF IInv
<1> QED BY <1>1, Invariance, PTL

(* Types are kept.                                                         *)
THEOREM TypeCorrect == Spec => []TypeOK
<1>1. IInv => TypeOK
  BY DEF IInv
<1> QED BY <1>1, Invariance, PTL
=============================================================================
