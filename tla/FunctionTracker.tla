-------------------------- MODULE FunctionTracker --------------------------
(***************************************************************************)
(* gtf/function_tracker.c and gtf/symbol_lookup.c: the table from a driver *)
(* function to its purpose, and the lookup of the check for that purpose,  *)
(* with the static variable in which the generated wrapper keeps what it   *)
(* has looked up (gen_lookup_MJRcheck and run_MJRcheck_fn of               *)
(* cil/src/ext/drivers/splitter_dri.ml).                                   *)
(*                                                                         *)
(* The table is read and written under the global lock; the static         *)
(* variable is not, and every thread that calls the function shares it.    *)
(***************************************************************************)
EXTENDS Naturals

CONSTANTS
  Threads,
  Fns,         \* functions the framework wraps
  Special,     \* those whose wrapper names its check itself
  Purposes,    \* <<structure, field>> pairs a function is converted to
  Checked,     \* the names, of purposes and functions, that have a check
  NONE

EMPTY == ""   \* str1 and str2 of a function without a purpose

Name(fn) == <<"fn", fn>>
Names == {Name(fn) : fn \in Fns} \cup Purposes
DEFAULT == <<"default_MJRcheck">>

(* What str1 and str2 can be.                                              *)
Strings1 == {p[1] : p \in Purposes} \cup {EMPTY}
Strings2 == {p[2] : p \in Purposes} \cup {EMPTY}

ASSUME PurposesAssumption == \A p \in Purposes : p = <<p[1], p[2]>> /\ p[1] # EMPTY /\ p[2] # EMPTY
ASSUME NamesAssumption == Special \subseteq Fns /\ NONE \notin Threads /\ Checked \subseteq Names
ASSUME NoneAssumption == NONE \notin Names \cup {DEFAULT} \cup Strings1 \X Strings2

VARIABLES
  objs,        \* <<str1, str2>> of each registered function
  global_lock, \* the thread that holds it
  cache,       \* the static variable of each wrapper, NONE while it is 0
  pc, fn, arg, \* where each thread is, in which function, with what
  ran,         \* the check a thread ran before the function
  mixed,       \* a function had different checks before and after one call
  changed,     \* functions converted again after their first lookup
  path         \* how the path ended

thread == <<pc, fn, arg, ran>>
vars == <<objs, global_lock, cache, thread, mixed, changed, path>>

PCs == {"idle", "test", "lookup", "search", "store", "pre", "body",
        "convert", "str1", "str2"}

(* The static variable holds a check or 0.                                 *)
TypeOK ==
  /\ objs \in [Fns -> Strings1 \X Strings2 \cup {NONE}]
  /\ global_lock \in Threads \cup {NONE}
  /\ cache \in [Fns -> Names \cup {DEFAULT, NONE}]
  /\ pc \in [Threads -> PCs]
  /\ fn \in [Threads -> Fns \cup {NONE}]
  /\ arg \in [Threads -> Names \cup {DEFAULT, NONE}]
  /\ ran \in [Threads -> Names \cup {DEFAULT, NONE}]
  /\ mixed \subseteq Fns /\ changed \subseteq Fns
  /\ path \in {"running", "assert", "oops", "freed"}

(* initialize_function_tracker *)
Init ==
  /\ objs = [f \in Fns |-> NONE]
  /\ global_lock = NONE
  /\ cache = [f \in Fns |-> NONE]
  /\ pc = [t \in Threads |-> "idle"]
  /\ fn = [t \in Threads |-> NONE]
  /\ arg = [t \in Threads |-> NONE]
  /\ ran = [t \in Threads |-> NONE]
  /\ mixed = {} /\ changed = {}
  /\ path = "running"

Goto(t, label) == pc' = [pc EXCEPT ![t] = label]

(* The thread leaves the wrapper, and its local variables are gone.        *)
Leave(t) ==
  /\ Goto(t, "idle")
  /\ fn' = [fn EXCEPT ![t] = NONE]
  /\ arg' = [arg EXCEPT ![t] = NONE]
  /\ ran' = [ran EXCEPT ![t] = NONE]

Fails(how) == path' = how /\ UNCHANGED <<objs, global_lock, cache, thread, mixed, changed>>

AllRegistered == \A f \in Fns : objs[f] # NONE

-----------------------------------------------------------------------------
(* gen_register_one, once for each function before any wrapper runs; it    *)
(* stops the framework when there is no memory.                            *)
gen_register_one(f) ==
  /\ objs[f] = NONE
  /\ \/ Fails("assert")
     \/ /\ objs' = [objs EXCEPT ![f] = <<EMPTY, EMPTY>>]
        /\ UNCHANGED <<global_lock, cache, thread, mixed, changed, path>>

acquire_global_lock(t, from, to) ==
  /\ pc[t] = from
  /\ global_lock = NONE
  /\ global_lock' = t
  /\ Goto(t, to)
  /\ UNCHANGED <<objs, cache, fn, arg, ran, mixed, changed, path>>

-----------------------------------------------------------------------------
(* gen_convert_fn: the driver stores a function in a field of a structure. *)
(* A pointer outside the kernel's addresses, or to no wrapped function,    *)
(* changes nothing.                                                        *)
Convert(t, f, p) ==
  /\ pc[t] = "idle" /\ AllRegistered
  /\ fn' = [fn EXCEPT ![t] = f]
  /\ arg' = [arg EXCEPT ![t] = p]
  /\ Goto(t, "convert")
  /\ UNCHANGED <<objs, global_lock, cache, ran, mixed, changed, path>>

(* A function whose wrapper has looked its check up, or is doing so.       *)
LookedUp(f) == cache[f] # NONE \/ \E t \in Threads : fn[t] = f /\ pc[t] \in {"search", "store"}

SetStr1(t) ==
  LET f == fn[t] IN
  /\ pc[t] = "str1"
  /\ objs' = [objs EXCEPT ![f] = <<arg[t][1], objs[f][2]>>]
  /\ changed' = IF LookedUp(f) /\ arg[t] # objs[f] THEN changed \cup {f} ELSE changed
  /\ Goto(t, "str2")
  /\ UNCHANGED <<global_lock, cache, fn, arg, ran, mixed, path>>

(* Mutant: the second string is forgotten.                                 *)
SetStr2Not(t) ==
  /\ pc[t] = "str2"
  /\ global_lock' = NONE
  /\ Leave(t)
  /\ UNCHANGED <<objs, cache, mixed, changed, path>>

SetStr2(t) ==
  LET f == fn[t] IN
  /\ pc[t] = "str2"
  /\ objs' = [objs EXCEPT ![f] = <<objs[f][1], arg[t][2]>>]
  /\ global_lock' = NONE
  /\ Leave(t)
  /\ UNCHANGED <<cache, mixed, changed, path>>

-----------------------------------------------------------------------------
(* A wrapper: look the check up if the static variable is 0, run it before *)
(* and after the function.                                                 *)
Call(t, f) ==
  /\ pc[t] = "idle" /\ AllRegistered
  /\ fn' = [fn EXCEPT ![t] = f]
  /\ Goto(t, "test")
  /\ UNCHANGED <<objs, global_lock, cache, arg, ran, mixed, changed, path>>

TestCache(t) ==
  /\ pc[t] = "test"
  /\ Goto(t, IF cache[fn[t]] = NONE THEN "lookup" ELSE "pre")
  /\ UNCHANGED <<objs, global_lock, cache, fn, arg, ran, mixed, changed, path>>

(* symbol_lookup, and the check to use when there is none.                 *)
symbol_lookup(name) == IF name \in Checked THEN name ELSE DEFAULT

(* complex_lookup_MJRcheck, simple_lookup_MJRcheck: the name to look up.   *)
complex_lookup(f) == symbol_lookup(IF objs[f] = <<EMPTY, EMPTY>> THEN Name(f) ELSE objs[f])

Half(f) == (objs[f][1] = EMPTY) # (objs[f][2] = EMPTY)

(* Mutant: every wrapper looks its own name up.                            *)
gen_lookup_simple(t) ==
  /\ pc[t] = "search"
  /\ arg' = [arg EXCEPT ![t] = symbol_lookup(Name(fn[t]))]
  /\ global_lock' = NONE
  /\ Goto(t, "store")
  /\ UNCHANGED <<objs, cache, fn, ran, mixed, changed, path>>

gen_lookup_MJRcheck(t) ==
  LET f == fn[t] IN
  /\ pc[t] = "search"
  /\ \/ f \notin Special /\ Half(f) /\ Fails("assert")
     \/ /\ f \in Special \/ ~Half(f)
        /\ arg' = [arg EXCEPT ![t] = IF f \in Special THEN symbol_lookup(Name(f)) ELSE complex_lookup(f)]
        /\ global_lock' = NONE
        /\ Goto(t, "store")
        /\ UNCHANGED <<objs, cache, fn, ran, mixed, changed, path>>

(* Mutant: one static variable for all the wrappers.                       *)
StoreShared(t) ==
  /\ pc[t] = "store"
  /\ cache' = [f \in Fns |-> arg[t]]
  /\ arg' = [arg EXCEPT ![t] = NONE]
  /\ Goto(t, "pre")
  /\ UNCHANGED <<objs, global_lock, fn, ran, mixed, changed, path>>

Store(t) ==
  /\ pc[t] = "store"
  /\ cache' = [cache EXCEPT ![fn[t]] = arg[t]]
  /\ arg' = [arg EXCEPT ![t] = NONE]
  /\ Goto(t, "pre")
  /\ UNCHANGED <<objs, global_lock, fn, ran, mixed, changed, path>>

(* The wrapper calls what the static variable holds at that moment.        *)
RunPre(t) ==
  /\ pc[t] = "pre"
  /\ ran' = [ran EXCEPT ![t] = cache[fn[t]]]
  /\ Goto(t, "body")
  /\ UNCHANGED <<objs, global_lock, cache, fn, arg, mixed, changed, path>>

RunPost(t) ==
  /\ pc[t] = "body"
  /\ mixed' = IF cache[fn[t]] # ran[t] THEN mixed \cup {fn[t]} ELSE mixed
  /\ Leave(t)
  /\ UNCHANGED <<objs, global_lock, cache, changed, path>>

(* free_function_tracker, when the driver has been unloaded.               *)
free_function_tracker ==
  /\ \A t \in Threads : pc[t] = "idle"
  /\ Fails("freed")

Next ==
  /\ path = "running"
  /\ \/ \E f \in Fns : gen_register_one(f)
     \/ free_function_tracker
     \/ \E t \in Threads :
          \/ \E f \in Fns : Call(t, f) \/ \E p \in Purposes : Convert(t, f, p)
          \/ acquire_global_lock(t, "convert", "str1") \/ SetStr1(t) \/ SetStr2(t)
          \/ TestCache(t) \/ acquire_global_lock(t, "lookup", "search")
          \/ gen_lookup_MJRcheck(t) \/ Store(t) \/ RunPre(t) \/ RunPost(t)

Spec == Init /\ [][Next]_vars

-----------------------------------------------------------------------------
(* A lookup never meets a function with one of its two strings set, so the *)
(* assertion of complex_lookup_MJRcheck never stops a path: whoever holds  *)
(* the lock to convert a function sets both before it lets go              *)
(* (gen_convert_fn).                                                       *)
NeverHalf ==
  \A t \in Threads : pc[t] = "search" => ~Half(fn[t])

(* What a wrapper has kept is the check of the purpose the function has    *)
(* now; the exception is a function that was converted to another purpose  *)
(* after the first lookup, which the wrapper never notices.                *)
CacheCurrent ==
  \A f \in Fns \ (changed \cup Special) : cache[f] # NONE => cache[f] = complex_lookup(f)

(* A call is followed by the check that preceded it: what the one pushed   *)
(* the other pops.  The two differ only when a function is converted while *)
(* two threads are in its wrapper for the first time.                      *)
SameCheck == mixed \subseteq changed
=============================================================================
