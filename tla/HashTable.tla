------------------------------ MODULE HashTable ------------------------------
(***************************************************************************)
(* gtf/hashtable/hashtable.c: a hash table with chains that grows from one *)
(* prime size to the next.  Its users hold the global lock, so operations  *)
(* do not overlap; an insertion is several steps because memory may run    *)
(* out between them and because growing moves one entry at a time.         *)
(*                                                                         *)
(* A chain is the sequence of its entries.  Keys, values and hash values   *)
(* are arbitrary; ResetValue stands for hash_reset_objs_state.             *)
(***************************************************************************)
EXTENDS Integers, Sequences, FiniteSets

CONSTANTS
  Keys, Values, ResetValue,
  Hash,     \* hash: the hash value of each key
  Primes,   \* primes: the sizes the table can have
  NULL

ASSUME ValuesAssumption ==
  /\ ResetValue \in [Values -> Values]
  /\ NULL \notin Values
ASSUME HashAssumption == Hash \in [Keys -> Nat]
ASSUME PrimesAssumption == Primes \in Seq(Nat \ {0}) /\ Primes # <<>>

Entry == [k: Keys, v: Values, h: Nat]

VARIABLES
  table, tablelength, primeindex, entrycount, loadlimit,
  newtable,   \* the table that hashtable_expand fills; empty otherwise
  pc, arg,    \* the step of hashtable_insert, and its key and value
  reply       \* the last operation, its key and what it returned

sizes == <<tablelength, primeindex, loadlimit>>
vars == <<table, sizes, entrycount, newtable, pc, arg, reply>>

-----------------------------------------------------------------------------
Table(n) == [0 .. n - 1 -> Seq(Entry)]

Empty(n) == [i \in 0 .. n - 1 |-> <<>>]

indexFor(n, h) == h % n

LoadLimit(n) == n \div 2

PrimeAt(i) == Primes[i + 1]

(* Well-typed fields; the lengths of both tables agree with the fields.    *)
TypeOK ==
  /\ tablelength \in Nat \ {0}
  /\ table \in Table(tablelength)
  /\ primeindex \in 0 .. Len(Primes) - 1
  /\ entrycount \in Int
  /\ loadlimit \in Nat
  /\ pc \in {"idle", "expand", "move", "entry"}
  /\ newtable \in (IF pc = "move" THEN Table(PrimeAt(primeindex)) ELSE {<<>>})
  /\ arg \in (IF pc = "idle" THEN {NULL} ELSE [k: Keys, v: Values])
  /\ reply \in {NULL} \cup ({"insert", "search", "remove"} \X Keys \X (Values \cup {NULL}))

(* create_hashtable(16, ...): the smallest prime is larger than that.      *)
Init ==
  /\ tablelength = PrimeAt(0)
  /\ table = Empty(PrimeAt(0))
  /\ primeindex = 0
  /\ entrycount = 0
  /\ loadlimit = LoadLimit(PrimeAt(0))
  /\ newtable = <<>>
  /\ pc = "idle" /\ arg = NULL
  /\ reply = NULL

-----------------------------------------------------------------------------
(* Looking a key up: the first entry of its chain that has it.             *)

Chain(k) == table[indexFor(tablelength, Hash[k])]

Matches(k, c, j) == j \in 1 .. Len(c) /\ c[j].h = Hash[k] /\ c[j].k = k

IsFound(k, c, j) == Matches(k, c, j) /\ \A i \in 1 .. j - 1 : ~Matches(k, c, i)

Absent(k) == \A j \in 1 .. Len(Chain(k)) : ~Matches(k, Chain(k), j)

Without(c, j) == SubSeq(c, 1, j - 1) \o SubSeq(c, j + 1, Len(c))

hashtable_search(k) ==
  /\ pc = "idle"
  /\ \/ Absent(k) /\ reply' = <<"search", k, NULL>>
     \/ \E j \in 1 .. Len(Chain(k)) :
          IsFound(k, Chain(k), j) /\ reply' = <<"search", k, Chain(k)[j].v>>
  /\ UNCHANGED <<table, sizes, entrycount, newtable, pc, arg>>

hashtable_remove(k) ==
  /\ pc = "idle"
  /\ \/ Absent(k) /\ reply' = <<"remove", k, NULL>> /\ UNCHANGED <<table, entrycount>>
     \/ \E j \in 1 .. Len(Chain(k)) :
          /\ IsFound(k, Chain(k), j)
          /\ table' = [table EXCEPT ![indexFor(tablelength, Hash[k])] = Without(@, j)]
          /\ entrycount' = entrycount - 1
          /\ reply' = <<"remove", k, Chain(k)[j].v>>
  /\ UNCHANGED <<sizes, newtable, pc, arg>>

(* hashtable_enumerate with hash_reset_objs_state.                         *)
hashtable_enumerate ==
  /\ pc = "idle"
  /\ table' = [i \in 0 .. tablelength - 1 |->
                 [j \in 1 .. Len(table[i]) |->
                    [table[i][j] EXCEPT !.v = ResetValue[@]]]]
  /\ UNCHANGED <<sizes, entrycount, newtable, pc, arg, reply>>

-----------------------------------------------------------------------------
(* hashtable_insert.  Both users search for the key first and insert it    *)
(* only if it is not there.                                                *)

hashtable_insert(k, v) ==
  /\ pc = "idle"
  /\ Absent(k)
  /\ entrycount' = entrycount + 1
  /\ arg' = [k |-> k, v |-> v]
  /\ pc' = IF entrycount + 1 > loadlimit THEN "expand" ELSE "entry"
  /\ UNCHANGED <<table, sizes, newtable, reply>>

(* hashtable_expand.  primeindex has moved on even if there is no memory   *)
(* for the new table.                                                      *)
MaxCapacity ==
  /\ pc = "expand"
  /\ primeindex = Len(Primes) - 1
  /\ pc' = "entry"
  /\ UNCHANGED <<table, sizes, entrycount, newtable, arg, reply>>

ExpandFails ==
  /\ pc = "expand"
  /\ primeindex # Len(Primes) - 1
  /\ primeindex' = primeindex + 1
  /\ pc' = "entry"
  /\ UNCHANGED <<table, tablelength, loadlimit, entrycount, newtable, arg, reply>>

hashtable_expand ==
  /\ pc = "expand"
  /\ primeindex # Len(Primes) - 1
  /\ primeindex' = primeindex + 1
  /\ newtable' = Empty(PrimeAt(primeindex + 1))
  /\ pc' = "move"
  /\ UNCHANGED <<table, tablelength, loadlimit, entrycount, arg, reply>>

(* The first entry of the first chain that is not empty goes to the front  *)
(* of its new chain.                                                       *)
NextToMove(i) ==
  /\ i \in 0 .. tablelength - 1
  /\ table[i] # <<>>
  /\ \A j \in 0 .. i - 1 : table[j] = <<>>

(* Mutant: the index is computed from the old size.                        *)
NewIndexOld(e) == indexFor(tablelength, e.h)

NewIndex(e) == indexFor(PrimeAt(primeindex), e.h)

MoveEntry ==
  /\ pc = "move"
  /\ \E i \in 0 .. tablelength - 1 :
       /\ NextToMove(i)
       /\ table' = [table EXCEPT ![i] = Tail(@)]
       /\ newtable' = [newtable EXCEPT ![NewIndex(Head(table[i]))] =
                         <<Head(table[i])>> \o @]
  /\ UNCHANGED <<sizes, entrycount, pc, arg, reply>>

(* Mutant: the old size stays in force.                                    *)
FinishExpandOldSize ==
  /\ pc = "move"
  /\ \A i \in 0 .. tablelength - 1 : table[i] = <<>>
  /\ table' = newtable
  /\ newtable' = <<>>
  /\ loadlimit' = LoadLimit(PrimeAt(primeindex))
  /\ pc' = "entry"
  /\ UNCHANGED <<tablelength, primeindex, entrycount, arg, reply>>

FinishExpand ==
  /\ pc = "move"
  /\ \A i \in 0 .. tablelength - 1 : table[i] = <<>>
  /\ table' = newtable
  /\ newtable' = <<>>
  /\ tablelength' = PrimeAt(primeindex)
  /\ loadlimit' = LoadLimit(PrimeAt(primeindex))
  /\ pc' = "entry"
  /\ UNCHANGED <<primeindex, entrycount, arg, reply>>

(* Mutant: the count is not put back when there is no memory for an entry. *)
NoEntryCounted ==
  /\ pc = "entry"
  /\ reply' = <<"insert", arg.k, NULL>>
  /\ pc' = "idle" /\ arg' = NULL
  /\ UNCHANGED <<table, sizes, entrycount, newtable>>

NoEntry ==
  /\ pc = "entry"
  /\ entrycount' = entrycount - 1
  /\ reply' = <<"insert", arg.k, NULL>>
  /\ pc' = "idle" /\ arg' = NULL
  /\ UNCHANGED <<table, sizes, newtable>>

AddEntry ==
  /\ pc = "entry"
  /\ table' = [table EXCEPT ![indexFor(tablelength, Hash[arg.k])] =
                 <<[k |-> arg.k, v |-> arg.v, h |-> Hash[arg.k]]>> \o @]
  /\ reply' = <<"insert", arg.k, arg.v>>
  /\ pc' = "idle" /\ arg' = NULL
  /\ UNCHANGED <<sizes, entrycount, newtable>>

-----------------------------------------------------------------------------
Next ==
  \/ \E k \in Keys : hashtable_search(k) \/ hashtable_remove(k)
  \/ hashtable_enumerate
  \/ \E k \in Keys, v \in Values : hashtable_insert(k, v)
  \/ MaxCapacity \/ ExpandFails \/ hashtable_expand
  \/ MoveEntry \/ FinishExpand
  \/ NoEntry \/ AddEntry

Spec == Init /\ [][Next]_vars

-----------------------------------------------------------------------------
(* Properties.                                                             *)

Elems(c) == {c[j] : j \in 1 .. Len(c)}

EntriesOf(tab) == UNION {Elems(tab[i]) : i \in DOMAIN tab}

(* The entries of the table, wherever an expansion has put them so far.    *)
Entries == EntriesOf(table) \cup EntriesOf(newtable)

PresentKeys == {e.k : e \in Entries}

(* hashtable_count, which free_driver_state reports as the resources that  *)
(* were not freed: it counts the keys in the table, also after expansions  *)
(* and insertions that failed, and during an insertion the new one too.    *)
CountRight == entrycount = Cardinality(PresentKeys) + (IF pc = "idle" THEN 0 ELSE 1)

ValueIn(S, k) == IF \E e \in S : e.k = k THEN (CHOOSE e \in S : e.k = k).v ELSE NULL

Map == INSTANCE ObjectMap WITH map <- [k \in Keys |-> ValueIn(Entries, k)]

(* The table implements a map: every search and removal finds what was     *)
(* inserted last under the key and nothing else, whatever expansions,      *)
(* failed expansions and failed insertions happened in between.            *)
ImplementsMap == Map!Spec
=============================================================================
