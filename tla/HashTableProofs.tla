--------------------------- MODULE HashTableProofs ---------------------------
(***************************************************************************)
(* HashTable implements ObjectMap, for any keys, hash function and sizes.  *)
(***************************************************************************)
EXTENDS HashTable, FiniteSetTheorems, SequenceTheorems, TLAPS

(* The inductive invariant: in both tables every entry is in the chain its *)
(* hash value leads to, no chain has a key twice, and no two entries have  *)
(* the same key; the key being inserted is not in the table yet.           *)
DistinctChain(c) == \A i, j \in 1 .. Len(c) : c[i].k = c[j].k => i = j

Good(tab, n) ==
  /\ tab \in Table(n)
  /\ \A i \in 0 .. n - 1 : DistinctChain(tab[i])
  /\ \A i \in 0 .. n - 1 : \A e \in Elems(tab[i]) : e.h = Hash[e.k] /\ e.h % n = i

Unique(S) == \A e, f \in S : e.k = f.k => e = f

Tables ==
  /\ Good(table, tablelength)
  /\ pc = "move" => Good(newtable, PrimeAt(primeindex))
  /\ EntriesOf(table) \cap EntriesOf(newtable) = {}
  /\ Unique(Entries)
  /\ pc # "idle" => \A e \in Entries : e.k # arg.k

Counted == IsFiniteSet(PresentKeys) /\ CountRight

HashInv == TypeOK /\ Tables /\ Counted

-----------------------------------------------------------------------------
(* Chains.                                                                 *)

LEMMA PrimeType == \A i \in 0 .. Len(Primes) - 1 : PrimeAt(i) \in Nat \ {0}
  BY PrimesAssumption DEF PrimeAt

LEMMA ModRange == \A h \in Nat, n \in Nat \ {0} : h % n \in 0 .. n - 1
  OBVIOUS

LEMMA ElemsType ==
  ASSUME NEW c \in Seq(Entry)
  PROVE  Elems(c) \subseteq Entry
  BY DEF Elems

(* An entry put in front of a chain.                                       *)
LEMMA ConsElems ==
  ASSUME NEW c \in Seq(Entry), NEW e \in Entry, DistinctChain(c),
         \A f \in Elems(c) : f.k # e.k
  PROVE  /\ <<e>> \o c \in Seq(Entry)
         /\ DistinctChain(<<e>> \o c)
         /\ Elems(<<e>> \o c) = Elems(c) \cup {e}
<1> DEFINE d == <<e>> \o c
<1>1. d \in Seq(Entry) /\ Len(d) = Len(c) + 1
  OBVIOUS
<1>2. d[1] = e /\ \A i \in 2 .. Len(d) : d[i] = c[i - 1]
  OBVIOUS
<1>3. \A i \in 1 .. Len(c) : c[i] \in Elems(c) /\ d[i + 1] = c[i]
  BY <1>1, <1>2 DEF Elems
<1>4. DistinctChain(d)
  <2> SUFFICES ASSUME NEW i \in 1 .. Len(d), NEW j \in 1 .. Len(d), d[i].k = d[j].k
               PROVE  i = j
    BY DEF DistinctChain
  <2>1. CASE i = 1 /\ j # 1
    BY <1>1, <1>2, <1>3, <2>1
  <2>2. CASE j = 1 /\ i # 1
    BY <1>1, <1>2, <1>3, <2>2
  <2>3. CASE i # 1 /\ j # 1
    BY <1>1, <1>2, <2>3 DEF DistinctChain
  <2> QED
    BY <2>1, <2>2, <2>3
<1> HIDE DEF d
<1>5. Elems(d) = Elems(c) \cup {e}
  <2>1. ASSUME NEW i \in 1 .. Len(d)
        PROVE  d[i] \in Elems(c) \cup {e}
    <3>1. CASE i = 1
      BY <1>2, <3>1
    <3>2. CASE i # 1
      <4>1. i - 1 \in 1 .. Len(c) /\ d[i] = c[i - 1]
        BY <1>1, <1>2, <3>2
      <4> QED BY <4>1, <1>3
    <3> QED BY <3>1, <3>2
  <2>2. \A i \in 1 .. Len(c) : c[i] \in Elems(d)
    <3> SUFFICES ASSUME NEW i \in 1 .. Len(c) PROVE c[i] \in Elems(d)
      OBVIOUS
    <3>1. i + 1 \in 1 .. Len(d) /\ d[i + 1] = c[i]
      BY <1>1, <1>3
    <3> QED BY <3>1 DEF Elems
  <2>3. e \in Elems(d)
    <3>1. 1 \in 1 .. Len(d)
      BY <1>1
    <3> QED BY <3>1, <1>2 DEF Elems
  <2> QED
    BY <2>1, <2>2, <2>3 DEF Elems
<1> QED
  BY <1>1, <1>4, <1>5 DEF d

(* The first entry taken off a chain.                                      *)
LEMMA TailElems ==
  ASSUME NEW c \in Seq(Entry), DistinctChain(c), c # <<>>
  PROVE  /\ Head(c) \in Elems(c)
         /\ Tail(c) \in Seq(Entry)
         /\ DistinctChain(Tail(c))
         /\ Elems(Tail(c)) = Elems(c) \ {Head(c)}
<1> DEFINE d == Tail(c)
<1>1. Len(c) \in Nat \ {0} /\ d \in Seq(Entry) /\ Len(d) = Len(c) - 1 /\ Head(c) = c[1]
  OBVIOUS
<1>2. \A i \in 1 .. Len(d) : d[i] = c[i + 1]
  BY <1>1
<1>3. DistinctChain(d)
  BY <1>1, <1>2 DEF DistinctChain
<1>4. \A i \in 2 .. Len(c) : c[i] # c[1] /\ d[i - 1] = c[i]
  BY <1>1, <1>2 DEF DistinctChain
<1>5. Elems(d) = Elems(c) \ {c[1]}
  BY <1>1, <1>2, <1>4 DEF Elems
<1>6. c[1] \in Elems(c)
  BY <1>1 DEF Elems
<1> QED
  BY <1>1, <1>3, <1>5, <1>6

(* An entry cut out of a chain.                                            *)
LEMMA WithoutElems ==
  ASSUME NEW c \in Seq(Entry), DistinctChain(c), NEW p \in 1 .. Len(c)
  PROVE  /\ Without(c, p) \in Seq(Entry)
         /\ DistinctChain(Without(c, p))
         /\ Elems(Without(c, p)) = Elems(c) \ {c[p]}
<1> DEFINE d == Without(c, p)
           a == SubSeq(c, 1, p - 1)
           b == SubSeq(c, p + 1, Len(c))
<1>1. /\ a \in Seq(Entry) /\ Len(a) = p - 1
      /\ \A i \in 1 .. p - 1 : a[i] = c[i]
  OBVIOUS
<1>2. /\ b \in Seq(Entry) /\ Len(b) = Len(c) - p
      /\ \A i \in 1 .. Len(c) - p : b[i] = c[i + p]
  OBVIOUS
<1>3. /\ d \in Seq(Entry) /\ Len(d) = Len(c) - 1
      /\ \A i \in 1 .. Len(d) : d[i] = IF i < p THEN c[i] ELSE c[i + 1]
  <2>1. d = a \o b
    BY DEF Without
  <2>2. d \in Seq(Entry) /\ Len(d) = Len(a) + Len(b)
    BY <1>1, <1>2, <2>1
  <2> HIDE DEF d, a, b
  <2>3. \A i \in 1 .. Len(a) + Len(b) :
          (a \o b)[i] = IF i <= Len(a) THEN a[i] ELSE b[i - Len(a)]
    BY <1>1, <1>2, ConcatProperties
  <2>4. \A i \in 1 .. Len(d) : d[i] = IF i <= Len(a) THEN a[i] ELSE b[i - Len(a)]
    BY <2>1, <2>2, <2>3
  <2> QED
    BY <1>1, <1>2, <2>2, <2>4
<1> HIDE DEF d
<1>4. DistinctChain(d)
  <2> SUFFICES ASSUME NEW i \in 1 .. Len(d), NEW j \in 1 .. Len(d), d[i].k = d[j].k
               PROVE  i = j
    BY DEF DistinctChain
  <2> DEFINE q(n) == IF n < p THEN n ELSE n + 1
  <2>1. q(i) \in 1 .. Len(c) /\ q(j) \in 1 .. Len(c)
    BY <1>3
  <2>2. c[q(i)].k = c[q(j)].k
    BY <1>3
  <2>3. q(i) = q(j)
    BY <2>1, <2>2 DEF DistinctChain
  <2> QED
    BY <2>3
<1>5. \A i \in 1 .. Len(c) : i # p => c[i] # c[p] /\ c[i] = d[IF i < p THEN i ELSE i - 1]
  BY <1>3 DEF DistinctChain
<1>6. Elems(d) = Elems(c) \ {c[p]}
  <2>1. ASSUME NEW i \in 1 .. Len(d)
        PROVE  d[i] \in Elems(c) \ {c[p]}
    BY <1>3, <1>5 DEF Elems
  <2>2. ASSUME NEW i \in 1 .. Len(c), i # p
        PROVE  c[i] \in Elems(d)
    BY <1>3, <1>5, <2>2 DEF Elems
  <2> QED
    BY <2>1, <2>2 DEF Elems
<1> QED
  BY <1>3, <1>4, <1>6 DEF d

(* hash_reset_objs_state on a chain.                                       *)
ResetEntry(e) == [e EXCEPT !.v = ResetValue[@]]

LEMMA ResetElems ==
  ASSUME NEW c \in Seq(Entry), DistinctChain(c)
  PROVE  LET d == [j \in 1 .. Len(c) |-> ResetEntry(c[j])] IN
         /\ d \in Seq(Entry)
         /\ DistinctChain(d)
         /\ Elems(d) = {ResetEntry(e) : e \in Elems(c)}
<1> DEFINE d == [j \in 1 .. Len(c) |-> ResetEntry(c[j])]
<1>1. \A j \in 1 .. Len(c) : c[j] \in Entry
  OBVIOUS
<1>2. \A e \in Entry : ResetEntry(e) \in Entry /\ ResetEntry(e).k = e.k
  BY ValuesAssumption DEF ResetEntry, Entry
<1>3. \A j \in 1 .. Len(c) : d[j] \in Entry /\ d[j] = ResetEntry(c[j]) /\ d[j].k = c[j].k
  BY <1>1, <1>2
<1>4. d \in [1 .. Len(c) -> Entry] /\ Len(c) \in Nat
  BY <1>3
<1>5. d \in Seq(Entry) /\ Len(d) = Len(c)
  BY <1>4, IsASeq
<1> HIDE DEF d
<1>6. DistinctChain(d)
  BY <1>3, <1>5 DEF DistinctChain
<1>7. Elems(d) = {ResetEntry(e) : e \in Elems(c)}
  BY <1>3, <1>5 DEF Elems
<1> QED
  BY <1>5, <1>6, <1>7 DEF d

-----------------------------------------------------------------------------
(* Tables.                                                                 *)

LEMMA EntriesOfTable ==
  ASSUME NEW n \in Nat, NEW tab \in Table(n)
  PROVE  \A e : e \in EntriesOf(tab) <=> \E i \in 0 .. n - 1 : e \in Elems(tab[i])
  BY DEF EntriesOf, Table

LEMMA EntriesOfNothing == EntriesOf(<<>>) = {}
  BY DEF EntriesOf

LEMMA EntriesType ==
  ASSUME NEW n \in Nat, NEW tab \in Table(n)
  PROVE  EntriesOf(tab) \subseteq Entry
  BY EntriesOfTable, ElemsType DEF Table

LEMMA EmptyGood ==
  ASSUME NEW n \in Nat
  PROVE  Good(Empty(n), n) /\ EntriesOf(Empty(n)) = {}
<1>1. Empty(n) \in Table(n) /\ \A i \in 0 .. n - 1 : Empty(n)[i] = <<>>
  BY DEF Empty, Table
<1>2. Elems(<<>>) = {} /\ DistinctChain(<<>>)
  BY DEF Elems, DistinctChain
<1>3. EntriesOf(Empty(n)) = {}
  BY <1>1, <1>2, EntriesOfTable
<1> QED
  BY <1>1, <1>2, <1>3 DEF Good

(* new is tab with another chain at p.                                     *)
OneChain(new, tab, n, p, c) ==
  /\ new \in Table(n)
  /\ new[p] = c
  /\ \A i \in 0 .. n - 1 : i # p => new[i] = tab[i]

(* new is tab with the entry e put in front of the chain where it belongs. *)
AddStep(new, tab, n, e) ==
  /\ n \in Nat \ {0} /\ Good(tab, n)
  /\ e \in Entry /\ e.h = Hash[e.k]
  /\ \A f \in EntriesOf(tab) : f.k # e.k
  /\ OneChain(new, tab, n, indexFor(n, e.h), <<e>> \o tab[indexFor(n, e.h)])

Added(new, tab, n, e) == Good(new, n) /\ EntriesOf(new) = EntriesOf(tab) \cup {e}

LEMMA GoodAdd == \A new, tab, n, e : AddStep(new, tab, n, e) => Added(new, tab, n, e)
<1> SUFFICES ASSUME NEW new, NEW tab, NEW n, NEW e, AddStep(new, tab, n, e)
             PROVE  Added(new, tab, n, e)
  OBVIOUS
<1>0. n \in Nat \ {0} /\ Good(tab, n) /\ e \in Entry /\ e.h = Hash[e.k]
      /\ \A f \in EntriesOf(tab) : f.k # e.k
  BY DEF AddStep
<1> DEFINE p == indexFor(n, e.h)
<1> DEFINE c == <<e>> \o tab[p]
<1>1. p \in 0 .. n - 1 /\ p = e.h % n /\ tab \in Table(n)
  BY <1>0, ModRange DEF Entry, Good, indexFor
<1>2. tab[p] \in Seq(Entry) /\ DistinctChain(tab[p])
  BY <1>0, <1>1 DEF Good, Table
<1>3. \A f \in Elems(tab[p]) : f.k # e.k
  BY <1>0, <1>1, EntriesOfTable
<1>4. c \in Seq(Entry) /\ DistinctChain(c) /\ Elems(c) = Elems(tab[p]) \cup {e}
  BY <1>0, <1>2, <1>3, ConsElems
<1>5. new \in Table(n) /\ new[p] = c /\ \A i \in 0 .. n - 1 : i # p => new[i] = tab[i]
  BY DEF OneChain, AddStep
<1> HIDE DEF c, p
<1>6. Good(new, n)
  <2>1. \A i \in 0 .. n - 1 : DistinctChain(new[i])
    BY <1>0, <1>4, <1>5 DEF Good
  <2>2. ASSUME NEW i \in 0 .. n - 1, NEW f \in Elems(new[i])
        PROVE  f.h = Hash[f.k] /\ f.h % n = i
    <3>1. CASE i = p
      BY <1>0, <1>1, <1>4, <1>5, <2>2, <3>1 DEF Good
    <3>2. CASE i # p
      BY <1>0, <1>5, <2>2, <3>2 DEF Good
    <3> QED BY <3>1, <3>2
  <2> QED
    BY <1>5, <2>1, <2>2 DEF Good
<1>7. EntriesOf(new) = EntriesOf(tab) \cup {e}
  <2>1. \A f : f \in EntriesOf(new) <=> \E i \in 0 .. n - 1 : f \in Elems(new[i])
    BY <1>0, <1>5, EntriesOfTable
  <2>2. \A f : f \in EntriesOf(tab) <=> \E i \in 0 .. n - 1 : f \in Elems(tab[i])
    BY <1>0, <1>1, EntriesOfTable
  <2> QED
    BY <1>1, <1>4, <1>5, <2>1, <2>2
<1> QED
  BY <1>6, <1>7 DEF Added

(* new is tab with chain p replaced by c, which lacks the entry e.          *)
DropStep(new, tab, n, p, c, e) ==
  /\ n \in Nat \ {0} /\ Good(tab, n) /\ p \in 0 .. n - 1
  /\ c \in Seq(Entry) /\ DistinctChain(c)
  /\ e \in Elems(tab[p]) /\ Elems(c) = Elems(tab[p]) \ {e}
  /\ OneChain(new, tab, n, p, c)

Dropped(new, tab, n, e) == Good(new, n) /\ EntriesOf(new) = EntriesOf(tab) \ {e}

(* An entry taken out of its chain.                                        *)
LEMMA GoodDrop ==
  \A new, tab, n, p, c, e : DropStep(new, tab, n, p, c, e) => Dropped(new, tab, n, e)
<1> SUFFICES ASSUME NEW new, NEW tab, NEW n, NEW p, NEW c, NEW e, DropStep(new, tab, n, p, c, e)
             PROVE  Dropped(new, tab, n, e)
  OBVIOUS
<1>0. n \in Nat \ {0} /\ Good(tab, n) /\ p \in 0 .. n - 1
  BY DEF DropStep
<1>1. /\ tab \in Table(n) /\ c \in Seq(Entry) /\ DistinctChain(c)
      /\ e \in Elems(tab[p]) /\ Elems(c) = Elems(tab[p]) \ {e}
  BY DEF Good, DropStep
<1>2. new \in Table(n) /\ new[p] = c /\ \A i \in 0 .. n - 1 : i # p => new[i] = tab[i]
  BY DEF OneChain, DropStep
<1>3. Good(new, n)
  BY <1>0, <1>1, <1>2 DEF Good
<1>4. \A i \in 0 .. n - 1 : i # p => e \notin Elems(tab[i])
  BY <1>0, <1>1 DEF Good
<1>5. EntriesOf(new) = EntriesOf(tab) \ {e}
  <2>1. \A f : f \in EntriesOf(new) <=> \E i \in 0 .. n - 1 : f \in Elems(new[i])
    BY <1>0, <1>2, EntriesOfTable
  <2>2. \A f : f \in EntriesOf(tab) <=> \E i \in 0 .. n - 1 : f \in Elems(tab[i])
    BY <1>0, <1>1, EntriesOfTable
  <2> QED
    BY <1>0, <1>1, <1>2, <1>4, <2>1, <2>2
<1> QED
  BY <1>3, <1>5 DEF Dropped

-----------------------------------------------------------------------------
(* The map that a set of entries stands for.                               *)

LEMMA ValueIs ==
  ASSUME NEW S, Unique(S), NEW e \in S
  PROVE  ValueIn(S, e.k) = e.v
<1>1. PICK f \in S : f = CHOOSE g \in S : g.k = e.k
  OBVIOUS
<1>2. f.k = e.k
  BY <1>1
<1>3. f = e
  BY <1>2 DEF Unique
<1> QED
  BY <1>1, <1>3 DEF ValueIn

LEMMA ValueNone ==
  ASSUME NEW S, NEW k, \A e \in S : e.k # k
  PROVE  ValueIn(S, k) = NULL
  BY DEF ValueIn

LEMMA ValueSame ==
  ASSUME NEW S, NEW T, NEW k, Unique(S), Unique(T),
         \A e : e.k = k => (e \in S <=> e \in T)
  PROVE  ValueIn(S, k) = ValueIn(T, k)
<1>1. CASE \E e \in S : e.k = k
  <2>1. PICK e \in S : e.k = k
    BY <1>1
  <2>2. e \in T
    BY <2>1
  <2> QED
    BY <2>1, <2>2, ValueIs
<1>2. CASE \A e \in S : e.k # k
  BY <1>2, ValueNone
<1> QED
  BY <1>1, <1>2

LEMMA ValueAdd ==
  ASSUME NEW S, Unique(S), NEW e, \A f \in S : f.k # e.k
  PROVE  /\ Unique(S \cup {e})
         /\ ValueIn(S \cup {e}, e.k) = e.v
         /\ \A k : k # e.k => ValueIn(S \cup {e}, k) = ValueIn(S, k)
<1>1. Unique(S \cup {e})
  BY DEF Unique
<1>2. ValueIn(S \cup {e}, e.k) = e.v
  BY <1>1, ValueIs
<1>3. ASSUME NEW k, k # e.k
      PROVE  ValueIn(S \cup {e}, k) = ValueIn(S, k)
  BY <1>1, <1>3, ValueSame
<1> QED
  BY <1>1, <1>2, <1>3

LEMMA ValueDrop ==
  ASSUME NEW S, Unique(S), NEW e \in S
  PROVE  /\ Unique(S \ {e})
         /\ ValueIn(S \ {e}, e.k) = NULL
         /\ \A k : k # e.k => ValueIn(S \ {e}, k) = ValueIn(S, k)
<1>1. Unique(S \ {e})
  BY DEF Unique
<1>2. ValueIn(S \ {e}, e.k) = NULL
  BY ValueNone DEF Unique
<1>3. ASSUME NEW k, k # e.k
      PROVE  ValueIn(S \ {e}, k) = ValueIn(S, k)
  BY <1>1, <1>3, ValueSame
<1> QED
  BY <1>1, <1>2, <1>3

LEMMA ValueReset ==
  ASSUME NEW S, S \subseteq Entry, Unique(S), NEW k
  PROVE  LET T == {ResetEntry(e) : e \in S} IN
         /\ Unique(T)
         /\ ValueIn(T, k) = IF ValueIn(S, k) = NULL THEN NULL ELSE ResetValue[ValueIn(S, k)]
<1> DEFINE T == {ResetEntry(e) : e \in S}
<1>1. \A e \in S : ResetEntry(e).k = e.k /\ ResetEntry(e).v = ResetValue[e.v] /\ e.v # NULL
  BY ValuesAssumption DEF ResetEntry, Entry
<1>2. Unique(T)
  BY <1>1 DEF Unique
<1>3. CASE \E e \in S : e.k = k
  <2>1. PICK e \in S : e.k = k
    BY <1>3
  <2>2. ValueIn(S, k) = e.v
    BY <2>1, ValueIs
  <2>3. ResetEntry(e) \in T /\ ResetEntry(e).k = k
    BY <1>1, <2>1
  <2>4. ValueIn(T, k) = ResetEntry(e).v
    BY <1>2, <2>3, ValueIs
  <2> QED
    BY <1>1, <1>2, <2>2, <2>4
<1>4. CASE \A e \in S : e.k # k
  <2>1. \A f \in T : f.k # k
    BY <1>1, <1>4
  <2> QED
    BY <1>2, <1>4, <2>1, ValueNone
<1> QED
  BY <1>3, <1>4

-----------------------------------------------------------------------------
(* The invariant, one lemma per operation, each with what the operation    *)
(* does to the set of entries.                                             *)

LEMMA IdleEntries ==
  ASSUME HashInv, pc # "move"
  PROVE  newtable = <<>> /\ Entries = EntriesOf(table)
  BY EntriesOfNothing DEF HashInv, TypeOK, Entries

LEMMA EntriesAreEntries == HashInv => Entries \subseteq Entry
<1> SUFFICES ASSUME HashInv PROVE Entries \subseteq Entry
  OBVIOUS
<1>1. EntriesOf(table) \subseteq Entry
  BY EntriesType DEF HashInv, TypeOK
<1>2. CASE pc = "move"
  <2>1. PrimeAt(primeindex) \in Nat /\ newtable \in Table(PrimeAt(primeindex))
    BY <1>2, PrimeType DEF HashInv, TypeOK
  <2> QED
    BY <1>1, <2>1, EntriesType DEF Entries
<1>3. CASE pc # "move"
  BY <1>1, <1>3, IdleEntries
<1> QED
  BY <1>2, <1>3

LEMMA InitInv == Init => HashInv /\ Entries = {}
<1> SUFFICES ASSUME Init PROVE HashInv /\ Entries = {}
  OBVIOUS
<1>1. 0 \in 0 .. Len(Primes) - 1
  BY PrimesAssumption
<1>2. PrimeAt(0) \in Nat \ {0} /\ LoadLimit(PrimeAt(0)) \in Nat
  BY <1>1, PrimeType DEF LoadLimit
<1>3. Good(table, tablelength) /\ EntriesOf(table) = {}
  BY <1>2, EmptyGood DEF Init
<1>4. Entries = {} /\ PresentKeys = {}
  BY <1>3, EntriesOfNothing DEF Init, Entries, PresentKeys
<1>5. TypeOK
  BY <1>1, <1>2, <1>3 DEF Init, TypeOK, Good
<1>6. Tables
  BY <1>3, <1>4, EntriesOfNothing DEF Init, Tables, Unique
<1>7. Counted
  BY <1>4, FS_EmptySet DEF Init, Counted, CountRight
<1> QED
  BY <1>4, <1>5, <1>6, <1>7 DEF HashInv

(* A search finds the entry of its key if there is one.                    *)
LEMMA Lookup ==
  ASSUME HashInv, pc = "idle", NEW k \in Keys
  PROVE  /\ indexFor(tablelength, Hash[k]) \in 0 .. tablelength - 1
         /\ Chain(k) \in Seq(Entry) /\ DistinctChain(Chain(k))
         /\ Absent(k) => \A e \in Entries : e.k # k
         /\ \A j \in 1 .. Len(Chain(k)) : IsFound(k, Chain(k), j) =>
              /\ Chain(k)[j] \in Elems(Chain(k)) /\ Chain(k)[j] \in Entries
              /\ Chain(k)[j].k = k
<1> DEFINE p == indexFor(tablelength, Hash[k])
<1>1. tablelength \in Nat \ {0} /\ table \in Table(tablelength) /\ Good(table, tablelength)
  BY DEF HashInv, TypeOK, Tables
<1>2. p \in 0 .. tablelength - 1
  BY <1>1, ModRange, HashAssumption DEF indexFor
<1>3. Chain(k) = table[p] /\ Chain(k) \in Seq(Entry) /\ DistinctChain(Chain(k))
  BY <1>1, <1>2 DEF Chain, Good, Table
<1>4. Entries = EntriesOf(table)
  BY IdleEntries
<1>5. \A e : e \in Entries <=> \E i \in 0 .. tablelength - 1 : e \in Elems(table[i])
  BY <1>1, <1>4, EntriesOfTable
<1>6. ASSUME Absent(k), NEW e \in Entries, e.k = k
      PROVE  FALSE
  <2>1. PICK i \in 0 .. tablelength - 1 : e \in Elems(table[i])
    BY <1>5
  <2>2. e.h = Hash[k] /\ i = p
    BY <1>1, <1>6, <2>1 DEF Good, indexFor
  <2>3. PICK j \in 1 .. Len(Chain(k)) : e = Chain(k)[j]
    BY <1>3, <2>1, <2>2 DEF Elems
  <2> QED
    BY <1>6, <2>2, <2>3 DEF Absent, Matches
<1>7. ASSUME NEW j \in 1 .. Len(Chain(k)), IsFound(k, Chain(k), j)
      PROVE  /\ Chain(k)[j] \in Elems(Chain(k)) /\ Chain(k)[j] \in Entries
             /\ Chain(k)[j].k = k
  <2>1. Chain(k)[j] \in Elems(Chain(k))
    BY DEF Elems
  <2> QED
    BY <1>2, <1>3, <1>5, <1>7, <2>1 DEF IsFound, Matches
<1> QED
  BY <1>2, <1>3, <1>6, <1>7

LEMMA SearchInv ==
  ASSUME HashInv, NEW k \in Keys, hashtable_search(k)
  PROVE  HashInv' /\ Entries' = Entries /\ reply' = <<"search", k, ValueIn(Entries, k)>>
<1>1. Entries' = Entries
  BY DEF hashtable_search, Entries
<1>2. reply' = <<"search", k, ValueIn(Entries, k)>>
  <2>1. Unique(Entries)
    BY DEF HashInv, Tables
  <2>2. CASE Absent(k) /\ reply' = <<"search", k, NULL>>
    BY <2>2, Lookup, ValueNone DEF hashtable_search
  <2>3. CASE \E j \in 1 .. Len(Chain(k)) :
               IsFound(k, Chain(k), j) /\ reply' = <<"search", k, Chain(k)[j].v>>
    BY <2>1, <2>3, Lookup, ValueIs DEF hashtable_search
  <2> QED
    BY <2>2, <2>3 DEF hashtable_search
<1>3. ValueIn(Entries, k) \in Values \cup {NULL}
  BY EntriesAreEntries DEF ValueIn, Entry
<1>4. TypeOK'
  BY <1>2, <1>3 DEF hashtable_search, HashInv, TypeOK, sizes
<1>5. Tables'
  BY <1>1 DEF hashtable_search, HashInv, Tables, sizes
<1>6. Counted'
  BY <1>1 DEF hashtable_search, HashInv, Counted, CountRight, PresentKeys
<1> QED
  BY <1>1, <1>2, <1>4, <1>5, <1>6 DEF HashInv

(* A key that leaves or joins the table.                                   *)
LEMMA KeysDrop ==
  ASSUME NEW S, Unique(S), NEW e \in S, IsFiniteSet({f.k : f \in S})
  PROVE  /\ IsFiniteSet({f.k : f \in S \ {e}})
         /\ Cardinality({f.k : f \in S \ {e}}) = Cardinality({f.k : f \in S}) - 1
<1>1. {f.k : f \in S \ {e}} = {f.k : f \in S} \ {e.k}
  BY DEF Unique
<1>2. e.k \in {f.k : f \in S}
  OBVIOUS
<1> QED
  BY <1>1, <1>2, FS_RemoveElement

LEMMA KeysAdd ==
  ASSUME NEW S, NEW e, \A f \in S : f.k # e.k, IsFiniteSet({f.k : f \in S})
  PROVE  /\ IsFiniteSet({f.k : f \in S \cup {e}})
         /\ Cardinality({f.k : f \in S \cup {e}}) = Cardinality({f.k : f \in S}) + 1
<1>1. {f.k : f \in S \cup {e}} = {f.k : f \in S} \cup {e.k}
  OBVIOUS
<1>2. e.k \notin {f.k : f \in S}
  OBVIOUS
<1> QED
  BY <1>1, <1>2, FS_AddElement

LEMMA RemoveInv ==
  ASSUME HashInv, NEW k \in Keys, hashtable_remove(k)
  PROVE  /\ HashInv'
         /\ reply' = <<"remove", k, ValueIn(Entries, k)>>
         /\ \/ (\A e \in Entries : e.k # k) /\ Entries' = Entries
            \/ \E e \in Entries : e.k = k /\ Entries' = Entries \ {e}
<1>0. pc = "idle" /\ pc' = "idle" /\ newtable = <<>> /\ newtable' = <<>>
      /\ Entries = EntriesOf(table) /\ Entries' = EntriesOf(table')
  BY IdleEntries, EntriesOfNothing DEF hashtable_remove, Entries
<1>a. /\ tablelength \in Nat \ {0} /\ Good(table, tablelength) /\ Unique(Entries)
      /\ IsFiniteSet(PresentKeys) /\ CountRight
  BY DEF HashInv, TypeOK, Tables, Counted
<1>b. ValueIn(Entries, k) \in Values \cup {NULL}
  BY EntriesAreEntries DEF ValueIn, Entry
<1>1. CASE Absent(k) /\ reply' = <<"remove", k, NULL>> /\ UNCHANGED <<table, entrycount>>
  <2>1. \A e \in Entries : e.k # k
    BY <1>0, <1>1, Lookup
  <2>2. Entries' = Entries /\ reply' = <<"remove", k, ValueIn(Entries, k)>>
    BY <1>0, <1>1, <2>1, ValueNone
  <2>3. TypeOK'
    BY <1>1, <1>b, <2>2 DEF hashtable_remove, HashInv, TypeOK, sizes
  <2>4. Tables' /\ Counted'
    BY <1>1, <2>2 DEF hashtable_remove, HashInv, Tables, Counted, CountRight, PresentKeys, sizes
  <2> QED
    BY <2>1, <2>2, <2>3, <2>4 DEF HashInv
<1>2. ASSUME NEW j \in 1 .. Len(Chain(k)),
             IsFound(k, Chain(k), j),
             table' = [table EXCEPT ![indexFor(tablelength, Hash[k])] = Without(@, j)],
             entrycount' = entrycount - 1,
             reply' = <<"remove", k, Chain(k)[j].v>>
      PROVE  /\ HashInv' /\ reply' = <<"remove", k, ValueIn(Entries, k)>>
             /\ \E e \in Entries : e.k = k /\ Entries' = Entries \ {e}
  <2> DEFINE p == indexFor(tablelength, Hash[k])
             c == Without(Chain(k), j)
             e == Chain(k)[j]
  <2>1. /\ p \in 0 .. tablelength - 1 /\ Chain(k) = table[p]
        /\ Chain(k) \in Seq(Entry) /\ DistinctChain(Chain(k))
        /\ e \in Elems(Chain(k)) /\ e \in Entries /\ e.k = k
    BY <1>0, <1>2, Lookup DEF Chain
  <2>2. c \in Seq(Entry) /\ DistinctChain(c) /\ Elems(c) = Elems(table[p]) \ {e}
    BY <2>1, WithoutElems
  <2> HIDE DEF c, e
  <2>3. table' = [table EXCEPT ![p] = c]
    BY <1>2, <2>1 DEF c
  <2> HIDE DEF p
  <2>4. Good(table', tablelength) /\ EntriesOf(table') = EntriesOf(table) \ {e}
    <3>1. OneChain(table', table, tablelength, p, c)
      BY <1>a, <2>1, <2>2, <2>3 DEF OneChain, Good, Table
    <3>2. DropStep(table', table, tablelength, p, c, e)
      BY <1>a, <2>1, <2>2, <3>1 DEF DropStep
    <3>3. Dropped(table', table, tablelength, e)
      BY <3>2, GoodDrop
    <3> QED
      BY <3>3 DEF Dropped
  <2>5. Entries' = Entries \ {e} /\ Unique(Entries')
    <3>1. Entries' = Entries \ {e}
      BY <1>0, <2>4
    <3>2. Unique(Entries \ {e})
      BY <1>a, <2>1, ValueDrop
    <3> QED
      BY <3>1, <3>2
  <2>6. reply' = <<"remove", k, ValueIn(Entries, k)>>
    BY <1>2, <1>a, <2>1, ValueIs DEF e
  <2>7. UNCHANGED <<tablelength, primeindex, loadlimit, arg>>
    BY DEF hashtable_remove, sizes
  <2>8. TypeOK'
    <3>1. table' \in Table(tablelength')
      BY <2>4, <2>7 DEF Good
    <3>2. reply' \in {"remove"} \X Keys \X (Values \cup {NULL})
      BY <1>b, <2>6
    <3> QED
      BY <1>0, <1>2, <2>7, <3>1, <3>2 DEF HashInv, TypeOK
  <2>9. Tables'
    BY <1>0, <2>4, <2>5, <2>7, EntriesOfNothing DEF Tables
  <2>10. Counted'
    <3>1. IsFiniteSet(PresentKeys') /\ Cardinality(PresentKeys') = Cardinality(PresentKeys) - 1
      BY <1>a, <2>1, <2>5, KeysDrop DEF PresentKeys
    <3>2. Cardinality(PresentKeys) \in Nat
      BY <1>a, FS_CardinalityType
    <3> QED
      BY <1>0, <1>2, <1>a, <3>1, <3>2 DEF Counted, CountRight
  <2> QED
    BY <2>1, <2>5, <2>6, <2>8, <2>9, <2>10 DEF HashInv
<1> QED
  BY <1>1, <1>2 DEF hashtable_remove

LEMMA EnumerateInv ==
  ASSUME HashInv, hashtable_enumerate
  PROVE  HashInv' /\ Entries' = {ResetEntry(e) : e \in Entries}
<1> DEFINE n == tablelength
<1>1. /\ pc = "idle" /\ newtable = <<>> /\ Entries = EntriesOf(table)
      /\ UNCHANGED <<sizes, entrycount, newtable, pc, arg, reply>>
  BY IdleEntries DEF hashtable_enumerate
<1>2. n \in Nat \ {0} /\ Good(table, n) /\ Unique(Entries) /\ Entries \subseteq Entry
  BY EntriesAreEntries DEF HashInv, TypeOK, Tables
<1>3. \A i \in 0 .. n - 1 : table[i] \in Seq(Entry) /\ DistinctChain(table[i])
  BY <1>2 DEF Good, Table
<1>4. table' = [i \in 0 .. n - 1 |-> [j \in 1 .. Len(table[i]) |-> ResetEntry(table[i][j])]]
  BY DEF hashtable_enumerate, ResetEntry
<1>5. \A i \in 0 .. n - 1 :
        /\ table'[i] \in Seq(Entry) /\ DistinctChain(table'[i])
        /\ Elems(table'[i]) = {ResetEntry(e) : e \in Elems(table[i])}
  BY <1>3, <1>4, ResetElems
<1>6. table' \in Table(n)
  BY <1>4, <1>5 DEF Table
<1>7. \A e \in Entry : ResetEntry(e).k = e.k /\ ResetEntry(e).h = e.h
  BY DEF ResetEntry, Entry
<1>8. \A i \in 0 .. n - 1 : Elems(table[i]) \subseteq Entry
  BY <1>3, ElemsType
<1>9. Good(table', n)
  <2>1. ASSUME NEW i \in 0 .. n - 1, NEW f \in Elems(table'[i])
        PROVE  f.h = Hash[f.k] /\ f.h % n = i
    <3>1. PICK e \in Elems(table[i]) : f = ResetEntry(e)
      BY <1>5
    <3> QED
      BY <1>2, <1>7, <1>8, <3>1 DEF Good
  <2> QED
    BY <1>5, <1>6, <2>1 DEF Good
<1>10. EntriesOf(table') = {ResetEntry(e) : e \in EntriesOf(table)}
  <2>1. \A f : f \in EntriesOf(table') <=> \E i \in 0 .. n - 1 : f \in Elems(table'[i])
    BY <1>2, <1>6, EntriesOfTable
  <2>2. \A f : f \in EntriesOf(table) <=> \E i \in 0 .. n - 1 : f \in Elems(table[i])
    BY <1>2, EntriesOfTable DEF Good
  <2>3. ASSUME NEW e \in EntriesOf(table)
        PROVE  ResetEntry(e) \in EntriesOf(table')
    <3>1. PICK i \in 0 .. n - 1 : e \in Elems(table[i])
      BY <2>2
    <3>2. ResetEntry(e) \in Elems(table'[i])
      BY <1>5, <3>1
    <3> QED
      BY <2>1, <3>2
  <2>4. ASSUME NEW f \in EntriesOf(table')
        PROVE  \E e \in EntriesOf(table) : f = ResetEntry(e)
    <3>1. PICK i \in 0 .. n - 1 : f \in Elems(table'[i])
      BY <2>1
    <3>2. PICK e \in Elems(table[i]) : f = ResetEntry(e)
      BY <1>5, <3>1
    <3> QED
      BY <2>2, <3>2
  <2> QED
    BY <2>3, <2>4
<1>11. Entries' = {ResetEntry(e) : e \in Entries}
  BY <1>1, <1>10, EntriesOfNothing DEF Entries
<1>12. Unique(Entries')
  BY <1>2, <1>11, ValueReset
<1>13. PresentKeys' = PresentKeys
  BY <1>2, <1>7, <1>11 DEF PresentKeys
<1>14. TypeOK'
  BY <1>1, <1>6 DEF HashInv, TypeOK, sizes
<1>15. Tables'
  BY <1>1, <1>9, <1>12, EntriesOfNothing DEF Tables, sizes
<1>16. Counted'
  BY <1>1, <1>13 DEF HashInv, Counted, CountRight
<1> QED
  BY <1>11, <1>14, <1>15, <1>16 DEF HashInv

LEMMA InsertInv ==
  ASSUME HashInv, NEW k \in Keys, NEW v \in Values, hashtable_insert(k, v)
  PROVE  HashInv' /\ Entries' = Entries /\ reply' = reply
<1>1. /\ pc = "idle" /\ pc' \in {"expand", "entry"} /\ arg' = [k |-> k, v |-> v]
      /\ entrycount' = entrycount + 1
      /\ UNCHANGED <<table, tablelength, primeindex, loadlimit, newtable, reply>>
  BY DEF hashtable_insert, sizes
<1>2. Entries' = Entries /\ PresentKeys' = PresentKeys
  BY <1>1 DEF Entries, PresentKeys
<1>3. \A e \in Entries : e.k # k
  BY <1>1, Lookup DEF hashtable_insert
<1>4. TypeOK'
  <2>1. arg' \in [k: Keys, v: Values] /\ entrycount' \in Int
    BY <1>1 DEF HashInv, TypeOK
  <2>2. pc' \notin {"idle", "move"} /\ newtable' = <<>>
    BY <1>1, IdleEntries
  <2> QED
    BY <1>1, <2>1, <2>2 DEF HashInv, TypeOK
<1>5. Tables'
  BY <1>1, <1>2, <1>3 DEF HashInv, Tables
<1>6. Counted'
  <2>1. IsFiniteSet(PresentKeys) /\ entrycount = Cardinality(PresentKeys)
    BY <1>1, FS_CardinalityType DEF HashInv, Counted, CountRight
  <2>2. pc' # "idle"
    BY <1>1
  <2> QED
    BY <1>1, <1>2, <2>1, <2>2, FS_CardinalityType DEF Counted, CountRight
<1> QED
  BY <1>1, <1>2, <1>4, <1>5, <1>6 DEF HashInv

(* hashtable_expand gives up, with or without moving primeindex.           *)
LEMMA GiveUpInv ==
  ASSUME HashInv, MaxCapacity \/ ExpandFails
  PROVE  HashInv' /\ Entries' = Entries /\ reply' = reply
<1>1. /\ pc = "expand" /\ pc' = "entry"
      /\ UNCHANGED <<table, tablelength, loadlimit, entrycount, newtable, arg, reply>>
  BY DEF MaxCapacity, ExpandFails, sizes
<1>2. primeindex' \in 0 .. Len(Primes) - 1
  BY PrimesAssumption DEF MaxCapacity, ExpandFails, sizes, HashInv, TypeOK
<1>3. Entries' = Entries /\ PresentKeys' = PresentKeys
  BY <1>1 DEF Entries, PresentKeys
<1>4. TypeOK'
  BY <1>1, <1>2 DEF HashInv, TypeOK
<1>5. Tables'
  BY <1>1, <1>3 DEF HashInv, Tables
<1>6. Counted'
  BY <1>1, <1>3 DEF HashInv, Counted, CountRight
<1> QED
  BY <1>1, <1>3, <1>4, <1>5, <1>6 DEF HashInv

LEMMA ExpandInv ==
  ASSUME HashInv, hashtable_expand
  PROVE  HashInv' /\ Entries' = Entries /\ reply' = reply
<1>1. /\ pc = "expand" /\ pc' = "move" /\ newtable = <<>>
      /\ newtable' = Empty(PrimeAt(primeindex'))
      /\ UNCHANGED <<table, tablelength, loadlimit, entrycount, arg, reply>>
  BY IdleEntries DEF hashtable_expand
<1>2. primeindex' \in 0 .. Len(Primes) - 1 /\ PrimeAt(primeindex') \in Nat
  <2>1. primeindex' \in 0 .. Len(Primes) - 1
    BY PrimesAssumption DEF hashtable_expand, HashInv, TypeOK
  <2> QED
    BY <2>1, PrimeType
<1>3. Good(newtable', PrimeAt(primeindex')) /\ EntriesOf(newtable') = {}
  BY <1>1, <1>2, EmptyGood
<1>4. Entries' = Entries /\ PresentKeys' = PresentKeys
  <2>1. Entries' = Entries
    BY <1>1, <1>3, EntriesOfNothing DEF Entries
  <2> QED
    BY <2>1 DEF PresentKeys
<1>5. TypeOK'
  BY <1>1, <1>2, <1>3 DEF HashInv, TypeOK, Good
<1>6. Tables'
  BY <1>1, <1>3, <1>4 DEF HashInv, Tables
<1>7. Counted'
  BY <1>1, <1>4 DEF HashInv, Counted, CountRight
<1> QED
  BY <1>1, <1>4, <1>5, <1>6, <1>7 DEF HashInv

(* A moved entry leaves one table for the other: no entry is lost.         *)
LEMMA MoveInv ==
  ASSUME HashInv, MoveEntry
  PROVE  HashInv' /\ Entries' = Entries /\ reply' = reply
<1> DEFINE n == tablelength
           m == PrimeAt(primeindex)
<1>1. /\ pc = "move" /\ pc' = "move"
      /\ UNCHANGED <<tablelength, primeindex, loadlimit, entrycount, arg, reply>>
  BY DEF MoveEntry, sizes
<1>2. /\ n \in Nat \ {0} /\ m \in Nat \ {0}
      /\ Good(table, n) /\ Good(newtable, m)
      /\ EntriesOf(table) \cap EntriesOf(newtable) = {} /\ Unique(Entries)
      /\ \A e \in Entries : e.k # arg.k
  BY <1>1, PrimeType DEF HashInv, TypeOK, Tables
<1>3. PICK i \in 0 .. n - 1 :
        /\ table[i] # <<>>
        /\ table' = [table EXCEPT ![i] = Tail(@)]
        /\ newtable' = [newtable EXCEPT ![NewIndex(Head(table[i]))] = <<Head(table[i])>> \o @]
  BY DEF MoveEntry, NextToMove
<1> DEFINE e == Head(table[i])
           c == Tail(table[i])
           q == indexFor(m, e.h)
<1>4. /\ e \in Elems(table[i]) /\ c \in Seq(Entry) /\ DistinctChain(c)
      /\ Elems(c) = Elems(table[i]) \ {e} /\ table[i] \in Seq(Entry)
  <2>1. table[i] \in Seq(Entry) /\ DistinctChain(table[i])
    BY <1>2 DEF Good, Table
  <2> QED
    BY <1>3, <2>1, TailElems
<1>5. /\ e \in Entry /\ e.h = Hash[e.k] /\ e \in EntriesOf(table)
      /\ q \in 0 .. m - 1
  <2>1. e \in Entry
    BY <1>4, ElemsType
  <2>2. e.h \in Nat
    BY <2>1 DEF Entry
  <2>3. e.h = Hash[e.k]
    BY <1>2, <1>4 DEF Good
  <2>4. e \in EntriesOf(table)
    BY <1>2, <1>4, EntriesOfTable DEF Good
  <2>5. q \in 0 .. m - 1
    BY <1>2, <2>2, ModRange DEF indexFor
  <2> QED
    BY <2>1, <2>3, <2>4, <2>5
<1>6. table' = [table EXCEPT ![i] = c] /\ newtable' = [newtable EXCEPT ![q] = <<e>> \o newtable[q]]
  BY <1>3 DEF NewIndex
<1> HIDE DEF e, c, q, m, n
<1>7. Dropped(table', table, n, e)
  <2>1. OneChain(table', table, n, i, c)
    BY <1>2, <1>4, <1>6 DEF OneChain, Good, Table
  <2>2. DropStep(table', table, n, i, c, e)
    BY <1>2, <1>4, <2>1 DEF DropStep
  <2> QED
    BY <2>2, GoodDrop
<1>8. Added(newtable', newtable, m, e)
  <2>1. newtable \in Table(m) /\ newtable[q] \in Seq(Entry)
    BY <1>2, <1>5 DEF Good, Table
  <2>2. <<e>> \o newtable[q] \in Seq(Entry)
    BY <1>5, <2>1
  <2>3. OneChain(newtable', newtable, m, q, <<e>> \o newtable[q])
    BY <1>5, <1>6, <2>1, <2>2 DEF OneChain, Table
  <2>4. \A f \in EntriesOf(newtable) : f.k # e.k
    BY <1>2, <1>5 DEF Unique, Entries
  <2>5. AddStep(newtable', newtable, m, e)
    BY <1>2, <1>5, <2>3, <2>4 DEF AddStep, q
  <2> QED
    BY <2>5, GoodAdd
<1>9. /\ Good(table', n) /\ EntriesOf(table') = EntriesOf(table) \ {e}
      /\ Good(newtable', m) /\ EntriesOf(newtable') = EntriesOf(newtable) \cup {e}
  BY <1>7, <1>8 DEF Dropped, Added
<1>10. Entries' = Entries /\ PresentKeys' = PresentKeys
  <2>1. Entries' = Entries
    BY <1>5, <1>9 DEF Entries
  <2> QED
    BY <2>1 DEF PresentKeys
<1>11. PrimeAt(primeindex') = m /\ tablelength' = n
  BY <1>1 DEF m, n
<1>12. table' \in Table(tablelength') /\ newtable' \in Table(PrimeAt(primeindex'))
  BY <1>9, <1>11 DEF Good
<1>13. TypeOK'
  BY <1>1, <1>12 DEF HashInv, TypeOK
<1>14. EntriesOf(table') \cap EntriesOf(newtable') = {}
  BY <1>2, <1>9
<1>15. Tables'
  BY <1>1, <1>2, <1>9, <1>10, <1>11, <1>14 DEF Tables
<1>16. Counted'
  BY <1>1, <1>10 DEF HashInv, Counted, CountRight
<1> QED
  BY <1>1, <1>10, <1>13, <1>15, <1>16 DEF HashInv

LEMMA FinishInv ==
  ASSUME HashInv, FinishExpand
  PROVE  HashInv' /\ Entries' = Entries /\ reply' = reply
<1>1. /\ pc = "move" /\ pc' = "entry" /\ table' = newtable /\ newtable' = <<>>
      /\ tablelength' = PrimeAt(primeindex) /\ loadlimit' = LoadLimit(PrimeAt(primeindex))
      /\ UNCHANGED <<primeindex, entrycount, arg, reply>>
      /\ \A i \in 0 .. tablelength - 1 : table[i] = <<>>
  BY DEF FinishExpand
<1>2. /\ PrimeAt(primeindex) \in Nat \ {0} /\ tablelength \in Nat
      /\ table \in Table(tablelength) /\ Good(newtable, PrimeAt(primeindex))
  BY <1>1, PrimeType DEF HashInv, TypeOK, Tables
<1>3. EntriesOf(table) = {}
  <2>1. \A i \in 0 .. tablelength - 1 : Elems(table[i]) = {}
    BY <1>1 DEF Elems
  <2> QED
    BY <1>2, <2>1, EntriesOfTable
<1>4. Entries' = Entries /\ PresentKeys' = PresentKeys
  <2>1. Entries' = Entries
    BY <1>1, <1>3, EntriesOfNothing DEF Entries
  <2> QED
    BY <2>1 DEF PresentKeys
<1>5. TypeOK'
  <2>1. LoadLimit(PrimeAt(primeindex)) \in Nat
    BY <1>2 DEF LoadLimit
  <2> QED
    BY <1>1, <1>2, <2>1 DEF HashInv, TypeOK, Good
<1>6. Tables'
  BY <1>1, <1>2, <1>4, EntriesOfNothing DEF HashInv, Tables
<1>7. Counted'
  BY <1>1, <1>4 DEF HashInv, Counted, CountRight
<1> QED
  BY <1>1, <1>4, <1>5, <1>6, <1>7 DEF HashInv

LEMMA NoEntryInv ==
  ASSUME HashInv, NoEntry
  PROVE  /\ HashInv' /\ Entries' = Entries
         /\ arg.k \in Keys /\ reply' = <<"insert", arg.k, NULL>>
<1>1. /\ pc = "entry" /\ pc' = "idle" /\ arg' = NULL /\ reply' = <<"insert", arg.k, NULL>>
      /\ entrycount' = entrycount - 1
      /\ UNCHANGED <<table, tablelength, primeindex, loadlimit, newtable>>
  BY DEF NoEntry, sizes
<1>2. arg.k \in Keys
  BY <1>1 DEF HashInv, TypeOK
<1>3. Entries' = Entries /\ PresentKeys' = PresentKeys
  BY <1>1 DEF Entries, PresentKeys
<1>4. TypeOK'
  BY <1>1, <1>2 DEF HashInv, TypeOK
<1>5. Tables'
  BY <1>1, <1>3 DEF HashInv, Tables
<1>6. Counted'
  <2>1. IsFiniteSet(PresentKeys) /\ entrycount = Cardinality(PresentKeys) + 1
    BY <1>1 DEF HashInv, Counted, CountRight
  <2>2. Cardinality(PresentKeys) \in Nat
    BY <2>1, FS_CardinalityType
  <2> QED
    BY <1>1, <1>3, <2>1, <2>2 DEF Counted, CountRight
<1> QED
  BY <1>1, <1>2, <1>3, <1>4, <1>5, <1>6 DEF HashInv

LEMMA AddEntryInv ==
  ASSUME HashInv, AddEntry
  PROVE  /\ HashInv' /\ arg.k \in Keys /\ arg.v \in Values
         /\ reply' = <<"insert", arg.k, arg.v>>
         /\ \A f \in Entries : f.k # arg.k
         /\ \E e \in Entry : e.k = arg.k /\ e.v = arg.v /\ Entries' = Entries \cup {e}
<1> DEFINE e == [k |-> arg.k, v |-> arg.v, h |-> Hash[arg.k]]
           n == tablelength
           q == indexFor(n, e.h)
<1>1. /\ pc = "entry" /\ pc' = "idle" /\ arg' = NULL /\ reply' = <<"insert", arg.k, arg.v>>
      /\ table' = [table EXCEPT ![q] = <<e>> \o table[q]]
      /\ UNCHANGED <<tablelength, primeindex, loadlimit, entrycount, newtable>>
  BY DEF AddEntry, sizes
<1>2. arg.k \in Keys /\ arg.v \in Values
  BY <1>1 DEF HashInv, TypeOK
<1>3. e \in Entry /\ e.h = Hash[e.k] /\ e.k = arg.k /\ e.v = arg.v
  BY <1>2, HashAssumption DEF Entry
<1>4. newtable = <<>> /\ newtable' = <<>> /\ Entries = EntriesOf(table) /\ Entries' = EntriesOf(table')
  BY <1>1, IdleEntries, EntriesOfNothing DEF Entries
<1>5. /\ n \in Nat \ {0} /\ Good(table, n) /\ Unique(Entries)
      /\ \A f \in Entries : f.k # arg.k
  BY <1>1 DEF HashInv, TypeOK, Tables
<1>6. q \in 0 .. n - 1
  <2>1. e.h \in Nat
    BY <1>3 DEF Entry
  <2> QED
    BY <1>5, <2>1, ModRange DEF indexFor
<1> HIDE DEF e, n, q
<1>7. Added(table', table, n, e)
  <2>1. table \in Table(n) /\ table[q] \in Seq(Entry)
    BY <1>5, <1>6 DEF Good, Table
  <2>2. <<e>> \o table[q] \in Seq(Entry)
    BY <1>3, <2>1
  <2>3. OneChain(table', table, n, q, <<e>> \o table[q])
    BY <1>1, <1>6, <2>1, <2>2 DEF OneChain, Table
  <2>4. AddStep(table', table, n, e)
    BY <1>3, <1>4, <1>5, <2>3 DEF AddStep, q
  <2> QED
    BY <2>4, GoodAdd
<1>8. Good(table', n) /\ Entries' = Entries \cup {e} /\ Unique(Entries')
  <2>1. Good(table', n) /\ Entries' = Entries \cup {e}
    BY <1>4, <1>7 DEF Added
  <2>2. Unique(Entries \cup {e})
    BY <1>3, <1>5, ValueAdd
  <2> QED
    BY <2>1, <2>2
<1>9. TypeOK'
  <2>1. table' \in Table(tablelength')
    BY <1>1, <1>8 DEF Good, n
  <2>2. reply' \in {"insert"} \X Keys \X (Values \cup {NULL})
    BY <1>1, <1>2
  <2> QED
    BY <1>1, <1>4, <2>1, <2>2 DEF HashInv, TypeOK
<1>10. Tables'
  BY <1>1, <1>4, <1>8, EntriesOfNothing DEF Tables, n
<1>11. Counted'
  <2>1. IsFiniteSet(PresentKeys) /\ entrycount = Cardinality(PresentKeys) + 1
    BY <1>1 DEF HashInv, Counted, CountRight
  <2>2. \A f \in Entries : f.k # e.k
    BY <1>3, <1>5
  <2>3. IsFiniteSet(PresentKeys') /\ Cardinality(PresentKeys') = Cardinality(PresentKeys) + 1
    BY <1>8, <2>1, <2>2, KeysAdd DEF PresentKeys
  <2>4. Cardinality(PresentKeys) \in Nat
    BY <2>1, FS_CardinalityType
  <2> QED
    BY <1>1, <2>1, <2>3, <2>4 DEF Counted, CountRight
<1> QED
  BY <1>1, <1>2, <1>3, <1>5, <1>8, <1>9, <1>10, <1>11 DEF HashInv

-----------------------------------------------------------------------------
(* The theorems.                                                           *)

LEMMA StutterInv ==
  ASSUME HashInv, UNCHANGED vars
  PROVE  HashInv' /\ Entries' = Entries /\ reply' = reply
<1>1. UNCHANGED <<table, tablelength, primeindex, loadlimit, entrycount, newtable, pc, arg, reply>>
  BY DEF vars, sizes
<1>2. Entries' = Entries /\ PresentKeys' = PresentKeys
  BY <1>1 DEF Entries, PresentKeys
<1>3. TypeOK'
  BY <1>1 DEF HashInv, TypeOK
<1>4. Tables'
  BY <1>1, <1>2 DEF HashInv, Tables
<1>5. Counted'
  BY <1>1, <1>2 DEF HashInv, Counted, CountRight
<1> QED
  BY <1>1, <1>2, <1>3, <1>4, <1>5 DEF HashInv

(* The steps of the map, in terms of the entries before and after.         *)
AbsMap(S) == [k \in Keys |-> ValueIn(S, k)]

LEMMA MapRemove ==
  ASSUME NEW S, Unique(S), NEW e \in S
  PROVE  \A k \in Keys : AbsMap(S \ {e})[k] = IF k = e.k THEN NULL ELSE AbsMap(S)[k]
<1>1. ValueIn(S \ {e}, e.k) = NULL
  BY ValueDrop
<1>2. \A k : k # e.k => ValueIn(S \ {e}, k) = ValueIn(S, k)
  BY ValueDrop
<1> QED
  BY <1>1, <1>2 DEF AbsMap

LEMMA MapAdd ==
  ASSUME NEW S, Unique(S), NEW e, \A f \in S : f.k # e.k
  PROVE  \A k \in Keys : AbsMap(S \cup {e})[k] = IF k = e.k THEN e.v ELSE AbsMap(S)[k]
<1>1. ValueIn(S \cup {e}, e.k) = e.v
  BY ValueAdd
<1>2. \A k : k # e.k => ValueIn(S \cup {e}, k) = ValueIn(S, k)
  BY ValueAdd
<1> QED
  BY <1>1, <1>2 DEF AbsMap

LEMMA MapReset ==
  ASSUME NEW S, S \subseteq Entry, Unique(S)
  PROVE  AbsMap({ResetEntry(e) : e \in S}) =
           [k \in Keys |-> IF AbsMap(S)[k] = NULL THEN NULL ELSE ResetValue[AbsMap(S)[k]]]
  BY ValueReset DEF AbsMap

LEMMA NextInv ==
  ASSUME HashInv, [Next]_vars
  PROVE  HashInv'
<1>1. ASSUME NEW k \in Keys, hashtable_search(k) PROVE HashInv'
  BY <1>1, SearchInv
<1>2. ASSUME NEW k \in Keys, hashtable_remove(k) PROVE HashInv'
  BY <1>2, RemoveInv
<1>3. CASE hashtable_enumerate
  BY <1>3, EnumerateInv
<1>4. ASSUME NEW k \in Keys, NEW v \in Values, hashtable_insert(k, v) PROVE HashInv'
  BY <1>4, InsertInv
<1>5. CASE MaxCapacity \/ ExpandFails
  BY <1>5, GiveUpInv
<1>6. CASE hashtable_expand
  BY <1>6, ExpandInv
<1>7. CASE MoveEntry
  BY <1>7, MoveInv
<1>8. CASE FinishExpand
  BY <1>8, FinishInv
<1>9. CASE NoEntry
  BY <1>9, NoEntryInv
<1>10. CASE AddEntry
  BY <1>10, AddEntryInv
<1>11. CASE UNCHANGED vars
  BY <1>11, StutterInv
<1> QED
  BY <1>1, <1>2, <1>3, <1>4, <1>5, <1>6, <1>7, <1>8, <1>9, <1>10, <1>11 DEF Next

(* Every step of the table is a step of the map or changes nothing of it.  *)
LEMMA MapStep ==
  ASSUME HashInv, [Next]_vars
  PROVE  [Map!Next]_<<AbsMap(Entries), reply>>
<1> DEFINE a == AbsMap(Entries)
<1>0. Unique(Entries) /\ Entries \subseteq Entry
  BY EntriesAreEntries DEF HashInv, Tables
<1>s. ASSUME Entries' = Entries PROVE a' = a
  BY <1>s DEF AbsMap
<1>m. \A k \in Keys : a[k] = ValueIn(Entries, k)
  BY DEF AbsMap
<1>1. ASSUME NEW k \in Keys, hashtable_search(k) PROVE Map!search(k)
  <2>1. a' = a /\ reply' = <<"search", k, a[k]>>
    BY <1>1, <1>s, <1>m, SearchInv
  <2> QED
    BY <2>1 DEF Map!search, AbsMap
<1>2. ASSUME NEW k \in Keys, hashtable_remove(k) PROVE Map!remove(k)
  <2>1. reply' = <<"remove", k, a[k]>>
    BY <1>2, <1>m, RemoveInv
  <2>2. a' = [a EXCEPT ![k] = NULL]
    <3>1. CASE (\A e \in Entries : e.k # k) /\ Entries' = Entries
      <4>1. a[k] = NULL /\ a' = a
        BY <3>1, <1>s, <1>m, ValueNone
      <4> QED
        BY <4>1 DEF AbsMap
    <3>2. CASE \E e \in Entries : e.k = k /\ Entries' = Entries \ {e}
      <4>1. PICK e \in Entries : e.k = k /\ Entries' = Entries \ {e}
        BY <3>2
      <4>2. a' = AbsMap(Entries \ {e})
        BY <4>1 DEF AbsMap
      <4>3. \A l \in Keys : AbsMap(Entries \ {e})[l] = IF l = e.k THEN NULL ELSE a[l]
        BY <1>0, MapRemove
      <4>4. \A l \in Keys : a'[l] = IF l = k THEN NULL ELSE a[l]
        BY <4>1, <4>2, <4>3
      <4> QED
        BY <4>4 DEF AbsMap
    <3> QED
      BY <1>2, <3>1, <3>2, RemoveInv
  <2> QED
    BY <2>1, <2>2 DEF Map!remove, AbsMap
<1>3. CASE hashtable_enumerate
  <2>1. Entries' = {ResetEntry(e) : e \in Entries}
    BY <1>3, EnumerateInv
  <2>2. a' = AbsMap({ResetEntry(e) : e \in Entries})
    BY <2>1 DEF AbsMap
  <2>3. a' = [k \in Keys |-> IF a[k] = NULL THEN NULL ELSE ResetValue[a[k]]]
    BY <1>0, <2>2, MapReset
  <2>4. reply' = reply
    BY <1>3 DEF hashtable_enumerate
  <2> QED
    BY <2>3, <2>4 DEF Map!Next, Map!reset, AbsMap
<1>4. ASSUME NEW k \in Keys, NEW v \in Values, hashtable_insert(k, v)
      PROVE  UNCHANGED <<a, reply>>
  BY <1>4, <1>s, InsertInv
<1>5. CASE MaxCapacity \/ ExpandFails
  BY <1>5, <1>s, GiveUpInv
<1>6. CASE hashtable_expand
  BY <1>6, <1>s, ExpandInv
<1>7. CASE MoveEntry
  BY <1>7, <1>s, MoveInv
<1>8. CASE FinishExpand
  BY <1>8, <1>s, FinishInv
<1>9. CASE NoEntry
  <2>1. a' = a /\ arg.k \in Keys /\ reply' = <<"insert", arg.k, NULL>>
    BY <1>9, <1>s, NoEntryInv
  <2>2. Map!refuse(arg.k)
    BY <2>1 DEF Map!refuse, AbsMap
  <2> QED
    BY <2>1, <2>2 DEF Map!Next
<1>10. CASE AddEntry
  <2>1. PICK e \in Entry : e.k = arg.k /\ e.v = arg.v /\ Entries' = Entries \cup {e}
    BY <1>10, AddEntryInv
  <2>2. /\ arg.k \in Keys /\ arg.v \in Values /\ reply' = <<"insert", arg.k, arg.v>>
        /\ \A f \in Entries : f.k # arg.k
    BY <1>10, AddEntryInv
  <2>3. a' = AbsMap(Entries \cup {e})
    BY <2>1 DEF AbsMap
  <2>4. a' = [a EXCEPT ![arg.k] = arg.v]
    <3>1. \A f \in Entries : f.k # e.k
      BY <2>1, <2>2
    <3>2. \A k \in Keys : AbsMap(Entries \cup {e})[k] = IF k = e.k THEN e.v ELSE a[k]
      BY <1>0, <3>1, MapAdd
    <3>3. \A k \in Keys : a'[k] = IF k = arg.k THEN arg.v ELSE a[k]
      BY <2>1, <2>3, <3>2
    <3> QED
      BY <3>3 DEF AbsMap
  <2>5. a[arg.k] = NULL
    BY <1>m, <2>2, ValueNone
  <2>6. Map!insert(arg.k, arg.v)
    BY <2>2, <2>4, <2>5 DEF Map!insert, AbsMap
  <2> QED
    BY <2>2, <2>6 DEF Map!Next
<1>11. CASE UNCHANGED vars
  BY <1>11, <1>s, StutterInv
<1> QED
  <2>1. \/ Map!Next \/ UNCHANGED <<a, reply>>
    BY <1>1, <1>2, <1>3, <1>4, <1>5, <1>6, <1>7, <1>8, <1>9, <1>10, <1>11 DEF Next, Map!Next
  <2> QED
    BY <2>1

(* The invariant holds in every state.                                     *)
THEOREM Invariant == Spec => []HashInv
<1>1. Init => HashInv
  BY InitInv
<1>2. HashInv /\ [Next]_vars => HashInv'
  BY NextInv
<1> QED
  BY <1>1, <1>2, PTL DEF Spec

(* The table always has the length its fields say, in any state of an      *)
(* expansion.                                                              *)
THEOREM TypeCorrect == Spec => []TypeOK
<1>1. HashInv => TypeOK
  BY DEF HashInv
<1> QED
  BY <1>1, Invariant, PTL

(* hashtable_count is the number of keys in the table, for any hash        *)
(* function, any sizes and any sequence of failed allocations.             *)
THEOREM CountIsRight == Spec => []CountRight
<1>1. HashInv => CountRight
  BY DEF HashInv, Counted
<1> QED
  BY <1>1, Invariant, PTL

(* The hash table implements the map its users expect.                     *)
THEOREM Implements == Spec => ImplementsMap
<1>1. Init => Map!Init
  <2> SUFFICES ASSUME Init PROVE Map!Init
    OBVIOUS
  <2>1. Entries = {} /\ reply = NULL
    BY InitInv DEF Init
  <2>2. \A k \in Keys : ValueIn(Entries, k) = NULL
    BY <2>1, ValueNone
  <2> QED
    BY <2>1, <2>2 DEF Map!Init
<1>2. HashInv /\ [Next]_vars => [Map!Next]_<<[k \in Keys |-> ValueIn(Entries, k)], reply>>
  BY MapStep DEF AbsMap
<1> QED
  BY <1>1, <1>2, Invariant, PTL DEF Spec, ImplementsMap, Map!Spec
=============================================================================
