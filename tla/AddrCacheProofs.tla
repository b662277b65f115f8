--------------------------- MODULE AddrCacheProofs ---------------------------
(***************************************************************************)
(* The hash table for every capacity and every hash function, and the      *)
(* address cache for any number of processes, hosts, starts and kills.     *)
(***************************************************************************)
EXTENDS AddrCache, FiniteSetTheorems, WellFoundedInduction, TLAPS

-------------------------------------------------------------------------------
(* The table.                                                              *)

\* A set of naturals that is not empty has a first element.
LEMMA FirstOfNaturals ==
    ASSUME NEW S, S \subseteq Nat, S # {}
    PROVE  \E x \in S : \A y \in S : x <= y
<1> DEFINE R == {ss \in Nat \X Nat : ss[1] < ss[2]}
<1>1. IsWellFoundedOn(R, Nat)
    BY NatLessThanWellFounded DEF OpToRel
<1>2. PICK x \in S : \A y \in S : ~(<<y, x>> \in R)
    <2> HIDE DEF R
    <2> QED BY <1>1, WFMin
<1>3. \A y \in S : ~(y < x)
    <2> TAKE y \in S
    <2>1. ~(<<y, x>> \in R)
        BY <1>2
    <2>2. <<y, x>> \in Nat \X Nat
        OBVIOUS
    <2> QED
        BY <2>1, <2>2
<1> QED
    BY <1>3

\* The search for a key begins in a slot.
LEMMA HomeIsSlot ==
    ASSUME NEW k \in Keys
    PROVE  Home(k) \in Slots /\ Probe(k) \subseteq Slots /\ Slots \subseteq Nat
<1>1. Capacity \in Nat \ {0} /\ Hash[k] \in Nat
    BY TableAssumption
<1>2. Hash[k] % Capacity \in 0..(Capacity - 1)
    BY <1>1
<1> QED
    BY <1>1, <1>2 DEF Home, Slots, Probe

\* A search that ends at all ends at its first stop.
LEMMA SlotIsFirstStop ==
    ASSUME NEW t, NEW k \in Keys, ~Full(t, k)
    PROVE  /\ Slot(t, k) \in Stops(t, k)
           /\ \A l \in Stops(t, k) : Slot(t, k) <= l
<1>1. Stops(t, k) \subseteq Nat /\ Stops(t, k) # {}
    BY HomeIsSlot DEF Stops, Full
<1>2. \E s \in Stops(t, k) : \A l \in Stops(t, k) : s <= l
    BY <1>1, FirstOfNaturals
<1> QED
    BY <1>2 DEF Slot

\* And there is only one first stop.
LEMMA FirstStopIsSlot ==
    ASSUME NEW t, NEW k \in Keys, NEW s \in Stops(t, k), \A l \in Stops(t, k) : s <= l
    PROVE  ~Full(t, k) /\ Slot(t, k) = s
<1>1. ~Full(t, k)
    BY DEF Full
<1>2. Slot(t, k) \in Stops(t, k) /\ Slot(t, k) <= s /\ s <= Slot(t, k)
    BY <1>1, SlotIsFirstStop
<1>3. Stops(t, k) \subseteq Nat
    BY HomeIsSlot DEF Stops
<1> QED
    BY <1>1, <1>2, <1>3

\* The slot of a key holds the key or is open.
LEMMA SlotHoldsKeyOrNone ==
    ASSUME NEW t, NEW k \in Keys, ~Full(t, k)
    PROVE  Slot(t, k) \in Slots /\ t.slots[Slot(t, k)].key \in {k, NoKey}
BY SlotIsFirstStop, HomeIsSlot DEF Stops

\* Soundness is a matter of the slots alone.
LEMMA SoundSlots ==
    ASSUME NEW t \in Table, NEW t2 \in Table, t2.slots = t.slots, Sound(t)
    PROVE  Sound(t2)
<1> SUFFICES ASSUME NEW s \in Slots, t2.slots[s].key # NoKey
             PROVE  ~Full(t2, t2.slots[s].key) /\ Slot(t2, t2.slots[s].key) = s
    BY DEF Sound
<1> DEFINE k == t.slots[s].key
<1>1. t2.slots[s].key = k /\ k \in Keys
    BY DEF Table, Entry, Open
<1>2. ~Full(t, k) /\ Slot(t, k) = s
    BY <1>1 DEF Sound
<1>3. Stops(t2, k) = Stops(t, k)
    BY DEF Stops
<1> HIDE DEF k
<1>4. s \in Stops(t2, k) /\ \A l \in Stops(t2, k) : s <= l
    BY <1>1, <1>2, <1>3, SlotIsFirstStop
<1> QED
    BY <1>1, <1>4, FirstStopIsSlot

\* An entry that is put into the slot where the search for its key ends leaves every key
\* in one slot, where the search for it ends.
LEMMA FillSound ==
    ASSUME NEW t \in Table, NEW t2 \in Table, NEW k \in Keys, NEW v \in Keys,
           ~Full(t, k), Sound(t),
           t2.slots = [t.slots EXCEPT ![Slot(t, k)] = [key |-> k, val |-> v]]
    PROVE  Sound(t2)
<1> DEFINE c == Slot(t, k)
<1>1. c \in Slots /\ t.slots[c].key \in {k, NoKey}
    BY SlotHoldsKeyOrNone
<1>2. c \in Stops(t, k) /\ \A l \in Stops(t, k) : c <= l
    BY SlotIsFirstStop
<1>3. t.slots \in [Slots -> Entry \cup {Open}]
    BY DEF Table
<1> HIDE DEF c
<1>4. t2.slots[c].key = k /\ \A s \in Slots \ {c} : t2.slots[s] = t.slots[s]
    BY <1>1, <1>3 DEF c
<1>5. NoKey \notin Keys
    BY TableAssumption
<1> SUFFICES ASSUME NEW s \in Slots, t2.slots[s].key # NoKey
             PROVE  ~Full(t2, t2.slots[s].key) /\ Slot(t2, t2.slots[s].key) = s
    BY DEF Sound
<1>6. CASE s = c
    <2>1. Stops(t2, k) = Stops(t, k)
        BY <1>1, <1>4, HomeIsSlot DEF Stops
    <2>2. ~Full(t2, k) /\ Slot(t2, k) = c
        BY <1>2, <2>1, FirstStopIsSlot
    <2> QED
        BY <1>4, <1>6, <2>2
<1>7. CASE s # c
    <2> DEFINE q == t.slots[s].key
    <2>1. t2.slots[s].key = q /\ q \in Keys /\ q # NoKey
        BY <1>3, <1>4, <1>7 DEF Entry, Open
    <2>2. ~Full(t, q) /\ Slot(t, q) = s
        BY <2>1 DEF Sound
    <2>3. q # k
        BY <2>2, <1>7 DEF c
    <2> HIDE DEF q
    <2>4. s \in Stops(t, q) /\ \A l \in Stops(t, q) : s <= l
        BY <2>1, <2>2, SlotIsFirstStop
    <2>5. Stops(t2, q) \subseteq Stops(t, q)
        <3> SUFFICES ASSUME NEW l \in Stops(t2, q)
                     PROVE  l \in Stops(t, q)
            OBVIOUS
        <3>1. l \in Probe(q) /\ l \in Slots /\ t2.slots[l].key \in {q, NoKey}
            BY <2>1, HomeIsSlot DEF Stops
        <3>2. l # c
            BY <3>1, <1>4, <1>5, <2>3
        <3> QED
            BY <3>1, <3>2, <1>4 DEF Stops
    <2>6. s \in Stops(t2, q)
        BY <2>4, <1>4, <1>7 DEF Stops
    <2>7. ~Full(t2, q) /\ Slot(t2, q) = s
        BY <2>1, <2>4, <2>5, <2>6, FirstStopIsSlot
    <2> QED
        BY <2>1, <2>7
<1> QED
    BY <1>6, <1>7

\* Filling a slot of a table, and counting its entries anew, makes a table.
LEMMA FillTable ==
    ASSUME NEW t \in Table, NEW s \in Slots, NEW k \in Keys, NEW v \in Keys, NEW n \in Int
    PROVE  /\ Fill(t, s, k, v) \in Table
           /\ [Fill(t, s, k, v) EXCEPT !.occupied = n] \in Table
           /\ [Fill(t, s, k, v) EXCEPT !.occupied = n].slots = Fill(t, s, k, v).slots
           /\ [Fill(t, s, k, v) EXCEPT !.occupied = n].occupied = n
           /\ Fill(t, s, k, v).slots = [t.slots EXCEPT ![s] = [key |-> k, val |-> v]]
           /\ Fill(t, s, k, v).occupied = t.occupied
BY DEF Fill, Table, Entry

\* hash_table_update keeps a table that has a slot for the key sound, whether the key was
\* there or not; the other slots stay, and there is at most one entry more.
LEMMA UpdateSound ==
    ASSUME NEW t \in Table, NEW k \in Keys, NEW v \in Keys, ~Full(t, k), Sound(t)
    PROVE  /\ Update(t, k, v) \in Table /\ Sound(Update(t, k, v))
           /\ Update(t, k, v).slots = [t.slots EXCEPT ![Slot(t, k)] = [key |-> k, val |-> v]]
           /\ Update(t, k, v).occupied \in {t.occupied, t.occupied + 1}
<1> DEFINE s == Slot(t, k)
           n == IF t.slots[s].key = k THEN t.occupied ELSE t.occupied + 1
<1>1. s \in Slots
    BY SlotHoldsKeyOrNone
<1>2. n \in Int /\ n \in {t.occupied, t.occupied + 1}
    BY DEF Table
<1>3. Update(t, k, v) = [Fill(t, s, k, v) EXCEPT !.occupied = n]
    BY <1>1, FillTable DEF Update, Fill, Table
<1> HIDE DEF n
<1>4. /\ Update(t, k, v) \in Table /\ Update(t, k, v).occupied = n
      /\ Update(t, k, v).slots = [t.slots EXCEPT ![s] = [key |-> k, val |-> v]]
    BY <1>1, <1>2, <1>3, FillTable
<1> HIDE DEF s
<1>5. Sound(Update(t, k, v))
    BY <1>4, FillSound DEF s
<1> QED
    BY <1>2, <1>4, <1>5 DEF s

\* So does hash_table_insert, which leaves a full table and a key that is there alone.
LEMMA InsertSound ==
    ASSUME NEW t \in Table, NEW k \in Keys, NEW v \in Keys, Sound(t)
    PROVE  /\ Insert(t, k, v) \in Table /\ Sound(Insert(t, k, v))
           /\ \A s \in Slots : Insert(t, k, v).slots[s]
                                  \in {t.slots[s], [key |-> k, val |-> v]}
           /\ Insert(t, k, v).occupied \in {t.occupied, t.occupied + 1}
<1>1. CASE Full(t, k) \/ t.slots[Slot(t, k)].key = k
    BY <1>1 DEF Insert
<1>2. CASE ~Full(t, k) /\ t.slots[Slot(t, k)].key # k
    <2> DEFINE s == Slot(t, k)
    <2>1. s \in Slots
        BY <1>2, SlotHoldsKeyOrNone
    <2>2. t.occupied + 1 \in Int /\ t.slots \in [Slots -> Entry \cup {Open}]
        BY DEF Table
    <2>3. Insert(t, k, v) = [Fill(t, s, k, v) EXCEPT !.occupied = t.occupied + 1]
        BY <1>2, <2>1, FillTable DEF Insert, Fill, Table
    <2>4. /\ Insert(t, k, v) \in Table /\ Insert(t, k, v).occupied = t.occupied + 1
          /\ Insert(t, k, v).slots = [t.slots EXCEPT ![s] = [key |-> k, val |-> v]]
        BY <2>1, <2>2, <2>3, FillTable
    <2> HIDE DEF s
    <2>5. Sound(Insert(t, k, v))
        BY <1>2, <2>4, FillSound DEF s
    <2> QED
        BY <2>1, <2>2, <2>4, <2>5
<1> QED
    BY <1>1, <1>2
-------------------------------------------------------------------------------
(* The cache.                                                              *)

\* Every entry has the address of its host,
Honest(t) == \A s \in Slots : t.slots[s].key = t.slots[s].val

\* and every table has its entries where they are found.
TablesInv == \A p \in Procs : Sound(tbl[p])

\* A process that has not got its table yet connects to nothing.
FreshInv ==
    \A p \in Procs : pc[p] \in {"off", "load"} => want[p] = NoKey /\ used[p] = NoKey

\* What was written of the region, three units for every slot passed at most.
PosInv == \A p \in Procs : pc[p] = "write" => pos[p] <= 3 * i[p] + part[p]

AddrInv == AddrTypeOK /\ TablesInv /\ FreshInv /\ PosInv

\* What a process puts for its table is one that was checked.
LEMMA NewTable ==
    ASSUME AddrTypeOK, TablesInv, NEW p \in Procs, NEW t,
           t \in Table, t.occupied \in Nat, Sound(t),
           tbl' = [tbl EXCEPT ![p] = t]
    PROVE  /\ tbl' \in [Procs -> Table] /\ (\A q \in Procs : tbl'[q].occupied \in Nat)
           /\ TablesInv'
<1>1. \A q \in Procs : tbl'[q] = IF q = p THEN t ELSE tbl[q]
    BY DEF AddrTypeOK
<1>2. tbl' \in [Procs -> Table]
    BY DEF AddrTypeOK
<1>3. \A q \in Procs : tbl'[q].occupied \in Nat
    BY <1>1 DEF AddrTypeOK
<1>4. ASSUME NEW q \in Procs
      PROVE  Sound(tbl[q])'
    <2>1. CASE q = p
        <3>1. tbl'[q] = t
            BY <1>1, <2>1
        <3> QED
            BY <3>1 DEF Sound, Full, Slot, Stops
    <2>2. CASE q # p
        <3>1. tbl'[q] = tbl[q]
            BY <1>1, <2>2
        <3> QED
            BY <3>1 DEF TablesInv, Sound, Full, Slot, Stops
    <2> QED
        BY <2>1, <2>2
<1> QED
    BY <1>2, <1>3, <1>4 DEF TablesInv

\* A table that was emptied, whatever number of entries it is said to have.
LEMMA EmptyTable ==
    ASSUME NEW n \in Nat
    PROVE  LET t == [Empty EXCEPT !.occupied = n]
           IN  t \in Table /\ t.occupied = n /\ Sound(t) /\ Honest(t)
BY DEF Empty, Table, Sound, Open, Honest

LEMMA EmptyTableToo ==
    Empty \in Table /\ Empty.occupied \in Nat /\ Sound(Empty) /\ Honest(Empty)
BY DEF Empty, Table, Sound, Open, Honest

\* An entry that is inserted in a loop that counts down again.
LEMMA LoadedTable ==
    ASSUME NEW t \in Table, NEW k \in Keys, NEW v \in Keys, t.occupied \in Nat \ {0}, Sound(t)
    PROVE  LET t2 == [Insert(t, k, v) EXCEPT !.occupied = @ - 1]
           IN  t2 \in Table /\ t2.occupied \in Nat /\ Sound(t2)
<1> DEFINE u == Insert(t, k, v)
           t2 == [u EXCEPT !.occupied = @ - 1]
<1>1. u \in Table /\ Sound(u) /\ u.occupied \in {t.occupied, t.occupied + 1}
    BY InsertSound
<1> HIDE DEF u
<1>2. t2 \in Table /\ t2.slots = u.slots /\ t2.occupied = u.occupied - 1
    BY <1>1 DEF Table
<1> HIDE DEF t2
<1>3. Sound(t2)
    BY <1>1, <1>2, SoundSlots
<1>4. t2.occupied \in Nat
    BY <1>1, <1>2
<1> QED
    BY <1>2, <1>3, <1>4 DEF t2, u

\* The address of a host that was resolved.
LEMMA ResolvedTable ==
    ASSUME NEW t \in Table, NEW k \in Keys, t.occupied \in Nat, Sound(t), ~Full(t, k)
    PROVE  LET t2 == Update(t, k, k)
           IN  /\ t2 \in Table /\ t2.occupied \in Nat /\ Sound(t2)
               /\ Honest(t) => Honest(t2)
<1> DEFINE t2 == Update(t, k, k)
           s == Slot(t, k)
<1>1. /\ t2 \in Table /\ Sound(t2) /\ t2.occupied \in {t.occupied, t.occupied + 1}
      /\ t2.slots = [t.slots EXCEPT ![s] = [key |-> k, val |-> k]]
    BY UpdateSound
<1> HIDE DEF t2, s
<1>2. \A l \in Slots : t2.slots[l] \in {t.slots[l], [key |-> k, val |-> k]}
    BY <1>1 DEF Table
<1>3. Honest(t) => Honest(t2)
    BY <1>2 DEF Honest
<1> QED
    BY <1>1, <1>3 DEF t2

\* Where an honest table has a slot for a host, it has its address or none.
LEMMA GetIsRight ==
    ASSUME NEW t \in Table, NEW k \in Keys, Honest(t), ~Full(t, k), EntryGet(t, k) # NoKey
    PROVE  EntryGet(t, k) = k
<1>1. Slot(t, k) \in Slots /\ t.slots[Slot(t, k)].key \in {k, NoKey}
    BY SlotHoldsKeyOrNone
<1>2. EntryGet(t, k) = t.slots[Slot(t, k)].key
    BY <1>1 DEF EntryGet, Honest
<1> QED
    BY <1>1, <1>2

\* The entries left to dump are those of slots that were not passed.
LEMMA LeftIsAhead ==
    ASSUME NEW t \in Table, NEW n \in Nat, NEW s \in Left(t, n)
    PROVE  s \in Slots /\ s \in Nat /\ s > n /\ s <= Capacity /\ t.slots[s] \in Entry
BY TableAssumption DEF Left, Slots, Table

LEMMA SizeIsUnits ==
    /\ \A k \in Keys : Size[k] \in 2..3
    /\ Capacity \in Nat \ {0} /\ MaxUnits \in Nat /\ MaxUnits = 3 * Capacity
    /\ NoKey \notin Keys
BY CacheAssumption, TableAssumption DEF MaxUnits
-------------------------------------------------------------------------------
(* Every step keeps the invariant.                                         *)

LEMMA AddrInitInv == Init => AddrInv
<1> SUFFICES ASSUME Init PROVE AddrInv
    OBVIOUS
<1>1. TablesInv
    BY EmptyTableToo DEF Init, TablesInv
<1>2. AddrTypeOK
    <2>1. tbl \in [Procs -> Table] /\ \A p \in Procs : tbl[p].occupied \in Nat
        BY EmptyTableToo DEF Init
    <2>2. mem \in [1..MaxUnits -> Units \cup {Blank}] /\ 1 \in 1..(MaxUnits + 1)
        BY SizeIsUnits DEF Init, Blank
    <2>3. /\ pos \in [Procs -> 1..(MaxUnits + 1)] /\ i \in [Procs -> Nat]
          /\ part \in [Procs -> 1..3] /\ occ \in Nat
        BY <2>2 DEF Init
    <2>4. /\ pc \in [Procs -> {"off", "load", "ready", "test", "set", "head", "write", "died"}]
          /\ \A p \in Procs : pc[p] \in {"test", "set", "head", "write"} => p \in shared
          /\ want \in [Procs -> Keys \cup {NoKey}] /\ used \in [Procs -> Keys \cup {NoKey}]
        BY DEF Init
    <2>5. /\ busy \in BOOLEAN /\ version \in BOOLEAN /\ torn \in BOOLEAN
          /\ shared \subseteq Procs /\ mixed \subseteq Procs
        BY DEF Init
    <2> QED
        BY <2>1, <2>2, <2>3, <2>4, <2>5 DEF AddrTypeOK
<1>3. FreshInv /\ PosInv
    BY DEF Init, FreshInv, PosInv
<1> QED
    BY <1>1, <1>2, <1>3 DEF AddrInv

\* A step that leaves the tables alone keeps them sound.
LEMMA SameTables ==
    ASSUME TablesInv, UNCHANGED tbl
    PROVE  TablesInv'
BY DEF TablesInv, Sound, Full, Slot, Stops

\* A step of p that gives it nothing, and does not make a process that has no table out
\* of one that has.
LEMMA SameGiven ==
    ASSUME AddrTypeOK, FreshInv, UNCHANGED <<want, used>>,
           NEW p \in Procs, NEW l, pc' = [pc EXCEPT ![p] = l],
           l \in {"off", "load"} => pc[p] \in {"off", "load"}
    PROVE  FreshInv'
BY DEF AddrTypeOK, FreshInv

LEMMA StartKeepsInv ==
    ASSUME AddrInv, NEW p \in Procs, StartPrivate(p) \/ StartLoad(p)
    PROVE  AddrInv'
<1> USE DEF AddrInv
<1>1. CASE StartPrivate(p)
    <2> USE <1>1 DEF StartPrivate
    <2>1. tbl' \in [Procs -> Table] /\ (\A q \in Procs : tbl'[q].occupied \in Nat) /\ TablesInv'
        <3>1. tbl' = [tbl EXCEPT ![p] = Empty]
            OBVIOUS
        <3> QED
            BY <3>1, EmptyTableToo, NewTable
    <2>2. AddrTypeOK'
        BY <2>1 DEF AddrTypeOK, Goto, region
    <2>3. FreshInv'
        BY SameGiven DEF Goto
    <2>4. PosInv'
        BY DEF PosInv, AddrTypeOK, Goto, region
    <2> QED
        BY <2>1, <2>2, <2>3, <2>4
<1>2. CASE StartLoad(p)
    <2> USE <1>2 DEF StartLoad
    <2>1. tbl' \in [Procs -> Table] /\ (\A q \in Procs : tbl'[q].occupied \in Nat) /\ TablesInv'
        <3>1. occ \in Nat
            BY DEF AddrTypeOK
        <3> QED
            BY <3>1, EmptyTable, NewTable
    <2>2. AddrTypeOK'
        BY <2>1, SizeIsUnits DEF AddrTypeOK, Goto, region
    <2>3. FreshInv'
        BY SameGiven DEF Goto
    <2>4. PosInv'
        BY DEF PosInv, AddrTypeOK, Goto, region
    <2> QED
        BY <2>1, <2>2, <2>3, <2>4
<1> QED
    BY <1>1, <1>2

LEMMA LoadKeepsInv ==
    ASSUME AddrInv, NEW p \in Procs, LoadEntry(p) \/ LoadJunk(p) \/ Loaded(p)
    PROVE  AddrInv'
<1> USE DEF AddrInv
<1>1. CASE LoadEntry(p)
    <2> USE <1>1 DEF LoadEntry
    <2>1. PICK k \in Keys, v \in Keys :
             /\ EntryAt(pos[p], k, v)
             /\ tbl' = [tbl EXCEPT ![p] = [Insert(tbl[p], k, v) EXCEPT !.occupied = @ - 1]]
             /\ pos' = [pos EXCEPT ![p] = @ + Size[k]]
        OBVIOUS
    <2>2. /\ pos[p] \in Nat \ {0} /\ Size[k] \in 2..3 /\ MaxUnits \in Nat
          /\ pos[p] + Size[k] - 1 <= MaxUnits
        BY <2>1, SizeIsUnits DEF AddrTypeOK, EntryAt
    <2>3. pos[p] + Size[k] \in 1..(MaxUnits + 1)
        BY <2>2
    <2>4. tbl[p].occupied \in Nat \ {0} /\ tbl[p] \in Table
        BY DEF AddrTypeOK
    <2>5. tbl' \in [Procs -> Table] /\ (\A q \in Procs : tbl'[q].occupied \in Nat) /\ TablesInv'
        <3> DEFINE t == [Insert(tbl[p], k, v) EXCEPT !.occupied = @ - 1]
        <3>1. t \in Table /\ t.occupied \in Nat /\ Sound(t)
            BY <2>4, LoadedTable DEF TablesInv
        <3>2. tbl' = [tbl EXCEPT ![p] = t]
            BY <2>1
        <3> HIDE DEF t
        <3> QED
            BY <3>1, <3>2, NewTable
    <2>6. AddrTypeOK'
        <3>1. pos' \in [Procs -> 1..(MaxUnits + 1)] /\ i' \in [Procs -> Nat]
            BY <2>1, <2>3 DEF AddrTypeOK
        <3> QED
            BY <2>5, <3>1 DEF AddrTypeOK, region, bounds
    <2>7. FreshInv' /\ PosInv'
        BY <2>1 DEF FreshInv, PosInv, AddrTypeOK, region
    <2> QED
        BY <2>5, <2>6, <2>7
<1>2. CASE LoadJunk(p) \/ Loaded(p)
    <2>1. /\ UNCHANGED <<busy, version, occ, mem, tbl, part, shared, want, used, torn, mixed>>
          /\ pc[p] = "load"
        BY <1>2 DEF LoadJunk, Loaded, region
    <2>2. PICK l \in {"load", "ready", "died"} : pc' = [pc EXCEPT ![p] = l]
        BY <1>2 DEF LoadJunk, Loaded, Goto, AddrTypeOK
    <2>3. PICK u \in 1..(MaxUnits + 1), n \in Nat :
             pos' = [pos EXCEPT ![p] = u] /\ i' = [i EXCEPT ![p] = n]
        <3>1. CASE UNCHANGED <<pos, i>>
            <4>1. pos' = [pos EXCEPT ![p] = pos[p]] /\ i' = [i EXCEPT ![p] = i[p]]
                BY <3>1 DEF AddrTypeOK
            <4> QED
                BY <4>1 DEF AddrTypeOK
        <3>2. CASE ~(UNCHANGED <<pos, i>>)
            <4>1. PICK u \in pos[p]..(pos[p] + 3) :
                     u <= MaxUnits + 1 /\ pos' = [pos EXCEPT ![p] = u]
                BY <1>2, <3>2 DEF LoadJunk, Loaded
            <4>2. i' = [i EXCEPT ![p] = i[p] + 1]
                BY <1>2, <3>2 DEF LoadJunk, Loaded
            <4>3. u \in 1..(MaxUnits + 1) /\ i[p] + 1 \in Nat
                BY <4>1, SizeIsUnits DEF AddrTypeOK
            <4> QED
                BY <4>1, <4>2, <4>3
        <3> QED
            BY <3>1, <3>2
    <2>4. AddrTypeOK'
        <3>1. pc' \in [Procs -> {"off", "load", "ready", "test", "set", "head", "write",
                                 "died"}]
            BY <2>2 DEF AddrTypeOK
        <3>2. \A q \in Procs : pc'[q] \in {"test", "set", "head", "write"} => q \in shared
            BY <2>2 DEF AddrTypeOK
        <3>3. pos' \in [Procs -> 1..(MaxUnits + 1)] /\ i' \in [Procs -> Nat]
            BY <2>3 DEF AddrTypeOK
        <3> QED
            BY <2>1, <3>1, <3>2, <3>3 DEF AddrTypeOK
    <2>5. FreshInv'
        BY <2>1, <2>2, SameGiven
    <2>6. PosInv' /\ TablesInv'
        BY <2>1, <2>2, <2>3, SameTables DEF PosInv, AddrTypeOK
    <2> QED
        BY <2>4, <2>5, <2>6
<1> QED
    BY <1>1, <1>2

LEMMA GetKeepsInv ==
    ASSUME AddrInv, NEW p \in Procs, NEW h \in Keys, Lookup(p, h) \/ Resolve(p, h)
    PROVE  AddrInv'
<1> USE DEF AddrInv
<1>0. tbl[p] \in Table /\ tbl[p].occupied \in Nat /\ Sound(tbl[p])
    BY DEF AddrTypeOK, TablesInv
<1>1. CASE Lookup(p, h)
    <2> USE <1>1 DEF Lookup
    <2>1. /\ UNCHANGED <<busy, version, occ, mem, pc, tbl, pos, i, part, shared, torn, mixed>>
          /\ pc[p] = "ready"
        BY DEF region
    <2> DEFINE u == EntryGet(tbl[p], h)
    <2>2. want' = [want EXCEPT ![p] = h] /\ used' = [used EXCEPT ![p] = u] /\ u # NoKey
        OBVIOUS
    <2>3. u \in Keys \cup {NoKey}
        <3>1. CASE Full(tbl[p], h)
            <4>1. Capacity \in Slots
                BY SizeIsUnits DEF Slots
            <4> QED
                BY <1>0, <3>1, <4>1 DEF EntryGet, Table, Entry, Open
        <3>2. CASE ~Full(tbl[p], h)
            <4>1. Slot(tbl[p], h) \in Slots
                BY <3>2, SlotHoldsKeyOrNone
            <4> QED
                BY <1>0, <3>2, <4>1 DEF EntryGet, Table, Entry, Open
        <3> QED
            BY <3>1, <3>2
    <2> HIDE DEF u
    <2>4. AddrTypeOK'
        BY <2>1, <2>2, <2>3 DEF AddrTypeOK
    <2>5. FreshInv'
        BY <2>1, <2>2 DEF FreshInv, AddrTypeOK
    <2>6. PosInv' /\ TablesInv'
        BY <2>1, SameTables DEF PosInv
    <2> QED
        BY <2>4, <2>5, <2>6
<1>2. CASE Resolve(p, h)
    <2> USE <1>2 DEF Resolve
    <2>1. /\ UNCHANGED <<busy, version, occ, mem, pos, i, part, shared, torn, mixed>>
          /\ want' = [want EXCEPT ![p] = h] /\ used' = [used EXCEPT ![p] = h]
          /\ pc[p] = "ready"
        BY DEF region
    <2>2. PICK l \in {"died", "test", "ready"} :
             pc' = [pc EXCEPT ![p] = l] /\ (l = "test" => p \in shared)
        BY DEF Goto
    <2>3. /\ tbl' \in [Procs -> Table] /\ (\A q \in Procs : tbl'[q].occupied \in Nat)
          /\ TablesInv' /\ \A q \in Procs \ {p} : tbl'[q] = tbl[q]
        <3>1. CASE Full(tbl[p], h)
            <4>1. tbl' = tbl
                BY <3>1
            <4> QED
                BY <4>1, SameTables DEF AddrTypeOK
        <3>2. CASE ~Full(tbl[p], h)
            <4> DEFINE t == Update(tbl[p], h, h)
            <4>1. tbl' = [tbl EXCEPT ![p] = t]
                BY <3>2
            <4>2. t \in Table /\ t.occupied \in Nat /\ Sound(t)
                BY <1>0, <3>2, ResolvedTable
            <4> HIDE DEF t
            <4> QED
                BY <4>1, <4>2, NewTable DEF AddrTypeOK
        <3> QED
            BY <3>1, <3>2
    <2>4. AddrTypeOK'
        <3>1. pc' \in [Procs -> {"off", "load", "ready", "test", "set", "head", "write",
                                 "died"}]
            BY <2>2 DEF AddrTypeOK
        <3>2. \A q \in Procs : pc'[q] \in {"test", "set", "head", "write"} => q \in shared
            BY <2>2 DEF AddrTypeOK
        <3>3. want' \in [Procs -> Keys \cup {NoKey}] /\ used' \in [Procs -> Keys \cup {NoKey}]
            BY <2>1 DEF AddrTypeOK
        <3> QED
            BY <2>1, <2>3, <3>1, <3>2, <3>3 DEF AddrTypeOK
    <2>5. FreshInv'
        BY <2>1, <2>2 DEF FreshInv, AddrTypeOK
    <2>6. PosInv'
        BY <2>1, <2>2 DEF PosInv, AddrTypeOK
    <2> QED
        BY <2>3, <2>4, <2>5, <2>6
<1> QED
    BY <1>1, <1>2

LEMMA DumpKeepsInv ==
    ASSUME AddrInv, NEW p \in Procs,
           TestBusy(p) \/ SetBusy(p) \/ DumpHead(p) \/ ClearBusy(p)
    PROVE  AddrInv'
<1> USE DEF AddrInv
<1>1. UNCHANGED <<mem, tbl, shared, want, used>>
    BY DEF TestBusy, SetBusy, DumpHead, ClearBusy, region
<1>2. PICK l \in {"ready", "set", "head", "write"} : pc' = [pc EXCEPT ![p] = l]
    BY DEF TestBusy, SetBusy, DumpHead, ClearBusy, Goto
<1>3. FreshInv'
    BY <1>1, <1>2, SameGiven
<1>4. TablesInv'
    BY <1>1, SameTables
<1>5. pc[p] \in {"test", "set", "head", "write"}
    BY DEF TestBusy, SetBusy, DumpHead, ClearBusy
<1>6. AddrTypeOK'
    <2>1. pc' \in [Procs -> {"off", "load", "ready", "test", "set", "head", "write", "died"}]
        BY <1>2 DEF AddrTypeOK
    <2>2. \A q \in Procs : pc'[q] \in {"test", "set", "head", "write"} => q \in shared
        BY <1>2, <1>5 DEF AddrTypeOK
    <2>3. CASE DumpHead(p)
        <3>1. 1 \in 1..(MaxUnits + 1)
            BY SizeIsUnits
        <3>2. /\ pos' \in [Procs -> 1..(MaxUnits + 1)] /\ i' \in [Procs -> Nat]
              /\ part' \in [Procs -> 1..3]
            BY <2>3, <3>1 DEF DumpHead, AddrTypeOK
        <3>3. busy' = busy /\ version' = TRUE /\ occ' \in Nat
            BY <2>3 DEF DumpHead, AddrTypeOK
        <3>4. torn' \in BOOLEAN /\ mixed' \subseteq Procs
            BY <2>3 DEF DumpHead, AddrTypeOK
        <3> QED
            BY <1>1, <2>1, <2>2, <3>2, <3>3, <3>4 DEF AddrTypeOK
    <2>4. CASE TestBusy(p) \/ SetBusy(p) \/ ClearBusy(p)
        <3>1. UNCHANGED <<version, occ, pos, i, part, torn, mixed>> /\ busy' \in BOOLEAN
            BY <2>4 DEF TestBusy, SetBusy, ClearBusy, region, AddrTypeOK
        <3> QED
            BY <1>1, <2>1, <2>2, <3>1 DEF AddrTypeOK
    <2> QED
        BY <2>3, <2>4
<1>7. PosInv'
    <2>1. CASE DumpHead(p)
        <3>1. /\ pos' = [pos EXCEPT ![p] = 1] /\ i' = [i EXCEPT ![p] = 0]
              /\ part' = [part EXCEPT ![p] = 1]
            BY <2>1 DEF DumpHead
        <3> QED
            BY <1>2, <3>1 DEF PosInv, AddrTypeOK
    <2>2. CASE TestBusy(p) \/ SetBusy(p) \/ ClearBusy(p)
        <3>1. UNCHANGED <<pos, i, part>>
            BY <2>2 DEF TestBusy, SetBusy, ClearBusy
        <3>2. PICK n \in {"ready", "set", "head"} : pc' = [pc EXCEPT ![p] = n]
            BY <2>2 DEF TestBusy, SetBusy, ClearBusy, Goto
        <3> QED
            BY <3>1, <3>2 DEF PosInv, AddrTypeOK
    <2> QED
        BY <2>1, <2>2
<1> QED
    BY <1>3, <1>4, <1>6, <1>7

LEMMA UnitKeepsInv ==
    ASSUME AddrInv, NEW p \in Procs, DumpUnit(p)
    PROVE  AddrInv'
<1> USE DEF AddrInv
<1>1. /\ UNCHANGED <<busy, version, occ, pc, tbl, shared, want, used, torn, mixed>>
      /\ pc[p] = "write" /\ pos' = [pos EXCEPT ![p] = @ + 1]
    BY DEF DumpUnit
<1>2. PICK s \in Left(tbl[p], i[p]) :
         LET e == tbl[p].slots[s]
         IN  /\ mem' = [mem EXCEPT ![pos[p]] = UnitOf(e, part[p])]
             /\ IF part[p] < Size[e.key]
                  THEN part' = [part EXCEPT ![p] = @ + 1] /\ UNCHANGED i
                  ELSE part' = [part EXCEPT ![p] = 1] /\ i' = [i EXCEPT ![p] = s]
    BY DEF DumpUnit
<1> DEFINE e == tbl[p].slots[s]
<1>3. /\ pos[p] \in 1..(MaxUnits + 1) /\ i[p] \in Nat /\ part[p] \in 1..3
      /\ tbl[p] \in Table
    BY DEF AddrTypeOK
<1>4. s \in Slots /\ s \in Nat /\ s > i[p] /\ s <= Capacity /\ e \in Entry
    BY <1>3, LeftIsAhead
<1> HIDE DEF e
<1>5. Size[e.key] \in 2..3
    BY <1>4, SizeIsUnits DEF Entry
<1>6. pos[p] <= 3 * i[p] + part[p]
    BY <1>1 DEF PosInv
<1>7. pos[p] \in 1..MaxUnits
    BY <1>3, <1>4, <1>6, SizeIsUnits
<1> DEFINE u == UnitOf(e, part[p])
<1>8. mem' = [mem EXCEPT ![pos[p]] = u] /\ u \in Units
    BY <1>2, <1>3, <1>4 DEF Units, UnitOf, Entry, e
<1> HIDE DEF u
<1>9. mem' \in [1..MaxUnits -> Units \cup {Blank}]
    BY <1>7, <1>8 DEF AddrTypeOK
<1>10. PICK n \in Nat, d \in 1..3 :
          /\ i' = [i EXCEPT ![p] = n] /\ part' = [part EXCEPT ![p] = d]
          /\ pos[p] + 1 <= 3 * n + d
    <2>1. CASE part[p] < Size[e.key]
        <3>1. part' = [part EXCEPT ![p] = part[p] + 1] /\ i' = i
            BY <1>2, <2>1 DEF e
        <3>2. i' = [i EXCEPT ![p] = i[p]]
            BY <3>1 DEF AddrTypeOK
        <3>3. part[p] + 1 \in 1..3 /\ pos[p] + 1 <= 3 * i[p] + (part[p] + 1)
            BY <1>3, <1>5, <1>6, <2>1
        <3> QED
            BY <1>3, <3>1, <3>2, <3>3
    <2>2. CASE ~(part[p] < Size[e.key])
        <3>1. part' = [part EXCEPT ![p] = 1] /\ i' = [i EXCEPT ![p] = s]
            BY <1>2, <2>2 DEF e
        <3>2. pos[p] + 1 <= 3 * s + 1 /\ s \in Nat /\ 1 \in 1..3
            BY <1>3, <1>4, <1>6
        <3> QED
            BY <3>1, <3>2
    <2> QED
        BY <2>1, <2>2
<1>11. AddrTypeOK'
    <2>1. pos' \in [Procs -> 1..(MaxUnits + 1)]
        <3>1. pos[p] + 1 \in 1..(MaxUnits + 1)
            BY <1>7, SizeIsUnits
        <3> QED
            BY <1>1, <3>1 DEF AddrTypeOK
    <2>2. i' \in [Procs -> Nat] /\ part' \in [Procs -> 1..3]
        BY <1>10 DEF AddrTypeOK
    <2> QED
        BY <1>1, <1>9, <2>1, <2>2 DEF AddrTypeOK
<1>12. PosInv'
    <2>1. i'[p] = n /\ part'[p] = d /\ pos'[p] = pos[p] + 1
        BY <1>1, <1>10 DEF AddrTypeOK
    <2>2. \A q \in Procs \ {p} : i'[q] = i[q] /\ part'[q] = part[q] /\ pos'[q] = pos[q]
        BY <1>1, <1>10 DEF AddrTypeOK
    <2> QED
        BY <1>1, <1>10, <2>1, <2>2 DEF PosInv
<1>13. FreshInv' /\ TablesInv'
    BY <1>1, SameTables DEF FreshInv
<1> QED
    BY <1>11, <1>12, <1>13

LEMMA EndKeepsInv ==
    ASSUME AddrInv, NEW p \in Procs, Exit(p) \/ Kill(p)
    PROVE  AddrInv'
<1> USE DEF AddrInv
<1>1. /\ UNCHANGED <<busy, version, occ, mem, pos, i, part, shared, mixed>>
      /\ pc' = [pc EXCEPT ![p] = "off"] /\ tbl' = [tbl EXCEPT ![p] = Empty]
      /\ want' = [want EXCEPT ![p] = NoKey] /\ used' = [used EXCEPT ![p] = NoKey]
    BY DEF Exit, Kill, Goto, Destroy, region
<1>2. torn' \in BOOLEAN
    BY DEF Exit, Kill, AddrTypeOK
<1>3. tbl' \in [Procs -> Table] /\ (\A q \in Procs : tbl'[q].occupied \in Nat) /\ TablesInv'
    BY <1>1, EmptyTableToo, NewTable
<1>4. AddrTypeOK'
    <2>1. pc' \in [Procs -> {"off", "load", "ready", "test", "set", "head", "write", "died"}]
        BY <1>1 DEF AddrTypeOK
    <2>2. \A q \in Procs : pc'[q] \in {"test", "set", "head", "write"} => q \in shared
        BY <1>1 DEF AddrTypeOK
    <2>3. want' \in [Procs -> Keys \cup {NoKey}] /\ used' \in [Procs -> Keys \cup {NoKey}]
        BY <1>1 DEF AddrTypeOK
    <2> QED
        BY <1>1, <1>2, <1>3, <2>1, <2>2, <2>3 DEF AddrTypeOK
<1>5. FreshInv' /\ PosInv'
    BY <1>1 DEF FreshInv, PosInv, AddrTypeOK
<1> QED
    BY <1>3, <1>4, <1>5

LEMMA AddrStepInv == AddrInv /\ [Next]_vars => AddrInv'
<1> SUFFICES ASSUME AddrInv, [Next]_vars
             PROVE  AddrInv'
    OBVIOUS
<1>1. CASE Next
    <2>1. PICK p \in Procs :
             \/ StartPrivate(p) \/ StartLoad(p) \/ LoadEntry(p) \/ LoadJunk(p) \/ Loaded(p)
             \/ \E h \in Keys : Lookup(p, h) \/ Resolve(p, h)
             \/ TestBusy(p) \/ SetBusy(p) \/ DumpHead(p) \/ DumpUnit(p) \/ ClearBusy(p)
             \/ Exit(p) \/ Kill(p)
        BY <1>1 DEF Next
    <2> QED
        BY <2>1, StartKeepsInv, LoadKeepsInv, GetKeepsInv, DumpKeepsInv, UnitKeepsInv,
           EndKeepsInv
<1>2. CASE UNCHANGED vars
    <2>1. UNCHANGED <<busy, version, occ, mem, pc, tbl, pos, i, part, shared, want, used, torn,
                      mixed>>
        BY <1>2 DEF vars, region
    <2>2. AddrTypeOK'
        BY <2>1 DEF AddrInv, AddrTypeOK
    <2>3. FreshInv' /\ PosInv' /\ TablesInv'
        BY <2>1, SameTables DEF AddrInv, FreshInv, PosInv
    <2> QED
        BY <2>2, <2>3 DEF AddrInv
<1> QED
    BY <1>1, <1>2

\* The invariant that the properties follow from.
THEOREM AddrInvariant == Spec => []AddrInv
<1> QED
    BY AddrInitInv, AddrStepInv, PTL DEF Spec

\* The type invariant: among others, no dump writes more than three units for every slot of
\* its table, and only a process that mapped the region dumps (dump_hash_table).
THEOREM AddrTypeCorrect == Spec => []AddrTypeOK
<1>1. AddrInv => AddrTypeOK
    BY DEF AddrInv
<1> QED
    BY <1>1, AddrInvariant, PTL

\* Every key is in one slot of its table, and a search finds it there, also in a table
\* that was loaded from a region that others wrote (hash_table_insert, _update).
THEOREM TablesStaySound == Spec => []TablesAreSound
<1>1. AddrInv => TablesAreSound
    BY DEF AddrInv, TablesInv, TablesAreSound
<1> QED
    BY <1>1, AddrInvariant, PTL

-------------------------------------------------------------------------------
(* What is loaded is what was dumped.                                      *)

\* The slots of a table that hold an entry, and those of them up to slot n.
Filled(t) == {s \in Slots : t.slots[s] # Open}
Past(t, n) == {s \in Filled(t) : s <= n}

\* occupied is right.
Counted(t) == t.occupied = Cardinality(Filled(t))

\* Where the entry of each slot begins in the region, for one layout of a table.
Places == [Nat -> Nat \ {0}]

\* All units of an entry are in the region, from u on.
Whole(u, e) == \A d \in 1..Size[e.key] : mem[u + d - 1] = UnitOf(e, d)

\* The slots of t up to n have been written to the region: an entry begins at the place of
\* its slot, the next one behind it, and slots that are open take no place.
Laid(t, n, f) ==
    /\ f[1] = 1
    /\ \A s \in Past(t, n) :
          /\ Whole(f[s], t.slots[s])
          /\ f[s + 1] = f[s] + Size[t.slots[s].key]
          /\ f[s + 1] <= f[n + 1]
    /\ \A x, y \in 1..(n + 1) :
          x <= y /\ (\A s \in Past(t, n) : s < x \/ y <= s) => f[x] = f[y]

Loading == {p \in Procs : pc[p] = "load" /\ p \notin mixed}
Writing == {p \in Procs : pc[p] = "write"}

\* The next entry to be written, and that its units before the one numbered d are there.
Next1(t, n, s) == s \in Left(t, n) /\ \A r \in Left(t, n) : s <= r
Begun(t, n, u, d) ==
    \A s \in Left(t, n) :
        Next1(t, n, s) =>
            /\ \A c \in 1..(d - 1) : mem[u + c - 1] = UnitOf(t.slots[s], c)
            /\ d <= Size[t.slots[s].key]

\* p has written the header and its slots up to i.
WritesAt(p, f) ==
    /\ Laid(tbl[p], i[p], f)
    /\ pos[p] = f[i[p] + 1] + (part[p] - 1)
    /\ Begun(tbl[p], i[p], f[i[p] + 1], part[p])

Writes(p) ==
    /\ p \notin mixed /\ occ = tbl[p].occupied /\ i[p] \in 0..Capacity
    /\ \E f \in Places : WritesAt(p, f)

\* p has read the slots of t up to k.
ReadsUpTo(p, t, f, k) ==
    /\ tbl[p].occupied = occ
    /\ \A s \in Slots : tbl[p].slots[s] = IF s <= k THEN t.slots[s] ELSE Open
    /\ pos[p] = f[k + 1] /\ i[p] = Cardinality(Past(t, k))

\* The region holds t, which was dumped last; its last entry is in slot n at most.
RegionHas(t, n, f) ==
    /\ Sound(t) /\ Honest(t) /\ Counted(t) /\ occ = t.occupied /\ Content(t) = dumped
    /\ Left(t, n) = {} /\ Laid(t, n, f) /\ f[n + 1] <= MaxUnits + 1
    /\ \A p \in Loading : \E k \in 0..n : ReadsUpTo(p, t, f, k)

Holds == \E t \in Table, n \in 0..Capacity, f \in Places : RegionHas(t, n, f)

\* The inductive invariant: a table that was not loaded from a mixed region counts its
\* entries right, and each is of its host; unless dumps overlapped one process at most
\* writes, and what it has written is its table; and what is there to be loaded, and is
\* being loaded, is whole.
GoodTable(t) == Counted(t) /\ Honest(t)
CountInv ==
    \A p \in Procs : p \notin mixed /\ pc[p] \notin {"load", "died"} => GoodTable(tbl[p])
WriterInv ==
    ~torn => \A p \in Writing : Writes(p) /\ Writing = {p}
ApartInv == Writing # {} => Loading = {}
HoldsInv == Loading # {} \/ (version /\ ~torn /\ Writing = {}) => Holds

LoadInv == CountInv /\ WriterInv /\ ApartInv /\ HoldsInv

-------------------------------------------------------------------------------
(* The number of entries.                                                  *)

LEMMA FilledIsFinite ==
    ASSUME NEW t, NEW n
    PROVE  /\ IsFiniteSet(Filled(t)) /\ IsFiniteSet(Past(t, n))
           /\ Cardinality(Filled(t)) \in Nat /\ Cardinality(Past(t, n)) \in Nat
           /\ Cardinality(Past(t, n)) <= Cardinality(Filled(t))
           /\ Cardinality(Past(t, n)) = Cardinality(Filled(t)) => Past(t, n) = Filled(t)
<1>1. IsFiniteSet(Slots)
    BY TableAssumption, FS_Interval DEF Slots
<1>2. Filled(t) \in SUBSET Slots /\ Past(t, n) \in SUBSET Filled(t)
    BY DEF Filled, Past
<1>3. IsFiniteSet(Filled(t))
    BY <1>1, <1>2, FS_Subset
<1>4. /\ IsFiniteSet(Past(t, n)) /\ Cardinality(Past(t, n)) <= Cardinality(Filled(t))
      /\ Cardinality(Filled(t)) = Cardinality(Past(t, n)) => Filled(t) = Past(t, n)
    BY <1>2, <1>3, FS_Subset
<1> QED
    BY <1>3, <1>4, FS_CardinalityType

\* The entries of a table are those that were passed and those that are left.
LEMMA PastAndLeft ==
    ASSUME NEW t, NEW n \in Nat
    PROVE  /\ Filled(t) = Past(t, n) \cup Left(t, n) /\ Past(t, n) \cap Left(t, n) = {}
           /\ Past(t, n) \subseteq 1..n /\ Filled(t) \subseteq Nat \ {0}
           /\ Left(t, n) \subseteq Slots
<1>1. Slots \subseteq Nat \ {0}
    BY TableAssumption DEF Slots
<1>2. Filled(t) \subseteq Nat \ {0} /\ Left(t, n) \subseteq Slots
    BY <1>1 DEF Filled, Left
<1>3. \A s : s \in Left(t, n) <=> s \in Filled(t) /\ s > n
    BY DEF Filled, Left
<1>4. \A s : s \in Past(t, n) <=> s \in Filled(t) /\ s <= n
    BY DEF Past
<1>5. \A s \in Filled(t) : (s > n <=> ~(s <= n)) /\ (s <= n => s \in 1..n)
    BY <1>2
<1> QED
    BY <1>2, <1>3, <1>4, <1>5

\* If any are left there is a next one, and to pass it is to have passed one more.
LEMMA NextEntry ==
    ASSUME NEW t, NEW n \in Nat, Left(t, n) # {}
    PROVE  \E s \in Left(t, n) : Next1(t, n, s)
<1>1. Left(t, n) \subseteq Nat
    BY PastAndLeft
<1> QED
    BY <1>1, FirstOfNaturals DEF Next1

LEMMA PassEntry ==
    ASSUME NEW t, NEW n \in Nat, NEW s, Next1(t, n, s)
    PROVE  /\ s \in Slots /\ s \in Nat /\ n < s /\ s \in Filled(t)
           /\ Past(t, s) = Past(t, n) \cup {s} /\ s \notin Past(t, n)
           /\ Cardinality(Past(t, s)) = Cardinality(Past(t, n)) + 1
           /\ Left(t, s) = Left(t, n) \ {s}
<1>1. /\ s \in Left(t, n) /\ (\A r \in Left(t, n) : s <= r)
      /\ Filled(t) = Past(t, n) \cup Left(t, n) /\ Past(t, n) \cap Left(t, n) = {}
      /\ Filled(t) \subseteq Nat /\ Left(t, n) \subseteq Slots
    BY PastAndLeft DEF Next1
<1>2. s \in Slots /\ s \in Nat /\ n < s /\ s \in Filled(t)
    BY <1>1 DEF Left
<1>3. \A r : r \in Past(t, s) <=> r \in Filled(t) /\ r <= s
    BY DEF Past
<1>4. \A r : r \in Past(t, n) <=> r \in Filled(t) /\ r <= n
    BY DEF Past
<1>5. \A r \in Filled(t) : r <= s <=> r <= n \/ r = s
    <2> TAKE r \in Filled(t)
    <2>1. r \in Nat /\ (r \notin Past(t, n) => s <= r)
        BY <1>1
    <2> QED
        BY <1>2, <1>4, <2>1
<1>6. Past(t, s) = Past(t, n) \cup {s} /\ s \notin Past(t, n)
    BY <1>1, <1>2, <1>3, <1>4, <1>5
<1>7. Left(t, s) = Left(t, n) \ {s}
    <2>1. Filled(t) = Past(t, s) \cup Left(t, s) /\ Past(t, s) \cap Left(t, s) = {}
        BY <1>2, PastAndLeft
    <2> QED
        BY <1>1, <1>6, <2>1
<1> QED
    BY <1>2, <1>6, <1>7, FilledIsFinite, FS_AddElement

\* hash_table_update counts.
LEMMA UpdateCounts ==
    ASSUME NEW t \in Table, NEW k \in Keys, ~Full(t, k), Sound(t), Counted(t)
    PROVE  Counted(Update(t, k, k))
<1> DEFINE s == Slot(t, k)
           u == Update(t, k, k)
<1>1. s \in Slots /\ t.slots[s].key \in {k, NoKey} /\ NoKey \notin Keys
    BY SlotHoldsKeyOrNone, TableAssumption
<1>2. /\ u.slots = [t.slots EXCEPT ![s] = [key |-> k, val |-> k]]
      /\ t.slots \in [Slots -> Entry \cup {Open}] /\ t.occupied \in Int
    BY UpdateSound DEF Table
<1>3. u.occupied = IF t.slots[s].key = k THEN t.occupied ELSE t.occupied + 1
    BY <1>1, <1>2, FillTable DEF Update, Fill, Table
<1> HIDE DEF s, u
<1>4. Filled(u) = Filled(t) \cup {s}
    BY <1>1, <1>2 DEF Filled, Open
<1>5. s \in Filled(t) <=> t.slots[s].key = k
    BY <1>1, <1>2 DEF Filled, Open, Entry
<1>6. Cardinality(Filled(u)) = IF s \in Filled(t) THEN t.occupied ELSE t.occupied + 1
    BY <1>4, FilledIsFinite, FS_AddElement DEF Counted
<1> QED
    BY <1>3, <1>5, <1>6 DEF Counted, u

LEMMA EmptyCounts == GoodTable(Empty)
<1>1. Filled(Empty) = {} /\ Empty.occupied = 0 /\ Honest(Empty)
    BY DEF Filled, Empty, Honest, Open
<1> QED
    BY <1>1, FS_EmptySet DEF Counted, GoodTable

\* The next entry of a sound table is inserted into its own slot again: the search for it
\* passes the slots that it passed before.
LEMMA InsertAgain ==
    ASSUME NEW t \in Table, Sound(t), NEW u \in Table, u.occupied \in Nat,
           NEW n \in Nat, NEW s, Next1(t, n, s),
           \A r \in Slots : u.slots[r] = IF r <= n THEN t.slots[r] ELSE Open
    PROVE  LET e == t.slots[s]
               w == [Insert(u, e.key, e.val) EXCEPT !.occupied = @ - 1]
           IN  /\ w.occupied = u.occupied
               /\ \A r \in Slots : w.slots[r] = IF r <= s THEN t.slots[r] ELSE Open
<1> DEFINE e == t.slots[s]
           k == e.key
           v == e.val
           w == [Insert(u, k, v) EXCEPT !.occupied = @ - 1]
<1>1. /\ s \in Slots /\ s \in Nat /\ n < s /\ s \in Filled(t) /\ Slots \subseteq Nat
      /\ \A r \in Slots : n < r /\ r < s => t.slots[r] = Open
    <2>1. s \in Slots /\ s \in Nat /\ n < s /\ s \in Filled(t) /\ Slots \subseteq Nat
        <3>1. Slots \subseteq Nat
            BY TableAssumption DEF Slots
        <3> QED
            BY <3>1, PassEntry
    <2>2. ASSUME NEW r \in Slots, n < r, r < s PROVE t.slots[r] = Open
        <3>1. r \notin Left(t, n)
            BY <2>1, <2>2 DEF Next1
        <3> QED
            BY <2>2, <3>1 DEF Left
    <2> QED
        BY <2>1, <2>2
<1>2. e = [key |-> k, val |-> v] /\ k \in Keys /\ v \in Keys /\ k # NoKey
    BY <1>1, TableAssumption DEF Filled, Table, Entry
<1> HIDE DEF e, k, v
<1>3. t.slots[s] = e /\ e.key = k
    BY DEF e, k
<1>4. ~Full(t, k) /\ Slot(t, k) = s
    BY <1>1, <1>2, <1>3 DEF Sound
<1>5. s \in Stops(t, k) /\ \A l \in Stops(t, k) : s <= l
    BY <1>2, <1>4, SlotIsFirstStop
<1>6. \A r \in Probe(k) : r < s => u.slots[r] = t.slots[r]
    <2> SUFFICES ASSUME NEW r \in Probe(k), r < s PROVE u.slots[r] = t.slots[r]
        OBVIOUS
    <2>1. r \in Slots /\ r \in Nat
        BY <1>2, HomeIsSlot
    <2> QED
        BY <1>1, <2>1
<1>7. u.slots[s] = Open
    BY <1>1
<1>8. s \in Stops(u, k) /\ \A l \in Stops(u, k) : s <= l
    <2>1. s \in Stops(u, k)
        BY <1>5, <1>7 DEF Stops, Open
    <2>2. ASSUME NEW l \in Stops(u, k), l < s PROVE FALSE
        <3>1. l \in Probe(k) /\ t.slots[l].key \in {k, NoKey} /\ l \in Nat
            BY <1>2, <1>6, <2>2, HomeIsSlot DEF Stops
        <3>2. l \in Stops(t, k)
            BY <3>1 DEF Stops
        <3> QED
            BY <1>1, <1>5, <2>2, <3>1, <3>2
    <2>3. Stops(u, k) \subseteq Nat
        BY <1>2, HomeIsSlot DEF Stops
    <2> QED
        BY <1>1, <2>1, <2>2, <2>3
<1>9. ~Full(u, k) /\ Slot(u, k) = s
    BY <1>2, <1>8, FirstStopIsSlot
<1>10. u.slots[s].key # k
    BY <1>2, <1>7 DEF Open
<1>11. Insert(u, k, v) = [Fill(u, s, k, v) EXCEPT !.occupied = @ + 1]
    BY <1>9, <1>10 DEF Insert
<1>12. /\ w.occupied = u.occupied
       /\ w.slots = [u.slots EXCEPT ![s] = [key |-> k, val |-> v]]
    BY <1>11 DEF Fill, Table
<1> HIDE DEF w
<1>13. \A r \in Slots : w.slots[r] = IF r <= s THEN t.slots[r] ELSE Open
    BY <1>1, <1>2, <1>3, <1>12 DEF Table
<1> QED
    BY <1>12, <1>13 DEF w, k, v, e

-------------------------------------------------------------------------------
(* Every step keeps it.                                                    *)

\* What the region holds, others that read it, and one that writes it, are not affected
\* by what leaves them alone.
LEMMA HoldsStays ==
    ASSUME Holds, UNCHANGED <<occ, mem, dumped>>, Loading' \subseteq Loading,
           \A q \in Loading' : tbl'[q] = tbl[q] /\ pos'[q] = pos[q] /\ i'[q] = i[q]
    PROVE  Holds'
<1>1. PICK t \in Table, n \in 0..Capacity, f \in Places : RegionHas(t, n, f)
    BY DEF Holds
<1>2. Laid(t, n, f)'
    BY <1>1 DEF RegionHas, Laid, Whole
<1>3. \A q \in Loading' : \E k \in 0..n : ReadsUpTo(q, t, f, k)'
    BY <1>1 DEF RegionHas, ReadsUpTo
<1>4. RegionHas(t, n, f)'
    BY <1>1, <1>2, <1>3 DEF RegionHas
<1> QED
    BY <1>4 DEF Holds

LEMMA WritesStays ==
    ASSUME NEW q, Writes(q), UNCHANGED <<occ, mem>>, q \notin mixed', tbl'[q] = tbl[q],
           pos'[q] = pos[q], i'[q] = i[q], part'[q] = part[q]
    PROVE  Writes(q)'
<1>1. PICK f \in Places : WritesAt(q, f)
    BY DEF Writes
<1>2. WritesAt(q, f)'
    BY <1>1 DEF WritesAt, Laid, Whole, Begun
<1> QED
    BY <1>2 DEF Writes

\* A step of p that does not touch the region, and after which p neither writes nor loads
\* from a region that is whole.
LEMMA QuietStep ==
    ASSUME AddrTypeOK, LoadInv, UNCHANGED <<version, occ, mem, dumped>>,
           NEW p \in Procs, NEW l, pc' = [pc EXCEPT ![p] = l], l # "write",
           l = "load" => p \in mixed',
           \A q \in Procs \ {p} :
              /\ tbl'[q] = tbl[q] /\ pos'[q] = pos[q] /\ i'[q] = i[q] /\ part'[q] = part[q]
              /\ q \in mixed' <=> q \in mixed,
           torn => torn', pc[p] = "write" => torn',
           l # "died" /\ p \notin mixed' => GoodTable(tbl'[p])
    PROVE  LoadInv'
<1>1. pc'[p] = l /\ \A q \in Procs \ {p} : pc'[q] = pc[q]
    BY DEF AddrTypeOK
<1>2. Loading' = Loading \ {p} /\ Writing' = Writing \ {p}
    BY <1>1 DEF Loading, Writing
<1>3. CountInv'
    <2> SUFFICES ASSUME NEW q \in Procs, q \notin mixed', pc'[q] \notin {"load", "died"}
                 PROVE  GoodTable(tbl[q])'
        BY DEF CountInv
    <2>1. GoodTable(tbl'[q])
        <3>1. CASE q = p
            BY <1>1, <3>1
        <3>2. CASE q # p
            BY <1>1, <3>2 DEF LoadInv, CountInv
        <3> QED
            BY <3>1, <3>2
    <2> QED
        BY <2>1 DEF GoodTable, Honest, Counted, Filled
<1>4. WriterInv'
    <2> SUFFICES ASSUME ~torn', NEW q \in Writing' PROVE Writes(q)' /\ Writing' = {q}
        BY DEF WriterInv
    <2>1. p \notin Writing /\ Writing' = Writing /\ q \in Writing /\ q \in Procs \ {p}
        BY <1>2 DEF Writing
    <2>2. Writes(q) /\ Writing = {q}
        BY <2>1 DEF LoadInv, WriterInv
    <2>3. q \notin mixed
        BY <2>2 DEF Writes
    <2>4. Writes(q)'
        BY <2>1, <2>2, <2>3, WritesStays
    <2> QED
        BY <2>1, <2>2, <2>4
<1>5. ApartInv'
    BY <1>2 DEF LoadInv, ApartInv
<1>6. HoldsInv'
    <2> SUFFICES ASSUME Loading' # {} \/ (version' /\ ~torn' /\ Writing' = {}) PROVE Holds'
        BY DEF HoldsInv
    <2>1. Loading # {} \/ (version /\ ~torn /\ Writing = {})
        BY <1>2 DEF Writing
    <2>2. Holds
        BY <2>1 DEF LoadInv, HoldsInv
    <2>3. Loading' \subseteq Procs \ {p} /\ Loading' \subseteq Loading
        BY <1>2 DEF Loading
    <2> QED
        BY <2>2, <2>3, HoldsStays
<1> QED
    BY <1>3, <1>4, <1>5, <1>6 DEF LoadInv

\* A process starts with an empty table.
LEMMA StartPrivateKeeps ==
    ASSUME AddrInv, LoadInv, NEW p \in Procs, StartPrivate(p)
    PROVE  LoadInv'
<1>1. /\ pc' = [pc EXCEPT ![p] = "ready"] /\ tbl' = [tbl EXCEPT ![p] = Empty]
      /\ UNCHANGED <<version, occ, mem, dumped, pos, i, part, torn>>
      /\ mixed' = mixed \ {p} /\ pc[p] = "off"
    BY DEF StartPrivate, Goto, region
<1>2. tbl'[p] = Empty /\ \A q \in Procs \ {p} : tbl'[q] = tbl[q]
    BY <1>1 DEF AddrInv, AddrTypeOK
<1> QED
    BY <1>1, <1>2, EmptyCounts, QuietStep DEF AddrInv

\* One ends, or is killed.
LEMMA EndKeeps ==
    ASSUME AddrInv, LoadInv, NEW p \in Procs, Exit(p) \/ Kill(p)
    PROVE  LoadInv'
<1>1. /\ pc' = [pc EXCEPT ![p] = "off"] /\ tbl' = [tbl EXCEPT ![p] = Empty]
      /\ UNCHANGED <<version, occ, mem, dumped, pos, i, part, mixed>>
    BY DEF Exit, Kill, Goto, Destroy, region
<1>2. torn => torn'
    BY DEF Exit, Kill
<1>3. pc[p] = "write" => torn'
    BY DEF Exit, Kill, Dumping
<1>4. tbl'[p] = Empty /\ \A q \in Procs \ {p} : tbl'[q] = tbl[q]
    BY <1>1 DEF AddrInv, AddrTypeOK
<1> QED
    BY <1>1, <1>2, <1>3, <1>4, EmptyCounts, QuietStep DEF AddrInv

\* connection_get uses the table, and resolves what it has not.
LEMMA GetKeeps ==
    ASSUME AddrInv, LoadInv, NEW p \in Procs, NEW h \in Keys, Lookup(p, h) \/ Resolve(p, h)
    PROVE  LoadInv'
<1>1. /\ pc[p] = "ready" /\ UNCHANGED <<version, occ, mem, dumped, pos, i, part, torn, mixed>>
      /\ pc \in [Procs -> {"off", "load", "ready", "test", "set", "head", "write", "died"}]
    BY DEF Lookup, Resolve, region, AddrInv, AddrTypeOK
<1>2. p \notin mixed => GoodTable(tbl[p])
    BY <1>1 DEF LoadInv, CountInv
<1>3. CASE Lookup(p, h)
    <2>1. pc' = [pc EXCEPT ![p] = "ready"] /\ tbl' = tbl
        BY <1>1, <1>3 DEF Lookup
    <2> QED
        BY <1>1, <1>2, <2>1, QuietStep DEF AddrInv
<1>4. CASE Resolve(p, h)
    <2>1. CASE Full(tbl[p], h)
        <3>1. pc' = [pc EXCEPT ![p] = "died"] /\ tbl' = tbl
            BY <1>4, <2>1 DEF Resolve, Goto
        <3>2. /\ AddrTypeOK /\ UNCHANGED <<version, occ, mem, dumped>>
              /\ (torn => torn') /\ pc[p] # "write"
              /\ \A q \in Procs \ {p} :
                    /\ tbl'[q] = tbl[q] /\ pos'[q] = pos[q] /\ i'[q] = i[q]
                    /\ part'[q] = part[q] /\ (q \in mixed' <=> q \in mixed)
            BY <1>1, <3>1 DEF AddrInv
        <3> QED
            BY <3>1, <3>2, QuietStep
    <2>2. CASE ~Full(tbl[p], h)
        <3>1. PICK l \in {"test", "ready"} : pc' = [pc EXCEPT ![p] = l]
            BY <1>4, <2>2 DEF Resolve, Goto
        <3>2. tbl' = [tbl EXCEPT ![p] = Update(tbl[p], h, h)]
            BY <1>4, <2>2 DEF Resolve
        <3>3. tbl'[p] = Update(tbl[p], h, h) /\ \A q \in Procs \ {p} : tbl'[q] = tbl[q]
            BY <3>2 DEF AddrInv, AddrTypeOK
        <3>4. tbl[p] \in Table /\ tbl[p].occupied \in Nat /\ Sound(tbl[p])
            BY DEF AddrInv, AddrTypeOK, TablesInv
        <3>5. p \notin mixed' => GoodTable(tbl'[p])
            BY <1>1, <1>2, <2>2, <3>3, <3>4, UpdateCounts, ResolvedTable DEF GoodTable
        <3> QED
            BY <1>1, <3>1, <3>3, <3>5, QuietStep DEF AddrInv
    <2> QED
        BY <2>1, <2>2
<1> QED
    BY <1>3, <1>4

\* So do the steps that find the region busy or not.
LEMMA BusyKeeps ==
    ASSUME AddrInv, LoadInv, NEW p \in Procs, TestBusy(p) \/ SetBusy(p)
    PROVE  LoadInv'
<1>1. /\ pc[p] \in {"test", "set"}
      /\ UNCHANGED <<version, occ, mem, tbl, dumped, pos, i, part, torn, mixed>>
    BY DEF TestBusy, SetBusy, region
<1>2. PICK l \in {"ready", "set", "head"} : pc' = [pc EXCEPT ![p] = l]
    BY DEF TestBusy, SetBusy, Goto
<1>3. p \notin mixed => GoodTable(tbl[p])
    BY <1>1 DEF LoadInv, CountInv
<1> QED
    BY <1>1, <1>2, <1>3, QuietStep DEF AddrInv

\* What p has read when it has read all that the header counts.
LEMMA WholeIsRead ==
    ASSUME AddrTypeOK, LoadInv, NEW p \in Loading, i[p] >= tbl[p].occupied
    PROVE  GoodTable(tbl[p]) /\ Content(tbl[p]) = dumped
<1>1. Holds
    BY DEF LoadInv, HoldsInv
<1>2. PICK t \in Table, n \in 0..Capacity, f \in Places : RegionHas(t, n, f)
    BY <1>1 DEF Holds
<1>3. PICK k \in 0..n : ReadsUpTo(p, t, f, k)
    BY <1>2 DEF RegionHas
<1>4. /\ Counted(t) /\ Honest(t) /\ occ = t.occupied /\ Content(t) = dumped
      /\ tbl[p].occupied = occ /\ i[p] = Cardinality(Past(t, k)) /\ k \in Nat
      /\ \A s \in Slots : tbl[p].slots[s] = IF s <= k THEN t.slots[s] ELSE Open
    BY <1>2, <1>3 DEF RegionHas, ReadsUpTo
<1>5. Cardinality(Past(t, k)) >= Cardinality(Filled(t))
    BY <1>4 DEF Counted
<1>6. Past(t, k) = Filled(t)
    BY <1>5, FilledIsFinite
<1>7. \A s \in Slots : tbl[p].slots[s] = t.slots[s]
    BY <1>4, <1>6 DEF Past, Filled
<1>8. Filled(tbl[p]) = Filled(t) /\ Content(tbl[p]) = Content(t) /\ Honest(tbl[p])
    BY <1>4, <1>7 DEF Filled, Content, Honest
<1> QED
    BY <1>4, <1>8 DEF Counted, GoodTable

\* While entries are left, the next one of the table that the region holds is at the
\* place where p reads.
LEMMA NextIsThere ==
    ASSUME AddrTypeOK, NEW p \in Procs, i[p] < tbl[p].occupied,
           NEW t \in Table, NEW n \in 0..Capacity, NEW f \in Places, RegionHas(t, n, f),
           NEW k \in 0..n, ReadsUpTo(p, t, f, k)
    PROVE  \E s \in 1..n :
              /\ Next1(t, k, s) /\ pos[p] = f[s] /\ f[s + 1] = f[s] + Size[t.slots[s].key]
              /\ t.slots[s] \in Entry
              /\ EntryAt(pos[p], t.slots[s].key, t.slots[s].val)
<1>1. /\ Counted(t) /\ occ = t.occupied /\ Left(t, n) = {} /\ Laid(t, n, f)
      /\ f[n + 1] <= MaxUnits + 1
    BY DEF RegionHas
<1>2. tbl[p].occupied = occ /\ pos[p] = f[k + 1] /\ i[p] = Cardinality(Past(t, k))
    BY DEF ReadsUpTo
<1>3. k \in Nat /\ n \in Nat /\ k <= n
    BY TableAssumption
<1>4. Left(t, k) # {}
    <2>1. ASSUME Left(t, k) = {} PROVE FALSE
        <3>1. Past(t, k) = Filled(t)
            BY <1>3, <2>1, PastAndLeft
        <3> QED
            BY <1>1, <1>2, <3>1, FilledIsFinite DEF Counted
    <2> QED
        BY <2>1
<1>5. PICK s \in Left(t, k) : Next1(t, k, s)
    BY <1>3, <1>4, NextEntry
<1>6. s \in Slots /\ s \in Nat /\ k < s /\ s \in Filled(t)
    BY <1>3, <1>5, PassEntry
<1>7. s \in Past(t, n) /\ s \in 1..n
    <2>1. s \in Past(t, n) /\ s <= n
        BY <1>1, <1>3, <1>6, PastAndLeft DEF Past
    <2> QED
        BY <1>3, <1>6, <2>1
<1>8. \A r \in Past(t, n) : r < k + 1 \/ s <= r
    <2> TAKE r \in Past(t, n)
    <2>1. r \in Nat /\ r \in Filled(t)
        BY <1>3, PastAndLeft DEF Past
    <2>2. r \in Past(t, k) \/ r \in Left(t, k)
        BY <1>3, <2>1, PastAndLeft
    <2> QED
        BY <1>3, <1>5, <1>6, <2>1, <2>2 DEF Past, Next1
<1>9. f[k + 1] = f[s]
    <2>1. k + 1 \in 1..(n + 1) /\ s \in 1..(n + 1) /\ k + 1 <= s
        BY <1>3, <1>6, <1>7
    <2> QED
        BY <1>1, <1>8, <2>1 DEF Laid
<1>10. t.slots[s] \in Entry
    BY <1>6 DEF Filled, Table
<1> DEFINE e == t.slots[s]
<1>11. e = [key |-> e.key, val |-> e.val] /\ Size[e.key] \in 2..3
    BY <1>10, SizeIsUnits DEF Entry
<1>12. /\ \A d \in 1..Size[e.key] : mem[f[s] + d - 1] = UnitOf(e, d)
       /\ f[s + 1] = f[s] + Size[e.key] /\ f[s + 1] <= f[n + 1]
    BY <1>1, <1>7 DEF Laid, Whole
<1> HIDE DEF e
<1>13. f[s] + Size[e.key] - 1 <= MaxUnits
    <2>1. f[s] \in Nat /\ f[n + 1] \in Nat
        BY <1>3, <1>6 DEF Places
    <2> QED
        BY <1>1, <1>11, <1>12, <2>1, SizeIsUnits
<1>14. EntryAt(f[s], e.key, e.val)
    BY <1>11, <1>12, <1>13 DEF EntryAt
<1> QED
    BY <1>2, <1>5, <1>7, <1>9, <1>10, <1>12, <1>14 DEF e

\* There is one entry at a place at most.
LEMMA EntryIsOne ==
    ASSUME NEW u \in Nat, NEW k \in Keys, NEW v \in Keys, NEW k2 \in Keys, NEW v2 \in Keys,
           EntryAt(u, k, v), EntryAt(u, k2, v2)
    PROVE  k = k2 /\ v = v2
<1>1. Size[k] \in 2..3 /\ Size[k2] \in 2..3
    BY SizeIsUnits
<1>2. k = k2
    <2>1. UnitOf([key |-> k, val |-> v], 1) = UnitOf([key |-> k2, val |-> v2], 1)
        <3>1. 1 \in 1..Size[k] /\ 1 \in 1..Size[k2]
            BY <1>1
        <3> QED
            BY <3>1 DEF EntryAt
    <2> QED
        BY <1>1, <2>1 DEF UnitOf
<1>3. v = v2
    <2>1. Size[k] \in 1..Size[k] /\ ~(Size[k] < Size[k])
        BY <1>1
    <2>2. UnitOf([key |-> k, val |-> v], Size[k]) = UnitOf([key |-> k2, val |-> v2], Size[k])
        BY <1>2, <2>1 DEF EntryAt
    <2> QED
        BY <1>2, <2>1, <2>2 DEF UnitOf
<1> QED
    BY <1>2, <1>3

\* What is not mixed has no junk.
LEMMA JunkIsMixed ==
    ASSUME AddrTypeOK, LoadInv, NEW p \in Procs, LoadJunk(p)
    PROVE  p \in mixed
<1> SUFFICES ASSUME p \notin mixed PROVE FALSE
    OBVIOUS
<1>1. p \in Loading /\ i[p] < tbl[p].occupied
    BY DEF LoadJunk, Loading
<1>2. PICK t \in Table, n \in 0..Capacity, f \in Places : RegionHas(t, n, f)
    BY <1>1 DEF LoadInv, HoldsInv, Holds
<1>3. PICK k \in 0..n : ReadsUpTo(p, t, f, k)
    BY <1>1, <1>2 DEF RegionHas
<1>4. PICK s \in 1..n : t.slots[s] \in Entry /\ EntryAt(pos[p], t.slots[s].key, t.slots[s].val)
    BY <1>1, <1>2, <1>3, NextIsThere
<1>5. t.slots[s].key \in Keys /\ t.slots[s].val \in Keys
    BY <1>4 DEF Entry
<1> QED
    BY <1>4, <1>5 DEF LoadJunk

LEMMA LoadEndKeeps ==
    ASSUME AddrInv, LoadInv, NEW p \in Procs, LoadJunk(p) \/ Loaded(p)
    PROVE  LoadInv'
<1>1. /\ pc[p] = "load" /\ UNCHANGED <<version, occ, mem, tbl, dumped, part, torn, mixed>>
      /\ pc \in [Procs -> {"off", "load", "ready", "test", "set", "head", "write", "died"}]
      /\ \A q \in Procs \ {p} : pos'[q] = pos[q] /\ i'[q] = i[q]
    BY DEF LoadJunk, Loaded, region, AddrInv, AddrTypeOK
<1>2. CASE LoadJunk(p)
    <2>1. p \in mixed
        BY <1>2, JunkIsMixed DEF AddrInv
    <2>2. PICK l \in {"load", "died"} : pc' = [pc EXCEPT ![p] = l]
        BY <1>1, <1>2 DEF LoadJunk, Goto
    <2> QED
        BY <1>1, <2>1, <2>2, QuietStep DEF AddrInv
<1>3. CASE Loaded(p)
    <2>1. pc' = [pc EXCEPT ![p] = "ready"] /\ i[p] >= tbl[p].occupied
        BY <1>3 DEF Loaded, Goto
    <2>2. p \notin mixed => GoodTable(tbl[p])
        BY <1>1, <2>1, WholeIsRead DEF AddrInv, Loading
    <2> QED
        BY <1>1, <2>1, <2>2, QuietStep DEF AddrInv
<1> QED
    BY <1>2, <1>3

\* A process begins to load what is whole.
LEMMA StartLoadKeeps ==
    ASSUME AddrInv, LoadInv, NEW p \in Procs, StartLoad(p)
    PROVE  LoadInv'
<1>1. /\ pc[p] = "off" /\ version /\ pc' = [pc EXCEPT ![p] = "load"]
      /\ tbl' = [tbl EXCEPT ![p] = [Empty EXCEPT !.occupied = occ]]
      /\ pos' = [pos EXCEPT ![p] = 1] /\ i' = [i EXCEPT ![p] = 0]
      /\ mixed' = IF torn \/ Dumping # {} THEN mixed \cup {p} ELSE mixed \ {p}
      /\ UNCHANGED <<version, occ, mem, dumped, part, torn>>
    BY DEF StartLoad, Goto, region
<1>2. /\ pc'[p] = "load" /\ pos'[p] = 1 /\ i'[p] = 0
      /\ tbl'[p] = [Empty EXCEPT !.occupied = occ]
      /\ \A q \in Procs \ {p} :
            /\ tbl'[q] = tbl[q] /\ pos'[q] = pos[q] /\ i'[q] = i[q] /\ pc'[q] = pc[q]
    BY <1>1 DEF AddrInv, AddrTypeOK
<1>3. \A q \in Procs \ {p} : q \in mixed' <=> q \in mixed
    BY <1>1
<1>4. /\ Writing' = Writing
      /\ Loading' = IF torn \/ Dumping # {} THEN Loading ELSE Loading \cup {p}
      /\ p \notin Loading /\ p \notin Writing
    BY <1>1, <1>2, <1>3 DEF Loading, Writing
<1>5. CountInv'
    <2>1. \A q \in Procs : q \notin mixed' /\ pc'[q] \notin {"load", "died"} => GoodTable(tbl'[q])
        BY <1>2, <1>3 DEF LoadInv, CountInv
    <2> QED
        BY <2>1 DEF CountInv, GoodTable, Honest, Counted, Filled
<1>6. WriterInv'
    <2> SUFFICES ASSUME ~torn', NEW q \in Writing' PROVE Writes(q)' /\ Writing' = {q}
        BY DEF WriterInv
    <2>1. q \in Writing /\ q \in Procs \ {p} /\ Writes(q) /\ Writing = {q}
        BY <1>1, <1>4 DEF LoadInv, WriterInv, Writing
    <2>2. q \notin mixed
        BY <2>1 DEF Writes
    <2>3. Writes(q)'
        BY <1>1, <1>2, <1>3, <2>1, <2>2, WritesStays
    <2> QED
        BY <1>4, <2>1, <2>3
<1>7. ApartInv'
    <2>1. Writing # {} => Dumping # {}
        BY DEF Writing, Dumping
    <2> QED
        BY <1>4, <2>1 DEF LoadInv, ApartInv
<1>8. HoldsInv'
    <2>1. CASE torn \/ Dumping # {}
        <3> SUFFICES ASSUME Loading' # {} \/ (version' /\ ~torn' /\ Writing' = {}) PROVE Holds'
            BY DEF HoldsInv
        <3>1. Holds
            BY <1>1, <1>4, <2>1 DEF LoadInv, HoldsInv
        <3>2. Loading' = Loading /\ Loading \subseteq Procs \ {p}
            BY <1>4, <2>1 DEF Loading
        <3> QED
            BY <1>1, <1>2, <3>1, <3>2, HoldsStays
    <2>2. CASE ~(torn \/ Dumping # {})
        <3>1. Writing = {}
            BY <2>2 DEF Writing, Dumping
        <3>2. Holds
            BY <1>1, <2>2, <3>1 DEF LoadInv, HoldsInv
        <3>3. PICK t \in Table, n \in 0..Capacity, f \in Places : RegionHas(t, n, f)
            BY <3>2 DEF Holds
        <3>4. Laid(t, n, f)'
            BY <1>1, <3>3 DEF RegionHas, Laid, Whole
        <3>5. ReadsUpTo(p, t, f, 0)'
            <4>1. Past(t, 0) = {} /\ Cardinality({}) = 0
                BY PastAndLeft, FS_EmptySet
            <4>2. f[0 + 1] = 1
                BY <3>3 DEF RegionHas, Laid, Whole
            <4>3. tbl'[p].occupied = occ /\ \A s \in Slots : tbl'[p].slots[s] = Open
                BY <1>2 DEF Empty
            <4>4. \A s \in Slots : ~(s <= 0)
                BY TableAssumption DEF Slots
            <4> QED
                BY <1>1, <1>2, <4>1, <4>2, <4>3, <4>4 DEF ReadsUpTo
        <3>6. \A q \in Loading' : \E k \in 0..n : ReadsUpTo(q, t, f, k)'
            <4> SUFFICES ASSUME NEW q \in Loading' PROVE \E k \in 0..n : ReadsUpTo(q, t, f, k)'
                OBVIOUS
            <4>1. CASE q = p
                <5>1. 0 \in 0..n
                    BY TableAssumption
                <5> QED
                    BY <3>5, <4>1, <5>1
            <4>2. CASE q # p
                <5>1. q \in Loading /\ q \in Procs \ {p}
                    BY <1>4, <4>2 DEF Loading
                <5> QED
                    BY <1>1, <1>2, <3>3, <5>1 DEF RegionHas, ReadsUpTo
            <4> QED
                BY <4>1, <4>2
        <3>7. RegionHas(t, n, f)'
            BY <1>1, <3>3, <3>4, <3>6 DEF RegionHas
        <3> QED
            BY <3>7 DEF Holds, HoldsInv
    <2> QED
        BY <2>1, <2>2
<1> QED
    BY <1>5, <1>6, <1>7, <1>8 DEF LoadInv

\* The next entry of the region is the next one of the table that it holds.
LEMMA ReadsOn ==
    ASSUME AddrTypeOK, TablesInv, NEW p \in Procs, LoadEntry(p),
           NEW t \in Table, NEW n \in 0..Capacity, NEW f \in Places, RegionHas(t, n, f),
           NEW k \in 0..n, ReadsUpTo(p, t, f, k)
    PROVE  \E m \in 0..n : ReadsUpTo(p, t, f, m)'
<1>1. PICK key \in Keys, val \in Keys :
         /\ EntryAt(pos[p], key, val)
         /\ tbl' = [tbl EXCEPT ![p] = [Insert(tbl[p], key, val) EXCEPT !.occupied = @ - 1]]
         /\ pos' = [pos EXCEPT ![p] = @ + Size[key]]
    BY DEF LoadEntry
<1>2. /\ i[p] < tbl[p].occupied /\ i' = [i EXCEPT ![p] = @ + 1] /\ UNCHANGED <<occ, mem>>
    BY DEF LoadEntry, region
<1>3. Sound(t) /\ k \in Nat
    BY TableAssumption DEF RegionHas
<1>4. /\ tbl[p].occupied = occ /\ i[p] = Cardinality(Past(t, k))
      /\ \A s \in Slots : tbl[p].slots[s] = IF s <= k THEN t.slots[s] ELSE Open
    BY DEF ReadsUpTo
<1>5. PICK s \in 1..n :
         /\ Next1(t, k, s) /\ pos[p] = f[s] /\ f[s + 1] = f[s] + Size[t.slots[s].key]
         /\ t.slots[s] \in Entry
         /\ EntryAt(pos[p], t.slots[s].key, t.slots[s].val)
    BY <1>2, NextIsThere
<1>6. Cardinality(Past(t, s)) = Cardinality(Past(t, k)) + 1
    BY <1>3, <1>5, PassEntry
<1>7. key = t.slots[s].key /\ val = t.slots[s].val
    <2>1. t.slots[s].key \in Keys /\ t.slots[s].val \in Keys /\ pos[p] \in Nat
        BY <1>5, SizeIsUnits DEF Entry, AddrTypeOK
    <2> QED
        BY <1>1, <1>5, <2>1, EntryIsOne
<1>8. tbl[p] \in Table /\ tbl[p].occupied \in Nat
    BY DEF AddrTypeOK
<1>9. LET w == [Insert(tbl[p], key, val) EXCEPT !.occupied = @ - 1]
      IN  /\ w.occupied = tbl[p].occupied
          /\ \A r \in Slots : w.slots[r] = IF r <= s THEN t.slots[r] ELSE Open
    BY <1>3, <1>4, <1>5, <1>7, <1>8, InsertAgain
<1>10. /\ tbl'[p].occupied = occ'
       /\ \A r \in Slots : tbl'[p].slots[r] = IF r <= s THEN t.slots[r] ELSE Open
    BY <1>1, <1>2, <1>4, <1>9 DEF AddrTypeOK
<1>11. pos'[p] = f[s + 1] /\ i'[p] = Cardinality(Past(t, s))
    <2>1. pos'[p] = pos[p] + Size[key] /\ i'[p] = i[p] + 1
        BY <1>1, <1>2 DEF AddrTypeOK
    <2> QED
        BY <1>4, <1>5, <1>6, <1>7, <2>1
<1>12. ReadsUpTo(p, t, f, s)'
    BY <1>10, <1>11 DEF ReadsUpTo
<1>13. s \in 0..n
    BY TableAssumption
<1> QED
    BY <1>12, <1>13

LEMMA LoadEntryKeeps ==
    ASSUME AddrInv, LoadInv, NEW p \in Procs, LoadEntry(p)
    PROVE  LoadInv'
<1>1. /\ pc[p] = "load" /\ UNCHANGED <<version, occ, mem, pc, part, dumped, torn, mixed>>
      /\ i' = [i EXCEPT ![p] = @ + 1]
    BY DEF LoadEntry, region
<1>2. \A q \in Procs \ {p} : tbl'[q] = tbl[q] /\ pos'[q] = pos[q] /\ i'[q] = i[q]
    BY DEF LoadEntry, AddrInv, AddrTypeOK
<1>3. Loading' = Loading /\ Writing' = Writing /\ p \notin Writing
    BY <1>1 DEF Loading, Writing
<1>4. CountInv'
    <2>1. \A q \in Procs : q \notin mixed' /\ pc'[q] \notin {"load", "died"} => GoodTable(tbl'[q])
        BY <1>1, <1>2 DEF LoadInv, CountInv
    <2> QED
        BY <2>1 DEF CountInv, GoodTable, Honest, Counted, Filled
<1>5. WriterInv'
    <2> SUFFICES ASSUME ~torn', NEW q \in Writing' PROVE Writes(q)' /\ Writing' = {q}
        BY DEF WriterInv
    <2>1. q \in Procs \ {p} /\ Writes(q) /\ Writing = {q}
        BY <1>1, <1>3 DEF LoadInv, WriterInv, Writing
    <2>2. q \notin mixed
        BY <2>1 DEF Writes
    <2> QED
        BY <1>1, <1>2, <1>3, <2>1, <2>2, WritesStays
<1>6. ApartInv'
    BY <1>3 DEF LoadInv, ApartInv
<1>7. HoldsInv'
    <2> SUFFICES ASSUME Holds PROVE Holds'
        BY <1>1, <1>3 DEF LoadInv, HoldsInv
    <2>1. PICK t \in Table, n \in 0..Capacity, f \in Places : RegionHas(t, n, f)
        BY DEF Holds
    <2>2. Laid(t, n, f)'
        BY <1>1, <2>1 DEF RegionHas, Laid, Whole
    <2>3. ASSUME NEW q \in Loading' PROVE \E k \in 0..n : ReadsUpTo(q, t, f, k)'
        <3>1. PICK k \in 0..n : ReadsUpTo(q, t, f, k)
            BY <1>3, <2>1 DEF RegionHas
        <3>2. CASE q = p
            BY <2>1, <3>1, <3>2, ReadsOn DEF AddrInv
        <3>3. CASE q # p
            BY <1>1, <1>2, <3>1, <3>3 DEF ReadsUpTo, Loading
        <3> QED
            BY <3>2, <3>3
    <2>4. RegionHas(t, n, f)'
        BY <1>1, <2>1, <2>2, <2>3 DEF RegionHas
    <2> QED
        BY <2>4 DEF Holds
<1> QED
    BY <1>4, <1>5, <1>6, <1>7 DEF LoadInv

\* The header: nothing of the table is written yet, and all that are loading have what is
\* being replaced.
LEMMA DumpHeadKeeps ==
    ASSUME AddrInv, LoadInv, NEW p \in Procs, DumpHead(p)
    PROVE  LoadInv'
<1>1. /\ pc[p] = "head" /\ pc' = [pc EXCEPT ![p] = "write"]
      /\ occ' = tbl[p].occupied
      /\ pos' = [pos EXCEPT ![p] = 1] /\ i' = [i EXCEPT ![p] = 0]
      /\ part' = [part EXCEPT ![p] = 1]
      /\ mixed' = mixed \cup {r \in Procs : pc[r] = "load"}
      /\ UNCHANGED <<mem, tbl, dumped>>
    BY DEF DumpHead, Goto
<1>2. torn' = (torn \/ Dumping # {p} \/ p \in mixed)
    BY DEF DumpHead
<1>3. /\ pc'[p] = "write" /\ pos'[p] = 1 /\ i'[p] = 0 /\ part'[p] = 1
      /\ \A q \in Procs \ {p} : pc'[q] = pc[q]
    BY <1>1 DEF AddrInv, AddrTypeOK
<1>4. Loading' = {} /\ p \in Writing' /\ Writing' = Writing \cup {p}
    BY <1>1, <1>3 DEF Loading, Writing
<1>5. CountInv'
    <2>1. \A q \in Procs : q \notin mixed' /\ pc'[q] \notin {"load", "died"} => GoodTable(tbl'[q])
        BY <1>1, <1>3 DEF LoadInv, CountInv
    <2> QED
        BY <2>1 DEF CountInv, GoodTable, Honest, Counted, Filled
<1>6. WriterInv'
    <2> SUFFICES ASSUME ~torn', NEW q \in Writing' PROVE Writes(q)' /\ Writing' = {q}
        BY DEF WriterInv
    <2>1. Dumping = {p} /\ p \notin mixed
        BY <1>2
    <2>2. Writing' = {p} /\ q = p
        BY <1>1, <1>4, <2>1 DEF Writing, Dumping
    <2> DEFINE f == [x \in Nat |-> 1]
    <2>3. f \in Places /\ \A x \in Nat : f[x] = 1
        BY DEF Places
    <2> HIDE DEF f
    <2>4. Past(tbl[p], 0) = {}
        BY PastAndLeft
    <2>5. Laid(tbl[p], 0, f)'
        <3>1. \A s : s \notin Past(tbl'[p], 0)
            BY <1>1, <2>4
        <3>2. f[1] = 1 /\ \A x, y \in 1..(0 + 1) : f[x] = f[y]
            BY <2>3
        <3> QED
            BY <3>1, <3>2 DEF Laid
    <2>6. f[0 + 1] = 1
        BY <2>3
    <2>9. Begun(tbl[p], 0, 1, 1)'
        <3> SUFFICES ASSUME NEW r \in Left(tbl[p], 0), Next1(tbl[p], 0, r)
                     PROVE  1 <= Size[tbl[p].slots[r].key]
            BY <1>1 DEF Begun
        <3>1. tbl[p].slots[r] \in Entry
            BY LeftIsAhead DEF AddrInv, AddrTypeOK
        <3> QED
            BY <3>1, SizeIsUnits DEF Entry
    <2>7. WritesAt(p, f)'
        BY <1>3, <2>5, <2>6, <2>9 DEF WritesAt
    <2>8. p \notin mixed' /\ occ' = tbl'[p].occupied /\ i'[p] \in 0..Capacity
        BY <1>1, <1>3, <2>1, TableAssumption
    <2> QED
        BY <2>2, <2>3, <2>7, <2>8 DEF Writes
<1>7. ApartInv' /\ HoldsInv'
    BY <1>4 DEF ApartInv, HoldsInv
<1> QED
    BY <1>5, <1>6, <1>7 DEF LoadInv

\* The next entry is laid behind those that were written, ...
LEMMA LayEntry ==
    ASSUME NEW t \in Table, NEW n \in Nat, NEW f \in Places, NEW s \in Slots, s \in Nat, n < s,
           s \in Filled(t), Past(t, s) = Past(t, n) \cup {s},
           Laid(t, n, f)', f[n + 1] \in Nat,
           Whole(f[n + 1], t.slots[s])'
    PROVE  \E g \in Places :
              /\ Laid(t, s, g)'
              /\ g[s + 1] = f[n + 1] + Size[t.slots[s].key]
<1> DEFINE z == Size[t.slots[s].key]
           g == [x \in Nat |-> IF x <= n + 1 THEN f[x] ELSE IF x <= s THEN f[n + 1]
                                                    ELSE f[n + 1] + z]
<1>1. /\ s \in Slots /\ s \in Nat /\ n < s /\ s \in Filled(t)
      /\ Past(t, s) = Past(t, n) \cup {s}
    OBVIOUS
<1>2. z \in Nat \ {0}
    BY <1>1, SizeIsUnits, TableAssumption DEF Filled, Table, Entry
<1> HIDE DEF z
<1>3. \A x \in Nat : f[x] \in Nat \ {0}
    BY DEF Places
<1>4. /\ g \in Places
      /\ \A x \in Nat : g[x] = IF x <= n + 1 THEN f[x] ELSE IF x <= s THEN f[n + 1]
                                                       ELSE f[n + 1] + z
    BY <1>2, <1>3 DEF Places
<1> HIDE DEF g
<1>5. g[1] = 1
    BY <1>4 DEF Laid
<1>6. g[s] = f[n + 1] /\ g[s + 1] = f[n + 1] + z
    BY <1>1, <1>4
<1>7. ASSUME NEW r \in Past(t, s)
      PROVE  /\ Whole(g[r], t.slots[r])'
             /\ g[r + 1] = g[r] + Size[t.slots[r].key]
             /\ g[r + 1] <= g[s + 1]
    <2>1. CASE r \in Past(t, n)
        <3>1. r \in Nat /\ r <= n
            BY <2>1, PastAndLeft DEF Past
        <3>2. g[r] = f[r] /\ g[r + 1] = f[r + 1]
            BY <1>4, <3>1
        <3>3. /\ Whole(f[r], t.slots[r])'
              /\ f[r + 1] = f[r] + Size[t.slots[r].key]
              /\ f[r + 1] <= f[n + 1]
            BY <2>1 DEF Laid
        <3>4. f[r + 1] \in Nat
            BY <1>3, <3>1
        <3> QED
            BY <1>2, <1>3, <1>6, <3>1, <3>2, <3>3, <3>4 DEF Whole
    <2>2. CASE r = s
        BY <1>2, <1>3, <1>6, <2>2 DEF z, Whole
    <2> QED
        BY <1>1, <2>1, <2>2
<1>8. ASSUME NEW x \in 1..(s + 1), NEW y \in 1..(s + 1), x <= y,
             \A r \in Past(t, s) : r < x \/ y <= r
      PROVE  g[x] = g[y]
    <2>1. s < x \/ y <= s
        BY <1>1, <1>8
    <2>2. CASE s < x
        <3>1. x = y
            BY <1>1, <1>8, <2>2
        <3> QED
            BY <3>1
    <2>3. CASE y <= s /\ n + 1 < x
        BY <1>1, <1>4, <1>8, <2>3
    <2>4. CASE x <= n + 1
        <3> DEFINE m == IF y <= n + 1 THEN y ELSE n + 1
        <3>1. m \in 1..(n + 1) /\ x \in 1..(n + 1) /\ x <= m /\ m <= y
            BY <1>8, <2>4
        <3>2. \A r \in Past(t, n) : r < x \/ m <= r
            <4> TAKE r \in Past(t, n)
            <4>1. r \in Nat /\ (r < x \/ y <= r)
                BY <1>1, <1>8, PastAndLeft
            <4> QED
                BY <3>1, <4>1
        <3>3. f[x] = f[m]
            BY <3>1, <3>2 DEF Laid
        <3>4. g[x] = f[x]
            BY <1>4, <3>1
        <3>5. g[y] = f[m]
            BY <1>1, <1>4, <1>8, <2>1, <2>4
        <3> QED
            BY <3>3, <3>4, <3>5
    <2> QED
        BY <1>1, <2>1, <2>2, <2>3, <2>4
<1>9. Laid(t, s, g)'
    BY <1>5, <1>7, <1>8 DEF Laid
<1> QED
    BY <1>4, <1>6, <1>9 DEF z

\* ... unit by unit.
LEMMA UnitWrites ==
    ASSUME AddrTypeOK, AddrTypeOK', NEW p \in Procs, DumpUnit(p), Writes(p)
    PROVE  Writes(p)'
<1> SUFFICES ASSUME NEW t, t = tbl[p], NEW n, n = i[p]
             PROVE  Writes(p)'
    OBVIOUS
<1>1. PICK s \in Left(tbl[p], i[p]) :
         LET e == tbl[p].slots[s]
         IN  /\ \A r \in Left(tbl[p], i[p]) : s <= r
             /\ mem' = [mem EXCEPT ![pos[p]] = UnitOf(e, part[p])]
             /\ IF part[p] < Size[e.key]
                  THEN part' = [part EXCEPT ![p] = @ + 1] /\ UNCHANGED i
                  ELSE part' = [part EXCEPT ![p] = 1] /\ i' = [i EXCEPT ![p] = s]
    BY DEF DumpUnit
<1>2. UNCHANGED <<occ, tbl, mixed>> /\ pos' = [pos EXCEPT ![p] = @ + 1]
    BY DEF DumpUnit
<1> DEFINE e == t.slots[s]
<1>3. t \in Table /\ n \in Nat /\ part[p] \in 1..3 /\ mem \in [1..MaxUnits -> Units \cup {Blank}]
    BY DEF AddrTypeOK
<1>4. p \notin mixed /\ occ = t.occupied /\ n \in 0..Capacity
    BY DEF Writes
<1>5. Next1(t, n, s)
    BY <1>1 DEF Next1
<1>6. pos[p] \in 1..MaxUnits
    <2>1. pos[p] \in Nat /\ pos[p] >= 1 /\ pos'[p] = pos[p] + 1 /\ pos'[p] \in 1..(MaxUnits + 1)
        BY <1>2, SizeIsUnits DEF AddrTypeOK
    <2> QED
        BY <2>1, SizeIsUnits
<1>7. PICK f \in Places : WritesAt(p, f)
    BY DEF Writes
<1>8. /\ Laid(t, n, f) /\ pos[p] = f[n + 1] + (part[p] - 1)
      /\ Begun(t, n, f[n + 1], part[p])
    BY <1>7 DEF WritesAt
<1>9. /\ s \in Slots /\ s \in Nat /\ n < s /\ s \in Filled(t) /\ s <= Capacity
    BY <1>3, <1>5, PassEntry, TableAssumption DEF Slots
<1>10. Size[e.key] \in 2..3
    BY <1>3, <1>9, SizeIsUnits DEF Filled, Table, Entry
<1>11. mem' = [mem EXCEPT ![pos[p]] = UnitOf(e, part[p])]
    BY <1>1
<1>12. IF part[p] < Size[e.key]
         THEN part' = [part EXCEPT ![p] = part[p] + 1] /\ i' = i
         ELSE part' = [part EXCEPT ![p] = 1] /\ i' = [i EXCEPT ![p] = s]
    BY <1>1
<1>13. pos'[p] = pos[p] + 1 /\ tbl'[p] = t /\ occ' = occ /\ p \notin mixed'
    BY <1>2, <1>4 DEF AddrTypeOK
<1>14. f[n + 1] \in Nat \ {0} /\ \A x \in Nat : f[x] \in Nat \ {0}
    <2>1. n + 1 \in Nat
        BY <1>3
    <2> QED
        BY <2>1 DEF Places
<1>15. /\ \A c \in 1..(part[p] - 1) : mem[f[n + 1] + c - 1] = UnitOf(e, c)
       /\ part[p] <= Size[e.key]
    BY <1>5, <1>8 DEF Begun, Next1
<1> HIDE DEF e
\* The units of the entry up to the one that is written now are there,
<1>16. \A c \in 1..part[p] : mem'[f[n + 1] + c - 1] = UnitOf(e, c)
    <2> TAKE c \in 1..part[p]
    <2>1. CASE c = part[p]
        <3>1. f[n + 1] + c - 1 = pos[p]
            BY <1>3, <1>8, <1>14, <2>1
        <3> QED
            BY <1>3, <1>6, <1>11, <2>1, <3>1
    <2>2. CASE c # part[p]
        <3>1. c \in 1..(part[p] - 1)
            BY <1>3, <2>2
        <3>2. f[n + 1] + c - 1 # pos[p] /\ f[n + 1] + c - 1 \in 1..MaxUnits
            <4>1. c \in Nat /\ c >= 1 /\ c < part[p] /\ part[p] \in Nat
                BY <1>3, <3>1
            <4>2. f[n + 1] \in Nat /\ f[n + 1] >= 1 /\ pos[p] \in Nat /\ pos[p] <= MaxUnits
                BY <1>6, <1>14, SizeIsUnits
            <4>3. MaxUnits \in Nat /\ pos[p] = f[n + 1] + (part[p] - 1)
                BY <1>8, SizeIsUnits
            <4> QED
                BY <4>1, <4>2, <4>3
        <3> QED
            BY <1>3, <1>11, <1>15, <3>1, <3>2
    <2> QED
        BY <2>1, <2>2
\* and those of the entries before it.
<1>17. Laid(t, n, f)'
    <2>1. ASSUME NEW r \in Past(t, n), NEW d \in 1..Size[t.slots[r].key]
          PROVE  mem'[f[r] + d - 1] = mem[f[r] + d - 1]
        <3>1. r \in Nat /\ Size[t.slots[r].key] \in 2..3
            BY <1>3, PastAndLeft, SizeIsUnits DEF Past, Filled, Table, Entry
        <3>2. f[r + 1] = f[r] + Size[t.slots[r].key] /\ f[r + 1] <= f[n + 1]
            BY <1>8 DEF Laid
        <3>3. f[r] \in Nat \ {0} /\ f[r + 1] \in Nat
            BY <1>14, <3>1
        <3>4. f[n + 1] <= pos[p] /\ f[n + 1] \in Nat
            <4>1. part[p] \in Nat /\ part[p] >= 1
                BY <1>3
            <4> QED
                BY <1>8, <1>14, <4>1
        <3>5. f[r] + d - 1 \in Nat /\ f[r] + d - 1 >= 1 /\ f[r] + d - 1 < f[n + 1]
            <4>1. d \in Nat /\ d >= 1 /\ d <= Size[t.slots[r].key] /\ Size[t.slots[r].key] \in Nat
                BY <3>1
            <4> QED
                BY <3>2, <3>3, <3>4, <4>1
        <3>6. f[r] + d - 1 # pos[p] /\ f[r] + d - 1 \in 1..MaxUnits
            BY <1>6, <3>4, <3>5, SizeIsUnits
        <3> QED
            BY <1>3, <1>11, <3>6
    <2>2. \A r \in Past(t, n) : Whole(f[r], t.slots[r])'
        BY <1>8, <2>1 DEF Laid, Whole
    <2> QED
        BY <1>8, <2>2 DEF Laid
<1>18. CASE part[p] < Size[e.key]
    <2>1. part'[p] = part[p] + 1 /\ i'[p] = n
        BY <1>12, <1>18 DEF AddrTypeOK
    <2>2. pos'[p] = f[n + 1] + (part'[p] - 1)
        BY <1>3, <1>8, <1>13, <1>14, <2>1
    <2>3. Begun(t, n, f[n + 1], part[p])'
        <3> SUFFICES ASSUME NEW r \in Left(t, n), Next1(t, n, r) PROVE r = s
            <4>1. \A c \in 1..(part'[p] - 1) : mem'[f[n + 1] + c - 1] = UnitOf(e, c)
                BY <1>3, <1>16, <2>1
            <4>2. part'[p] <= Size[e.key]
                BY <1>3, <1>10, <1>18, <2>1
            <4> QED
                BY <4>1, <4>2 DEF Begun, UnitOf, e
        <3>1. r <= s /\ s <= r /\ r \in Nat
            BY <1>3, <1>5, <1>9, PastAndLeft, PassEntry DEF Next1
        <3> QED
            BY <1>9, <3>1
    <2>4. WritesAt(p, f)'
        BY <1>13, <1>17, <2>1, <2>2, <2>3 DEF WritesAt
    <2> QED
        BY <1>4, <1>13, <2>1, <2>4 DEF Writes
<1>19. CASE ~(part[p] < Size[e.key])
    <2>1. part[p] = Size[e.key]
        BY <1>3, <1>10, <1>15, <1>19
    <2>2. part'[p] = 1 /\ i'[p] = s
        BY <1>12, <1>19 DEF AddrTypeOK
    <2>3. PICK g \in Places : Laid(t, s, g)' /\ g[s + 1] = f[n + 1] + Size[e.key]
        <3>1. Whole(f[n + 1], t.slots[s])'
            BY <1>16, <2>1 DEF Whole, e
        <3>2. Past(t, s) = Past(t, n) \cup {s}
            BY <1>3, <1>5, PassEntry
        <3>3. f[n + 1] \in Nat /\ t \in Table /\ n \in Nat
            BY <1>3, <1>14
        <3>4. \E g \in Places : Laid(t, s, g)' /\ g[s + 1] = f[n + 1] + Size[t.slots[s].key]
            BY <1>9, <1>17, <3>1, <3>2, <3>3, LayEntry
        <3> QED
            BY <3>4 DEF e
    <2>4. pos'[p] = g[s + 1] + (1 - 1)
        BY <1>3, <1>8, <1>13, <1>14, <2>1, <2>3
    <2>5. Begun(t, s, g[s + 1], 1)'
        <3> SUFFICES ASSUME NEW r \in Left(t, s) PROVE 1 <= Size[t.slots[r].key]
            BY DEF Begun
        <3>1. t.slots[r] \in Entry
            BY <1>3, <1>9, LeftIsAhead
        <3> QED
            BY <3>1, SizeIsUnits DEF Entry
    <2>6. WritesAt(p, g)'
        BY <1>13, <2>2, <2>3, <2>4, <2>5 DEF WritesAt
    <2>7. s \in 0..Capacity
        BY <1>9, TableAssumption
    <2> QED
        BY <1>4, <1>13, <2>2, <2>3, <2>6, <2>7 DEF Writes
<1> QED
    BY <1>18, <1>19

LEMMA DumpUnitKeeps ==
    ASSUME AddrInv, AddrInv', LoadInv, NEW p \in Procs, DumpUnit(p)
    PROVE  LoadInv'
<1>1. /\ pc[p] = "write" /\ UNCHANGED <<occ, pc, tbl, torn, mixed>>
    BY DEF DumpUnit
<1>2. Loading' = Loading /\ Writing' = Writing /\ p \in Writing
    BY <1>1 DEF Loading, Writing
<1>3. CountInv'
    BY <1>1 DEF LoadInv, CountInv, GoodTable, Honest, Counted, Filled
<1>4. WriterInv'
    <2> SUFFICES ASSUME ~torn', NEW q \in Writing' PROVE Writes(q)' /\ Writing' = {q}
        BY DEF WriterInv
    <2>1. q = p /\ Writes(p) /\ Writing = {p}
        BY <1>1, <1>2 DEF LoadInv, WriterInv
    <2> QED
        BY <1>2, <2>1, UnitWrites DEF AddrInv
<1>5. Loading' = {} /\ Writing' # {}
    BY <1>2 DEF LoadInv, ApartInv
<1> QED
    BY <1>3, <1>4, <1>5 DEF LoadInv, ApartInv, HoldsInv

\* What was written to its end is what the region holds.
LEMMA ClearBusyKeeps ==
    ASSUME AddrInv, LoadInv, NEW p \in Procs, ClearBusy(p)
    PROVE  LoadInv'
<1>1. /\ pc[p] = "write" /\ Left(tbl[p], i[p]) = {} /\ dumped' = Content(tbl[p])
      /\ pc' = [pc EXCEPT ![p] = "ready"]
      /\ UNCHANGED <<version, occ, mem, tbl, pos, i, part, torn, mixed>>
    BY DEF ClearBusy, Goto
<1>2. pc'[p] = "ready" /\ \A q \in Procs \ {p} : pc'[q] = pc[q]
    BY <1>1 DEF AddrInv, AddrTypeOK
<1>3. Loading' = Loading /\ Writing' = Writing \ {p} /\ p \in Writing
    BY <1>1, <1>2 DEF Loading, Writing
<1>4. Loading' = {}
    BY <1>3 DEF LoadInv, ApartInv
<1>5. CountInv'
    <2>1. \A q \in Procs : q \notin mixed' /\ pc'[q] \notin {"load", "died"} => GoodTable(tbl'[q])
        BY <1>1, <1>2 DEF LoadInv, CountInv
    <2> QED
        BY <2>1 DEF CountInv, GoodTable, Honest, Counted, Filled
<1>6. ~torn => Writing' = {}
    BY <1>3 DEF LoadInv, WriterInv
<1>7. WriterInv' /\ ApartInv'
    BY <1>1, <1>4, <1>6 DEF WriterInv, ApartInv
<1>8. HoldsInv'
    <2> SUFFICES ASSUME ~torn PROVE Holds'
        BY <1>1, <1>4 DEF HoldsInv
    <2>1. Writes(p)
        BY <1>3 DEF LoadInv, WriterInv
    <2> DEFINE t == tbl[p]
               n == i[p]
    <2>2. PICK f \in Places : WritesAt(p, f)
        BY <2>1 DEF Writes
    <2>3. p \notin mixed /\ occ = t.occupied /\ n \in 0..Capacity /\ Laid(t, n, f)
        BY <2>1, <2>2 DEF Writes, WritesAt
    <2>4. t \in Table /\ Sound(t) /\ Counted(t) /\ Honest(t)
        BY <1>1, <2>3 DEF AddrInv, AddrTypeOK, TablesInv, LoadInv, CountInv, GoodTable
    <2>7. f[n + 1] <= MaxUnits + 1
        <3>1. f[n + 1] \in Nat
            BY <2>3, TableAssumption DEF Places
        <3>2. /\ pos[p] = f[n + 1] + (part[p] - 1)
              /\ pos[p] \in 1..(MaxUnits + 1) /\ part[p] \in 1..3
            BY <2>2 DEF WritesAt, AddrInv, AddrTypeOK
        <3> QED
            BY <3>1, <3>2, SizeIsUnits
    <2> SUFFICES ASSUME NEW tt, tt = t, NEW nn, nn = n PROVE Holds'
        OBVIOUS
    <2>5. Laid(tt, nn, f)'
        BY <1>1, <2>3 DEF Laid, Whole
    <2>6. RegionHas(tt, nn, f)'
        BY <1>1, <1>4, <2>3, <2>4, <2>5, <2>7 DEF RegionHas
    <2> QED
        BY <2>3, <2>4, <2>6 DEF Holds
<1> QED
    BY <1>5, <1>7, <1>8 DEF LoadInv

LEMMA LoadStepInv ==
    ASSUME AddrInv, AddrInv', LoadInv, [Next]_vars
    PROVE  LoadInv'
<1>1. CASE Next
    <2>1. PICK p \in Procs :
             \/ StartPrivate(p) \/ StartLoad(p) \/ LoadEntry(p) \/ LoadJunk(p) \/ Loaded(p)
             \/ \E h \in Keys : Lookup(p, h) \/ Resolve(p, h)
             \/ TestBusy(p) \/ SetBusy(p) \/ DumpHead(p) \/ DumpUnit(p) \/ ClearBusy(p)
             \/ Exit(p) \/ Kill(p)
        BY <1>1 DEF Next
    <2> QED
        BY <2>1, StartPrivateKeeps, StartLoadKeeps, LoadEntryKeeps, LoadEndKeeps, GetKeeps,
           BusyKeeps, DumpHeadKeeps, DumpUnitKeeps, ClearBusyKeeps, EndKeeps
<1>2. CASE UNCHANGED vars
    <2>1. UNCHANGED <<version, occ, mem, pc, tbl, pos, i, part, dumped, torn, mixed>>
        BY <1>2 DEF vars, region
    <2>2. Loading' = Loading /\ Writing' = Writing
        BY <2>1 DEF Loading, Writing
    <2>3. CountInv' /\ ApartInv'
        BY <2>1, <2>2 DEF LoadInv, CountInv, ApartInv, GoodTable, Honest, Counted, Filled
    <2>4. WriterInv'
        <3> SUFFICES ASSUME ~torn', NEW q \in Writing' PROVE Writes(q)' /\ Writing' = {q}
            BY DEF WriterInv
        <3>1. Writes(q) /\ Writing = {q}
            BY <2>1, <2>2 DEF LoadInv, WriterInv
        <3>2. q \notin mixed'
            BY <2>1, <3>1 DEF Writes
        <3> QED
            BY <2>1, <2>2, <3>1, <3>2, WritesStays
    <2>5. HoldsInv'
        <3> SUFFICES ASSUME Holds PROVE Holds'
            BY <2>1, <2>2 DEF LoadInv, HoldsInv
        <3> QED
            BY <2>1, <2>2, HoldsStays
    <2> QED
        BY <2>3, <2>4, <2>5 DEF LoadInv
<1> QED
    BY <1>1, <1>2

LEMMA LoadInitInv == Init => LoadInv
<1> SUFFICES ASSUME Init PROVE LoadInv
    OBVIOUS
<1>1. /\ Loading = {} /\ Writing = {} /\ ~version
      /\ \A p \in Procs : tbl[p] = Empty
    BY DEF Init, Loading, Writing
<1>2. CountInv
    BY <1>1, EmptyCounts DEF CountInv
<1> QED
    BY <1>1, <1>2 DEF LoadInv, WriterInv, ApartInv, HoldsInv

\* Every step keeps what processes that did not load a mixed region were given right.
LEMMA AddressStep ==
    ASSUME AddrInv, LoadInv, AddressIsOfHost, [Next]_vars
    PROVE  AddressIsOfHost'
<1>0. /\ pc \in [Procs -> {"off", "load", "ready", "test", "set", "head", "write", "died"}]
      /\ tbl \in [Procs -> Table] /\ FreshInv /\ NoKey \notin Keys
      /\ want \in [Procs -> Keys \cup {NoKey}] /\ used \in [Procs -> Keys \cup {NoKey}]
    BY TableAssumption DEF AddrInv, AddrTypeOK
<1> SUFFICES ASSUME NEW q \in Procs, q \notin mixed'
             PROVE  used'[q] = want'[q] \/ Full(tbl'[q], want'[q])
    BY DEF AddressIsOfHost, Full, Stops
<1>1. CASE tbl'[q] = tbl[q] /\ want'[q] = want[q] /\ used'[q] = used[q] /\ q \notin mixed
    BY <1>1 DEF AddressIsOfHost
<1>2. CASE UNCHANGED vars
    BY <1>1, <1>2 DEF vars
<1>3. ASSUME NEW p \in Procs, StartPrivate(p) \/ StartLoad(p) \/ LoadEntry(p)
      PROVE  used'[q] = want'[q] \/ Full(tbl'[q], want'[q])
    <2>1. UNCHANGED <<want, used>> /\ pc[p] \in {"off", "load"}
        BY <1>3 DEF StartPrivate, StartLoad, LoadEntry
    <2>2. CASE q = p
        BY <1>0, <2>1, <2>2 DEF FreshInv
    <2>3. CASE q # p
        BY <1>0, <1>1, <1>3, <2>1, <2>3 DEF StartPrivate, StartLoad, LoadEntry
    <2> QED
        BY <2>2, <2>3
<1>4. ASSUME NEW p \in Procs,
             \/ LoadJunk(p) \/ Loaded(p) \/ TestBusy(p) \/ SetBusy(p)
             \/ DumpHead(p) \/ DumpUnit(p) \/ ClearBusy(p)
      PROVE  used'[q] = want'[q] \/ Full(tbl'[q], want'[q])
    <2>1. UNCHANGED <<tbl, want, used>> /\ mixed \subseteq mixed'
        BY <1>4 DEF LoadJunk, Loaded, TestBusy, SetBusy, DumpHead, DumpUnit, ClearBusy
    <2> QED
        BY <1>1, <2>1
<1>5. ASSUME NEW p \in Procs, Exit(p) \/ Kill(p)
      PROVE  used'[q] = want'[q] \/ Full(tbl'[q], want'[q])
    <2>1. /\ tbl' = [tbl EXCEPT ![p] = Empty] /\ mixed' = mixed
          /\ want' = [want EXCEPT ![p] = NoKey] /\ used' = [used EXCEPT ![p] = NoKey]
        BY <1>5 DEF Exit, Kill, Destroy
    <2> QED
        BY <1>0, <1>1, <2>1
<1>6. ASSUME NEW p \in Procs, NEW h \in Keys, Resolve(p, h)
      PROVE  used'[q] = want'[q] \/ Full(tbl'[q], want'[q])
    <2>1. /\ want' = [want EXCEPT ![p] = h] /\ used' = [used EXCEPT ![p] = h]
          /\ mixed' = mixed
        BY <1>6 DEF Resolve
    <2>2. q # p => tbl'[q] = tbl[q]
        BY <1>0, <1>6 DEF Resolve
    <2> QED
        BY <1>0, <1>1, <2>1, <2>2
<1>7. ASSUME NEW p \in Procs, NEW h \in Keys, Lookup(p, h)
      PROVE  used'[q] = want'[q] \/ Full(tbl'[q], want'[q])
    <2>1. /\ want' = [want EXCEPT ![p] = h] /\ EntryGet(tbl[p], h) # NoKey
          /\ used' = [used EXCEPT ![p] = EntryGet(tbl[p], h)]
          /\ UNCHANGED <<tbl, mixed>> /\ pc[p] = "ready"
        BY <1>7 DEF Lookup
    <2>2. CASE q = p
        <3>1. Honest(tbl[p])
            BY <2>1, <2>2 DEF LoadInv, CountInv, GoodTable
        <3>2. EntryGet(tbl[p], h) = h \/ Full(tbl[p], h)
            BY <1>0, <2>1, <3>1, GetIsRight
        <3> QED
            BY <1>0, <2>1, <2>2, <3>2
    <2>3. CASE q # p
        BY <1>0, <1>1, <2>1, <2>3
    <2> QED
        BY <2>2, <2>3
<1> QED
    BY <1>2, <1>3, <1>4, <1>5, <1>6, <1>7 DEF Next

\* A host is connected to at its own address, unless the table has no slot left for it,
\* by every process that loaded a region to which nobody was dumping, and to which dumps
\* neither overlapped nor were cut short; for every table, hash function and sizes of the
\* entries (connection_get, hash_table_entry_get, dump_hash_table).
THEOREM AddressesAreRight == Spec => []AddressIsOfHost
<1>1. Init => AddressIsOfHost
    BY DEF Init, AddressIsOfHost
<1>2. AddrInv /\ AddrInv' /\ LoadInv /\ [Next]_vars => LoadInv'
    BY LoadStepInv
<1>3. AddrInv /\ LoadInv /\ AddressIsOfHost /\ [Next]_vars => AddressIsOfHost'
    BY AddressStep
<1> QED
    BY <1>1, <1>2, <1>3, LoadInitInv, AddrInvariant, PTL DEF Spec

\* A process that loads while nobody dumps, and after dumps of whole tables that neither
\* overlapped nor were cut short, gets what was dumped last, for every table, hash function
\* and sizes of the entries (dump_hash_table, hash_table_create_from_buffer).
THEOREM LoadsAreExact == Spec => LoadsWhatWasDumped
<1> DEFINE Exact ==
        \A p \in Procs :
            pc[p] = "load" /\ pc'[p] = "ready" /\ p \notin mixed => Content(tbl[p]) = dumped
<1>1. ASSUME AddrInv, LoadInv, [Next]_vars PROVE Exact
    <2> SUFFICES ASSUME NEW p \in Procs, pc[p] = "load", pc'[p] = "ready", p \notin mixed
                 PROVE  Content(tbl[p]) = dumped
        BY <1>1
    <2>1. Loaded(p)
        <3>1. pc' # pc
            BY <1>1 DEF AddrInv, AddrTypeOK
        <3>2. PICK q \in Procs :
                 \/ StartPrivate(q) \/ StartLoad(q) \/ LoadEntry(q) \/ LoadJunk(q) \/ Loaded(q)
                 \/ \E h \in Keys : Lookup(q, h) \/ Resolve(q, h)
                 \/ TestBusy(q) \/ SetBusy(q) \/ DumpHead(q) \/ DumpUnit(q) \/ ClearBusy(q)
                 \/ Exit(q) \/ Kill(q)
            BY <1>1, <3>1 DEF Next, vars
        <3>3. pc \in [Procs -> {"off", "load", "ready", "test", "set", "head", "write", "died"}]
            BY <1>1 DEF AddrInv, AddrTypeOK
        <3>4. CASE q # p
            <4>1. pc'[p] = pc[p]
                BY <3>2, <3>3, <3>4
                   DEF StartPrivate, StartLoad, LoadEntry, LoadJunk, Loaded, Lookup, Resolve,
                       TestBusy, SetBusy, DumpHead, DumpUnit, ClearBusy, Exit, Kill, Goto
            <4> QED
                BY <4>1
        <3>5. CASE q = p
            BY <3>2, <3>3, <3>5
               DEF StartPrivate, StartLoad, LoadEntry, LoadJunk, Loaded, Lookup, Resolve,
                   TestBusy, SetBusy, DumpHead, DumpUnit, ClearBusy, Exit, Kill, Goto
        <3> QED
            BY <3>4, <3>5
    <2>2. i[p] >= tbl[p].occupied /\ p \in Loading
        BY <2>1 DEF Loaded, Loading
    <2> QED
        BY <1>1, <2>2, WholeIsRead DEF AddrInv
<1>2. AddrInv /\ AddrInv' /\ LoadInv /\ [Next]_vars => LoadInv'
    BY LoadStepInv
<1>3. AddrInv /\ LoadInv /\ [Next]_vars => [Exact]_vars
    BY <1>1
<1> QED
    BY <1>2, <1>3, LoadInitInv, AddrInvariant, PTL DEF Spec, LoadsWhatWasDumped
===============================================================================
