------------------------------ MODULE HashTable -------------------------------
(***************************************************************************)
(* The hash table of src/src/lib/data_utlis.c: open addressing without     *)
(* deletion.  A key is probed for from its hash to the last slot, without  *)
(* going round.                                                            *)
(***************************************************************************)
EXTENDS Integers, FiniteSets

CONSTANTS
    Keys,
    Capacity,   \* slots
    Hash,       \* what StringHashFunction makes of the characters of a key
    NoKey       \* the key of a slot that is open

Slots == 1..Capacity

ASSUME TableAssumption ==
    /\ Capacity \in Nat \ {0}
    /\ Hash \in [Keys -> Nat]
    /\ NoKey \notin Keys

\* The slots of a table; the value of an entry is NULL in an open slot.
Entry == [key : Keys, val : Keys]
Open == [key |-> NoKey, val |-> NoKey]
Table == [slots : [Slots -> Entry \cup {Open}], occupied : Int]

\* hash_table_create
Empty == [slots |-> [i \in Slots |-> Open], occupied |-> 0]

\* The slot where the search for a key begins: the end of StringHashFunction.
Home(k) == 1 + (Hash[k] % Capacity)

Probe(k) == Home(k)..Capacity

\* Where the search for k stops: at k or at an open slot.
Stops(t, k) == {i \in Probe(k) : t.slots[i].key \in {k, NoKey}}
Slot(t, k) == CHOOSE i \in Stops(t, k) : \A l \in Stops(t, k) : i <= l

\* No slot is left for k.
Full(t, k) == Stops(t, k) = {}

Fill(t, i, k, v) == [t EXCEPT !.slots[i] = [key |-> k, val |-> v]]

\* hash_table_insert: a key that is there is left as it is.
Insert(t, k, v) ==
    IF Full(t, k) \/ t.slots[Slot(t, k)].key = k
      THEN t
      ELSE [Fill(t, Slot(t, k), k, v) EXCEPT !.occupied = @ + 1]

\* Mutant: the last open slot is taken.
UpdateLastOpen(t, k, v) ==
    LET i == CHOOSE s \in Stops(t, k) : \A l \in Stops(t, k) : s >= l
    IN  [Fill(t, i, k, v) EXCEPT !.occupied = IF t.slots[i].key = k THEN @ ELSE @ + 1]

\* hash_table_update of a table that is not full for k.  (One that is evicts the oldest
\* entry, and frees its key twice.)
Update(t, k, v) ==
    LET i == Slot(t, k)
    IN  [Fill(t, i, k, v) EXCEPT !.occupied = IF t.slots[i].key = k THEN @ ELSE @ + 1]

\* Mutant: the slot where the search begins is not compared.
EntryGetHome(t, k) == t.slots[Home(k)].val

\* hash_table_entry_get: the entry the search ends at, which is the last one of the
\* table when there is neither k nor an open slot.
EntryGet(t, k) == IF Full(t, k) THEN t.slots[Capacity].val ELSE t.slots[Slot(t, k)].val

\* The keys and values that a table holds.
Content(t) == {t.slots[i] : i \in Slots} \ {Open}

\* Every key is in one slot only, and a search finds it there.
Sound(t) ==
    \A i \in Slots : t.slots[i].key # NoKey =>
        ~Full(t, t.slots[i].key) /\ Slot(t, t.slots[i].key) = i
===============================================================================
