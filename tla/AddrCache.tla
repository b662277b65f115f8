------------------------------ MODULE AddrCache -------------------------------
(***************************************************************************)
(* The cache of host addresses that the processes of one user share: each  *)
(* loads its hash table from a region of shared memory, looks up and adds  *)
(* the addresses of hosts in it, and dumps it back (connection_get in      *)
(* src/src/lib/connection.c; dump_hash_table and                           *)
(* hash_table_create_from_buffer in src/src/lib/data_utlis.c).             *)
(*                                                                         *)
(* Nothing keeps the processes from using the region at the same time but  *)
(* the flag busy, which writers test and then set, and readers ignore.  An *)
(* entry takes some units of the region: those of its name, more for a     *)
(* longer one, and one of its address, which all have the same length.  It *)
(* is written unit by unit, so that a name may be found before the address *)
(* of another host.  The address of a host is written as the host.         *)
(***************************************************************************)
EXTENDS HashTable

CONSTANTS
    Procs,
    Size,       \* units of an entry: one or two of its name, then that of its address
    MaxStarts,  \* bound: processes started
    MaxGets,    \* bound: addresses looked up
    MaxKills    \* bound: processes killed

MaxUnits == 3 * Capacity

ASSUME CacheAssumption ==
    /\ Size \in [Keys -> 2..3]
    /\ MaxStarts \in Nat /\ MaxGets \in Nat /\ MaxKills \in Nat

\* Unit d of an entry: key_len and the key in one or two parts, then val_len and val.
UnitOf(e, d) ==
    IF d < Size[e.key] THEN [key |-> e.key, val |-> NoKey, nr |-> d]
                       ELSE [key |-> NoKey, val |-> e.val, nr |-> 3]

Units == [key : Keys \cup {NoKey}, val : Keys \cup {NoKey}, nr : 1..3]
Blank == [key |-> NoKey, val |-> NoKey, nr |-> 3]

VARIABLES
    busy,     \* the region: its flag,
    version,  \* whether there is a version number in it,
    occ,      \* the number of entries it is said to hold,
    mem,      \* and what follows
    pc,       \* "off" | "load" | "ready" | "test" | "set" | "head" | "write"
              \* | "died" (assertion, wild read or double free)
    tbl,      \* addr_cache
    pos,      \* position in the region where a process reads or writes
    i,        \* the loop counter of hash_table_create_from_buffer or dump_hash_table
    part,     \* the unit of an entry that is written next
    shared,   \* shm_rptr is set
    want,     \* the host of the last connection_get, or NoKey
    used,     \* the address it was given from the cache, or NoKey
    starts, gets, kills,
    dumped,   \* history: the content of the last dump that was completed
    torn,     \* history: two dumps overlapped, one was cut short, or one was of a table
              \* that had been loaded from what another dump was overwriting
    mixed     \* history: processes that loaded while a dump was going on or after such

region == <<busy, version, occ, mem>>
bounds == <<starts, gets, kills>>
vars == <<region, pc, tbl, pos, i, part, shared, want, used, bounds, dumped, torn, mixed>>

Init ==
    /\ busy = FALSE /\ version = FALSE /\ occ = 0 /\ mem = [u \in 1..MaxUnits |-> Blank]
    /\ pc = [p \in Procs |-> "off"] /\ tbl = [p \in Procs |-> Empty]
    /\ pos = [p \in Procs |-> 1] /\ i = [p \in Procs |-> 0]
    /\ part = [p \in Procs |-> 1] /\ shared = {}
    /\ want = [p \in Procs |-> NoKey] /\ used = [p \in Procs |-> NoKey]
    /\ starts = 0 /\ gets = 0 /\ kills = 0
    /\ dumped = {} /\ torn = FALSE /\ mixed = {}

Dumping == {p \in Procs : pc[p] \in {"head", "write"}}
Goto(p, l) == pc' = [pc EXCEPT ![p] = l]

-------------------------------------------------------------------------------
(* The first connection_get of a process: the table is loaded.             *)

\* Without a region, or when the user bypasses the cache, the table is private; a
\* region without a version holds nothing yet.
StartPrivate(p) ==
    /\ pc[p] = "off" /\ starts < MaxStarts /\ starts' = starts + 1
    /\ \/ shared' = shared \ {p}
       \/ ~version /\ shared' = shared \cup {p}
    /\ tbl' = [tbl EXCEPT ![p] = Empty]
    /\ mixed' = mixed \ {p}
    /\ Goto(p, "ready")
    /\ UNCHANGED <<region, pos, i, part, want, used, gets, kills, dumped, torn>>

\* hash_table_create_from_buffer begins.  occupied is what the header says.
StartLoad(p) ==
    /\ pc[p] = "off" /\ starts < MaxStarts /\ starts' = starts + 1
    /\ version
    /\ shared' = shared \cup {p}
    /\ tbl' = [tbl EXCEPT ![p] = [Empty EXCEPT !.occupied = occ]]
    /\ pos' = [pos EXCEPT ![p] = 1] /\ i' = [i EXCEPT ![p] = 0]
    /\ mixed' = IF torn \/ Dumping # {} THEN mixed \cup {p} ELSE mixed \ {p}
    /\ Goto(p, "load")
    /\ UNCHANGED <<region, part, want, used, gets, kills, dumped, torn>>

\* The entry that is read at position u: a whole name, and the address behind it, which
\* need not be of the same dump.
EntryAt(u, k, v) ==
    /\ u + Size[k] - 1 <= MaxUnits
    /\ \A d \in 1..Size[k] : mem[u + d - 1] = UnitOf([key |-> k, val |-> v], d)

\* One turn of its loop.  occupied is changed back, also when nothing was inserted.  (It
\* is one step: what is mixed is so by the writers.)
LoadEntry(p) ==
    /\ pc[p] = "load" /\ i[p] < tbl[p].occupied
    /\ i' = [i EXCEPT ![p] = @ + 1]
    /\ \E k, v \in Keys :
          /\ EntryAt(pos[p], k, v)
          /\ tbl' = [tbl EXCEPT ![p] = [Insert(tbl[p], k, v) EXCEPT !.occupied = @ - 1]]
          /\ pos' = [pos EXCEPT ![p] = @ + Size[k]]
    /\ UNCHANGED <<region, pc, part, shared, want, used, bounds, dumped, torn, mixed>>

\* What is there is no entry of a host, but zeros, a name without an address, or parts of
\* several.  It is passed with the lengths that it seems to have, and put into the table
\* under a name that nobody asks for (the slot that it takes there is left out); or the
\* lengths are none, and reading goes astray.
LoadJunk(p) ==
    /\ pc[p] = "load" /\ i[p] < tbl[p].occupied
    /\ \A k, v \in Keys : ~EntryAt(pos[p], k, v)
    /\ \/ /\ \E u \in pos[p]..(pos[p] + 3) :
                u <= MaxUnits + 1 /\ pos' = [pos EXCEPT ![p] = u]
          /\ i' = [i EXCEPT ![p] = @ + 1]
          /\ UNCHANGED pc
       \/ Goto(p, "died") /\ UNCHANGED <<pos, i>>
    /\ UNCHANGED <<region, tbl, part, shared, want, used, bounds, dumped, torn, mixed>>

Loaded(p) ==
    /\ pc[p] = "load" /\ i[p] >= tbl[p].occupied
    /\ Goto(p, "ready")
    /\ UNCHANGED <<region, tbl, pos, i, part, shared, want, used, bounds, dumped,
                   torn, mixed>>

-------------------------------------------------------------------------------
(* connection_get                                                          *)

\* The cache has an address for the host, and it is connected to.
Lookup(p, h) ==
    /\ pc[p] = "ready" /\ gets < MaxGets /\ gets' = gets + 1
    /\ EntryGet(tbl[p], h) # NoKey
    /\ want' = [want EXCEPT ![p] = h]
    /\ used' = [used EXCEPT ![p] = EntryGet(tbl[p], h)]
    /\ UNCHANGED <<region, pc, tbl, pos, i, part, shared, starts, kills, dumped,
                   torn, mixed>>

\* Mutant: whether there is a region is not asked.
ResolveAndDump(p, h) ==
    /\ pc[p] = "ready" /\ gets < MaxGets /\ gets' = gets + 1
    /\ want' = [want EXCEPT ![p] = h] /\ used' = [used EXCEPT ![p] = h]
    /\ IF Full(tbl[p], h)
         THEN Goto(p, "died") /\ UNCHANGED tbl
         ELSE tbl' = [tbl EXCEPT ![p] = Update(tbl[p], h, h)] /\ Goto(p, "test")
    /\ UNCHANGED <<region, pos, i, part, shared, starts, kills, dumped, torn, mixed>>

\* There is none, it cannot be connected to, or the user wants a fresh one: the name
\* is resolved and the table updated.
Resolve(p, h) ==
    /\ pc[p] = "ready" /\ gets < MaxGets /\ gets' = gets + 1
    /\ want' = [want EXCEPT ![p] = h] /\ used' = [used EXCEPT ![p] = h]
    /\ IF Full(tbl[p], h)
         THEN Goto(p, "died") /\ UNCHANGED tbl
         ELSE /\ tbl' = [tbl EXCEPT ![p] = Update(tbl[p], h, h)]
              /\ Goto(p, IF p \in shared THEN "test" ELSE "ready")
    /\ UNCHANGED <<region, pos, i, part, shared, starts, kills, dumped, torn, mixed>>

\* Only a region that is not busy is written ...
TestBusy(p) ==
    /\ pc[p] = "test"
    /\ Goto(p, IF busy THEN "ready" ELSE "set")
    /\ UNCHANGED <<region, tbl, pos, i, part, shared, want, used, bounds, dumped,
                   torn, mixed>>

\* ... and then it is.
SetBusy(p) ==
    /\ pc[p] = "set"
    /\ busy' = TRUE
    /\ Goto(p, "head")
    /\ UNCHANGED <<version, occ, mem, tbl, pos, i, part, shared, want, used, bounds,
                   dumped,
                   torn, mixed>>

\* Mutant: the entry that was just added is not counted.
DumpHeadLate(p) ==
    /\ pc[p] = "head"
    /\ version' = TRUE /\ occ' = tbl[p].occupied - 1
    /\ pos' = [pos EXCEPT ![p] = 1] /\ i' = [i EXCEPT ![p] = 0]
    /\ part' = [part EXCEPT ![p] = 1]
    /\ torn' = (torn \/ Dumping # {p} \/ p \in mixed)
    /\ mixed' = mixed \cup {r \in Procs : pc[r] = "load"}
    /\ Goto(p, "write")
    /\ UNCHANGED <<busy, mem, tbl, shared, want, used, bounds, dumped>>

\* dump_hash_table: the header.
DumpHead(p) ==
    /\ pc[p] = "head"
    /\ version' = TRUE /\ occ' = tbl[p].occupied
    /\ pos' = [pos EXCEPT ![p] = 1] /\ i' = [i EXCEPT ![p] = 0]
    /\ part' = [part EXCEPT ![p] = 1]
    /\ torn' = (torn \/ Dumping # {p} \/ p \in mixed)
    /\ mixed' = mixed \cup {r \in Procs : pc[r] = "load"}
    /\ Goto(p, "write")
    /\ UNCHANGED <<busy, mem, tbl, shared, want, used, bounds, dumped>>

\* The entries that its loop has still to write when it is past slot n.
Left(t, n) == {s \in Slots : s > n /\ t.slots[s] # Open}

\* Its loop: the entries in the order of their slots, each unit by unit.
DumpUnit(p) ==
    /\ pc[p] = "write"
    /\ \E s \in Left(tbl[p], i[p]) :
          LET e == tbl[p].slots[s]
          IN  /\ \A r \in Left(tbl[p], i[p]) : s <= r
              /\ mem' = [mem EXCEPT ![pos[p]] = UnitOf(e, part[p])]
              /\ IF part[p] < Size[e.key]
                   THEN part' = [part EXCEPT ![p] = @ + 1] /\ UNCHANGED i
                   ELSE part' = [part EXCEPT ![p] = 1] /\ i' = [i EXCEPT ![p] = s]
    /\ pos' = [pos EXCEPT ![p] = @ + 1]
    /\ UNCHANGED <<busy, version, occ, pc, tbl, shared, want, used, bounds, dumped,
                   torn,
                   mixed>>

ClearBusy(p) ==
    /\ pc[p] = "write" /\ Left(tbl[p], i[p]) = {}
    /\ busy' = FALSE
    /\ dumped' = Content(tbl[p])
    /\ Goto(p, "ready")
    /\ UNCHANGED <<version, occ, mem, tbl, pos, i, part, shared, want, used, bounds,
                   torn, mixed>>

-------------------------------------------------------------------------------
\* hash_table_destroy, or what the kernel does with the memory of a process.
Destroy(p) == tbl' = [tbl EXCEPT ![p] = Empty]

\* A process ends ...
Exit(p) ==
    /\ pc[p] = "ready"
    /\ Goto(p, "off")
    /\ Destroy(p)
    /\ want' = [want EXCEPT ![p] = NoKey] /\ used' = [used EXCEPT ![p] = NoKey]
    /\ UNCHANGED <<region, pos, i, part, shared, bounds, dumped, torn, mixed>>

\* ... or is killed.  If it was dumping, the region stays as it is, and busy.
Kill(p) ==
    /\ pc[p] \notin {"off", "died"} /\ kills < MaxKills /\ kills' = kills + 1
    /\ torn' = (torn \/ p \in Dumping)
    /\ Goto(p, "off")
    /\ Destroy(p)
    /\ want' = [want EXCEPT ![p] = NoKey] /\ used' = [used EXCEPT ![p] = NoKey]
    /\ UNCHANGED <<region, pos, i, part, shared, starts, gets, dumped, mixed>>

Next ==
    \E p \in Procs :
        \/ StartPrivate(p) \/ StartLoad(p) \/ LoadEntry(p) \/ LoadJunk(p) \/ Loaded(p)
        \/ \E h \in Keys : Lookup(p, h) \/ Resolve(p, h)
        \/ TestBusy(p) \/ SetBusy(p) \/ DumpHead(p) \/ DumpUnit(p) \/ ClearBusy(p)
        \/ Exit(p) \/ Kill(p)

Spec == Init /\ [][Next]_vars

-------------------------------------------------------------------------------
(* Properties.                                                             *)

\* The type invariant; only a process that mapped the region writes it.
AddrTypeOK ==
    /\ busy \in BOOLEAN /\ version \in BOOLEAN /\ occ \in Nat
    /\ mem \in [1..MaxUnits -> Units \cup {Blank}]
    /\ tbl \in [Procs -> Table]
    /\ \A p \in Procs : tbl[p].occupied \in Nat
    /\ pc \in [Procs -> {"off", "load", "ready", "test", "set", "head", "write", "died"}]
    /\ pos \in [Procs -> 1..(MaxUnits + 1)] /\ i \in [Procs -> Nat]
    /\ part \in [Procs -> 1..3]
    /\ \A p \in Procs : pc[p] \in {"test", "set", "head", "write"} => p \in shared
    /\ shared \subseteq Procs /\ mixed \subseteq Procs /\ torn \in BOOLEAN
    /\ want \in [Procs -> Keys \cup {NoKey}] /\ used \in [Procs -> Keys \cup {NoKey}]

\* Every entry of a table is in one slot, where a search for it ends, also in a table
\* that was loaded from a region that others wrote (hash_table_insert, _update).
TablesAreSound == \A p \in Procs : Sound(tbl[p])

\* A process that loads while nobody dumps, and after dumps of whole tables that neither
\* overlapped nor were cut short, gets what was dumped last, whatever its slots were
\* (dump_hash_table, hash_table_create_from_buffer).
LoadsWhatWasDumped ==
    [][\A p \in Procs :
          pc[p] = "load" /\ pc'[p] = "ready" /\ p \notin mixed
             => Content(tbl[p]) = dumped]_vars

\* The address that a host is connected to is its own, unless the table has no slot left
\* for it, or was loaded from a region that was being dumped to or was dumped to by two,
\* directly or by way of others that dumped what they had loaded from such a region
\* (connection_get, hash_table_entry_get).
AddressIsOfHost ==
    \A p \in Procs \ mixed : used[p] = want[p] \/ Full(tbl[p], want[p])

\* "Only update cache to shm when it is not used by others", and "it does not hurt much if
\* one or two cache is missing" (connection.c:356-358): whatever dumps lose, no host is
\* connected to at the address of another.  The code does not keep this.
AddressIsAlwaysOfHost ==
    \A p \in Procs : used[p] = want[p] \/ Full(tbl[p], want[p])
===============================================================================
