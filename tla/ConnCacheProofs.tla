--------------------------- MODULE ConnCacheProofs ---------------------------
(***************************************************************************)
(* The descriptors of ConnCache for any number of connections, descriptors,*)
(* requests and faults and every limit of the cache, also after a          *)
(* connection was put into the cache twice; and its lists until then.      *)
(***************************************************************************)
EXTENDS ConnCache, FiniteSetTheorems, WellFoundedInduction, TLAPS

\* The socket of a connection, live or freed, is open, and it is the socket of no other.
SocketsInv ==
    /\ \A c \in Conns : fd[c] # Closed => fd[c] \in opened
    /\ \A c, d \in Conns : c # d /\ fd[c] = fd[d] => fd[c] = Closed

CacheInv == CacheTypeOK /\ SocketsInv

-------------------------------------------------------------------------------
LEMMA CacheNumbers ==
    /\ MaxConns \in Nat /\ MaxFds \in Nat /\ MAX_CONNS_PER_HOST \in Nat \ {0}
    /\ GroupMax \in Nat /\ MaxRequests \in Nat /\ MaxFaults \in Nat
    /\ Conns \subseteq Nat \ {0} /\ NULL = 0 /\ Closed = 0 /\ Closed \notin Fds
    /\ Conns \subseteq Conns \cup {NULL} /\ NULL \notin Conns
BY CacheAssumption DEF Conns, Fds, NULL, Closed

\* connect_to: the number the kernel gives out is that of no socket in use.
LEMMA ConnectKeeps ==
    ASSUME CacheInv, NEW c \in Conns, NEW known \in BOOLEAN, Connect(c, known)
    PROVE  /\ SocketsInv'
           /\ fd' \in [Conns -> Fds \cup {Closed}] /\ opened' \subseteq Fds
           /\ wire' \in [Fds -> {"quiet", "owing", "readable"}] /\ ok' \subseteq Conns
           /\ addr' \in Addresses /\ faults' \in 0..MaxFaults
<1>1. PICK f \in Fds \ opened :
         /\ fd' = [fd EXCEPT ![c] = f] /\ opened' = opened \cup {f}
         /\ wire' = [wire EXCEPT ![f] = "quiet"]
    BY DEF Connect, Lowest
<1>2. /\ fd \in [Conns -> Fds \cup {Closed}] /\ opened \subseteq Fds
      /\ wire \in [Fds -> {"quiet", "owing", "readable"}]
    BY DEF CacheInv, CacheTypeOK
<1>3. /\ fd'[c] = f /\ \A d \in Conns \ {c} : fd'[d] = fd[d] /\ fd[d] # f
    BY <1>1, <1>2, CacheNumbers DEF CacheInv, SocketsInv
<1>4. SocketsInv'
    BY <1>1, <1>3 DEF CacheInv, SocketsInv
<1>5. ok' \subseteq Conns /\ addr' \in Addresses
    BY DEF Connect, Fault, CacheInv, CacheTypeOK, Addresses
<1>6. faults' \in 0..MaxFaults
    BY CacheNumbers DEF Connect, Fault, CacheInv, CacheTypeOK
<1> QED
    BY <1>1, <1>2, <1>4, <1>5, <1>6

\* connection_get.
LEMMA GetKeeps ==
    ASSUME CacheInv, NEW c \in Conns, NEW n \in Conns \cup {NULL}, Get(c, n)
    PROVE  /\ SocketsInv'
           /\ fd' \in [Conns -> Fds \cup {Closed}] /\ opened' \subseteq Fds
           /\ wire' \in [Fds -> {"quiet", "owing", "readable"}] /\ ok' \subseteq Conns
           /\ addr' \in Addresses /\ faults' \in 0..MaxFaults
           /\ live' \subseteq used' /\ used' \subseteq Conns
           /\ next' \in [Conns -> Conns \cup {NULL}] /\ lst' \in Conns \cup {NULL}
           /\ count' \in 0..MAX_CONNS_PER_HOST
<1>1. /\ next \in [Conns -> Conns \cup {NULL}] /\ live \subseteq used /\ used \subseteq Conns
      /\ lst \in Conns \cup {NULL} /\ count \in 0..MAX_CONNS_PER_HOST
      /\ next' = [next EXCEPT ![c] = n]
    BY DEF CacheInv, CacheTypeOK, Get
<1>2. next' \in [Conns -> Conns \cup {NULL}]
    BY <1>1
<1>3. CASE Reuse(c)
    <2>1. lst' = next[c] /\ count' = count - 1 /\ count > 0 /\ UNCHANGED <<live, used>>
        BY <1>3 DEF Reuse, Cached
    <2>2. lst' \in Conns \cup {NULL} /\ count' \in 0..MAX_CONNS_PER_HOST
        BY <1>1, <2>1, CacheNumbers
    <2>3. CASE Connect(c, TRUE)
        BY <1>1, <1>2, <2>1, <2>2, <2>3, ConnectKeeps
    <2>4. CASE UNCHANGED <<socks, addr, faults>>
        BY <1>1, <1>2, <2>1, <2>2, <2>4 DEF socks, CacheInv, CacheTypeOK, SocketsInv
    <2> QED
        BY <1>3, <2>3, <2>4 DEF Reuse
<1>4. CASE Make(c)
    <2>1. /\ live' = live \cup {c} /\ used' = used \cup {c} /\ UNCHANGED <<lst, count>>
          /\ Connect(c, addr = "known")
        BY <1>4 DEF Make
    <2>2. (addr = "known") \in BOOLEAN
        OBVIOUS
    <2> QED
        BY <1>1, <1>2, <2>1, <2>2, ConnectKeeps
<1> QED
    BY <1>3, <1>4 DEF Get

LEMMA GetFailsKeeps ==
    ASSUME CacheInv, GetFails
    PROVE  /\ UNCHANGED <<used, socks, next>> /\ live' \subseteq used'
           /\ addr' \in Addresses /\ faults' \in 0..MaxFaults
           /\ lst' \in Conns \cup {NULL} /\ count' \in 0..MAX_CONNS_PER_HOST
<1>1. UNCHANGED <<used, socks, next>> /\ live' \subseteq used'
    BY DEF GetFails, CacheInv, CacheTypeOK
<1>2. addr' \in Addresses
    BY DEF GetFails, CacheInv, CacheTypeOK, Addresses
<1>3. faults' \in 0..MaxFaults
    BY CacheNumbers DEF GetFails, Fault, CacheInv, CacheTypeOK
<1>4. lst' \in Conns \cup {NULL}
    BY DEF GetFails, Cached, CacheInv, CacheTypeOK
<1>5. count' \in 0..MAX_CONNS_PER_HOST
    BY CacheNumbers DEF GetFails, Cached, CacheInv, CacheTypeOK
<1> QED
    BY <1>1, <1>2, <1>3, <1>4, <1>5

\* connection_put.
LEMMA PutKeeps ==
    ASSUME CacheInv, NEW c \in Conns, Put(c)
    PROVE  /\ UNCHANGED <<fd, opened, wire>> /\ live' \subseteq live
           /\ next' \in [Conns -> Conns \cup {NULL}] /\ lst' \in Conns \cup {NULL}
           /\ count' \in 0..MAX_CONNS_PER_HOST /\ twice' \in BOOLEAN
<1>1. /\ next \in [Conns -> Conns \cup {NULL}] /\ lst \in Conns \cup {NULL}
      /\ count \in 0..MAX_CONNS_PER_HOST
    BY DEF CacheInv, CacheTypeOK
<1>2. UNCHANGED <<fd, opened, wire>> /\ live' \subseteq live
    BY DEF Put
<1>3. next' \in [Conns -> Conns \cup {NULL}] /\ lst' \in Conns \cup {NULL}
    BY <1>1 DEF Put
<1>4. count' \in 0..MAX_CONNS_PER_HOST
    BY <1>1, CacheNumbers DEF Put
<1>5. twice' \in BOOLEAN
    BY DEF Put, CacheInv, CacheTypeOK
<1> QED
    BY <1>2, <1>3, <1>4, <1>5

LEMMA CacheInit == Init => CacheInv
<1> SUFFICES ASSUME Init PROVE CacheInv
    OBVIOUS
<1>1. /\ fd \in [Conns -> Fds \cup {Closed}] /\ next \in [Conns -> Conns \cup {NULL}]
      /\ wire \in [Fds -> {"quiet", "owing", "readable"}] /\ SocketsInv
    BY DEF Init, SocketsInv
<1>2. 0 \in 0..MAX_CONNS_PER_HOST /\ 0 \in 0..GroupMax /\ 0 \in 0..MaxRequests
      /\ 0 \in 0..MaxFaults
    BY CacheNumbers
<1>3. count \in 0..MAX_CONNS_PER_HOST /\ gcnt \in 0..GroupMax
      /\ requests \in 0..MaxRequests /\ faults \in 0..MaxFaults
    BY <1>2 DEF Init
<1>4. live \subseteq used /\ used \subseteq Conns /\ ok \subseteq Conns /\ opened \subseteq Fds
      /\ {lst, glst, ctx} \subseteq Conns \cup {NULL}
    BY DEF Init
<1>5. /\ addr \in Addresses /\ twice \in BOOLEAN
      /\ pc \in {"idle", "form", "fill", "perform", "destroy", "single", "end", "died"}
    BY DEF Init, Addresses
<1> QED
    BY <1>1, <1>3, <1>4, <1>5 DEF CacheInv, CacheTypeOK

\* The steps that take connections, or fail to.
LEMMA TakeKeeps ==
    ASSUME CacheInv, SetupProxy \/ FillGroup
    PROVE  CacheInv'
<1>0. /\ {lst, glst, ctx} \subseteq Conns \cup {NULL} /\ gcnt \in 0..GroupMax
      /\ requests \in 0..MaxRequests /\ twice \in BOOLEAN
      /\ pc \in {"idle", "form", "fill", "perform", "destroy", "single", "end", "died"}
    BY DEF CacheInv, CacheTypeOK
<1>1. CASE SetupProxy
    <2>1. requests' \in 0..MaxRequests /\ UNCHANGED <<glst, gcnt, twice>>
        BY <1>0, <1>1, CacheNumbers DEF SetupProxy, group
    <2>2. ASSUME NEW c \in Conns, Get(c, NULL), ctx' = c, pc' = "form"
          PROVE  CacheInv'
        BY <1>0, <2>1, <2>2, GetKeeps DEF CacheInv, CacheTypeOK
    <2>3. CASE GetFails /\ pc' = "idle" /\ UNCHANGED ctx
        BY <1>0, <2>1, <2>3, GetFailsKeeps DEF CacheInv, CacheTypeOK, SocketsInv, socks
    <2> QED
        BY <1>1, <2>2, <2>3 DEF SetupProxy
<1>2. CASE FillGroup
    <2>1. UNCHANGED <<ctx, requests, twice>> /\ gcnt < GroupMax
        BY <1>2 DEF FillGroup
    <2>2. gcnt + 1 \in 0..GroupMax /\ 0 \in 0..GroupMax
        BY <1>0, <2>1, CacheNumbers
    <2>3. ASSUME NEW c \in Conns, Get(c, glst), glst' = c, gcnt' = gcnt + 1, UNCHANGED pc
          PROVE  CacheInv'
        BY <1>0, <2>1, <2>2, <2>3, GetKeeps DEF CacheInv, CacheTypeOK
    <2>4. CASE GetFails /\ glst' = NULL /\ gcnt' = 0 /\ pc' = "idle"
        BY <1>0, <2>1, <2>2, <2>4, GetFailsKeeps DEF CacheInv, CacheTypeOK, SocketsInv, socks
    <2> QED
        BY <1>2, <2>3, <2>4 DEF FillGroup
<1> QED
    BY <1>1, <1>2

\* The steps that put them.
LEMMA GiveKeeps ==
    ASSUME CacheInv, GroupDestroy \/ SingleForm
    PROVE  CacheInv'
<1>0. /\ {lst, glst, ctx} \subseteq Conns \cup {NULL} /\ gcnt \in 0..GroupMax
      /\ requests \in 0..MaxRequests /\ next \in [Conns -> Conns \cup {NULL}]
      /\ live \subseteq used /\ ok \subseteq Conns
    BY DEF CacheInv, CacheTypeOK
<1>1. CASE GroupDestroy
    <2>1. glst \in Conns /\ glst' = next[glst] /\ Put(glst)
          /\ UNCHANGED <<used, ok, gcnt, ctx, addr, pc, requests, faults>>
        BY <1>0, <1>1 DEF GroupDestroy
    <2> QED
        BY <1>0, <2>1, PutKeeps DEF CacheInv, CacheTypeOK, SocketsInv
<1>2. CASE SingleForm
    <2>1. ctx \in live /\ ctx \in Conns /\ Put(ctx) /\ ok' \subseteq ok
          /\ pc' \in {"single", "idle"}
          /\ UNCHANGED <<used, glst, gcnt, ctx, addr, requests, faults>>
        BY <1>2 DEF SingleForm, group, CacheInv, CacheTypeOK
    <2> QED
        BY <1>0, <2>1, PutKeeps DEF CacheInv, CacheTypeOK, SocketsInv
<1> QED
    BY <1>1, <1>2

\* The loop of connection_perform and what arrives.
LEMMA TransferKeeps ==
    ASSUME CacheInv,
           \/ \E c \in Conns : Ask(c) \/ Finished(c) \/ CloseConnection(c)
           \/ \E f \in Fds : Arrive(f)
           \/ SingleReceived \/ ChooseForm
    PROVE  CacheInv'
<1> USE DEF cache, group
<1>1. /\ UNCHANGED <<live, used, next, lst, count, glst, gcnt, ctx, addr, requests, faults,
                      twice>>
      /\ pc' \in {"idle", "form", "fill", "perform", "destroy", "single", "end", "died"}
    BY DEF Ask, Finished, CloseConnection, Arrive, SingleReceived, ChooseForm, CacheInv,
           CacheTypeOK
<1>2. ok' \subseteq Conns
    BY DEF Ask, Finished, CloseConnection, Arrive, SingleReceived, ChooseForm, CacheInv,
           CacheTypeOK
<1>3. wire' \in [Fds -> {"quiet", "owing", "readable"}]
    BY DEF Ask, Finished, CloseConnection, Arrive, SingleReceived, ChooseForm, CacheInv,
           CacheTypeOK
<1>4. fd' \in [Conns -> Fds \cup {Closed}] /\ opened' \subseteq Fds /\ SocketsInv'
    <2>1. CASE UNCHANGED <<fd, opened>>
        BY <2>1 DEF CacheInv, CacheTypeOK, SocketsInv
    <2>2. ASSUME NEW c \in Conns, CloseConnection(c)
          PROVE  fd' \in [Conns -> Fds \cup {Closed}] /\ opened' \subseteq Fds /\ SocketsInv'
        <3>1. fd' = [fd EXCEPT ![c] = Closed] /\ opened' = opened \ {fd[c]}
            BY <2>2 DEF CloseConnection
        <3>2. fd \in [Conns -> Fds \cup {Closed}]
            BY DEF CacheInv, CacheTypeOK
        <3>3. fd'[c] = Closed /\ \A d \in Conns \ {c} : fd'[d] = fd[d]
            BY <3>1, <3>2
        <3>4. \A d \in Conns \ {c} : fd[d] # Closed => fd[d] # fd[c]
            BY DEF CacheInv, SocketsInv
        <3>5. SocketsInv'
            BY <3>1, <3>3, <3>4 DEF CacheInv, SocketsInv
        <3> QED
            BY <3>1, <3>5 DEF CacheInv, CacheTypeOK
    <2> QED
        BY <2>1, <2>2 DEF Ask, Finished, Arrive, SingleReceived, ChooseForm
<1> QED
    BY <1>1, <1>2, <1>3, <1>4 DEF CacheInv, CacheTypeOK

\* The others change neither connections nor descriptors.
LEMMA RestKeeps ==
    ASSUME CacheInv,
           Perform \/ PerformReturns \/ GroupGone \/ Cleanup \/ Dies \/ UNCHANGED vars
    PROVE  CacheInv'
<1>1. UNCHANGED <<used, fd, opened, wire, ok, next, glst, ctx, addr, requests, faults, twice>>
    BY DEF Perform, PerformReturns, GroupGone, Cleanup, Dies, vars, socks, cache, group
<1>2. live' \subseteq live /\ lst' \in {lst, NULL} /\ gcnt' \in {gcnt, 0} /\ count' \in {count, 0}
    BY DEF Perform, PerformReturns, GroupGone, Cleanup, Dies, vars, socks, cache, group
<1>3. pc' \in {"idle", "form", "fill", "perform", "destroy", "single", "end", "died"}
    BY DEF Perform, PerformReturns, GroupGone, Cleanup, Dies, vars, CacheInv, CacheTypeOK
<1>4. 0 \in 0..MAX_CONNS_PER_HOST /\ 0 \in 0..GroupMax
    BY CacheNumbers
<1> QED
    BY <1>1, <1>2, <1>3, <1>4 DEF CacheInv, CacheTypeOK, SocketsInv

LEMMA CacheInvariant == Spec => []CacheInv
<1>1. CacheInv /\ [Next]_vars => CacheInv'
    BY TakeKeeps, GiveKeeps, TransferKeeps, RestKeeps DEF Next
<1> QED
    BY <1>1, CacheInit, PTL DEF Spec

-------------------------------------------------------------------------------
(* Linked lists.                                                           *)

\* s, read from its end, is what the links nx lead through from h on, to NULL.
Linked(nx, h, n, s) ==
    /\ s \in [0..n -> Conns \cup {NULL}]
    /\ s[0] = NULL /\ s[n] = h
    /\ \A i, j \in 0..n : s[i] = s[j] => i = j
    /\ \A i \in 1..n : nx[s[i]] = s[i - 1]

\* The list that starts with h has n members, S.
IsList(nx, h, n, S) ==
    \E s \in [0..n -> Conns \cup {NULL}] : Linked(nx, h, n, s) /\ S = {s[i] : i \in 1..n}

\* Cache and group are lists of live connections without a common one, and the
\* connection of a request finds a place in the cache, or is there already.
SoundLists(nx, h, n, g, c, alive, forms) ==
    \E S \in SUBSET alive : \E G \in SUBSET alive : \E m \in 0..MaxConns :
        /\ IsList(nx, h, n, S) /\ IsList(nx, g, m, G)
        /\ S \cap G = {}
        /\ forms => c \in alive /\ (c \in S \/ n < MAX_CONNS_PER_HOST)

Forms == pc \in {"form", "single"}

\* No group exists outside of a transfer in several connections.
NoGroup == pc \in {"idle", "form", "single"} => glst = NULL

ListsInv ==
    /\ ~twice => SoundLists(next, lst, count, glst, ctx, live, Forms)
    /\ NoGroup
    /\ DiesOfKnownCauses

LEMMA FirstOfNaturals ==
    ASSUME NEW S, S \subseteq Nat, S # {}
    PROVE  \E x \in S : \A y \in S : x <= y
<1> DEFINE R == {ss \in Nat \X Nat : ss[1] < ss[2]}
<1>1. IsWellFoundedOn(R, Nat)
    BY NatLessThanWellFounded DEF OpToRel
<1>2. PICK x \in S : \A y \in S : ~(<<y, x>> \in R)
    <2> HIDE DEF R
    <2> QED BY <1>1, WFMin
<1>3. \A y \in S : ~(y < x)
    <2> TAKE y \in S
    <2>1. ~(<<y, x>> \in R)
        BY <1>2
    <2>2. <<y, x>> \in Nat \X Nat
        OBVIOUS
    <2> QED
        BY <2>1, <2>2
<1> QED
    BY <1>3

\* The empty list.
LEMMA EmptyList ==
    ASSUME NEW nx
    PROVE  IsList(nx, NULL, 0, {})
<1> DEFINE s == [i \in 0..0 |-> NULL]
<1>1. s \in [0..0 -> Conns \cup {NULL}] /\ s[0] = NULL
    OBVIOUS
<1>2. \A i, j \in 0..0 : i = j
    OBVIOUS
<1>3. 1..0 = {}
    OBVIOUS
<1>4. {s[i] : i \in 1..0} = {}
    BY <1>3
<1> HIDE DEF s
<1> QED
    BY <1>1, <1>2, <1>3, <1>4 DEF IsList, Linked

\* A list is empty iff it starts with NULL; its members are connections.
LEMMA ListShape ==
    ASSUME NEW nx, NEW h, NEW n \in Nat, NEW S, IsList(nx, h, n, S)
    PROVE  /\ S \subseteq Conns
           /\ n = 0 => h = NULL /\ S = {}
           /\ h = NULL => n = 0
           /\ n > 0 => h \in S
<1>1. PICK s \in [0..n -> Conns \cup {NULL}] : Linked(nx, h, n, s) /\ S = {s[i] : i \in 1..n}
    BY DEF IsList
<1>2. 0 \in 0..n /\ n \in 0..n /\ s[0] = NULL /\ s[n] = h
    BY <1>1 DEF Linked
<1>3. \A i \in 1..n : s[i] \in Conns
    <2> TAKE i \in 1..n
    <2>1. i \in 0..n /\ i # 0
        OBVIOUS
    <2>2. s[i] # s[0]
        BY <1>1, <1>2, <2>1 DEF Linked
    <2> QED
        BY <1>2, <2>1, <2>2
<1>4. h = NULL => n = 0
    BY <1>1, <1>2 DEF Linked
<1>5. n = 0 => h = NULL /\ S = {}
    <2> SUFFICES ASSUME n = 0 PROVE h = NULL /\ S = {}
        OBVIOUS
    <2>1. 1..n = {}
        OBVIOUS
    <2> QED
        BY <1>1, <1>2, <2>1
<1>6. n > 0 => h \in S
    <2> SUFFICES ASSUME n > 0 PROVE h \in S
        OBVIOUS
    <2>1. n \in 1..n
        OBVIOUS
    <2> QED
        BY <1>1, <1>2, <2>1
<1> QED
    BY <1>1, <1>3, <1>4, <1>5, <1>6

\* A list depends on the links of its members only.
LEMMA ListFrame ==
    ASSUME NEW nx, NEW ny, NEW h, NEW n \in Nat, NEW S, IsList(nx, h, n, S),
           \A d \in S : ny[d] = nx[d]
    PROVE  IsList(ny, h, n, S)
<1>1. PICK s \in [0..n -> Conns \cup {NULL}] : Linked(nx, h, n, s) /\ S = {s[i] : i \in 1..n}
    BY DEF IsList
<1>2. \A i \in 1..n : ny[s[i]] = nx[s[i]]
    BY <1>1
<1>3. Linked(ny, h, n, s)
    BY <1>1, <1>2 DEF Linked
<1> QED
    BY <1>1, <1>3 DEF IsList

\* A connection that is linked to the head becomes the head.
LEMMA ListPush ==
    ASSUME NEW nx, NEW ny, NEW h, NEW n \in Nat, NEW S, IsList(nx, h, n, S),
           NEW c \in Conns \ S, ny[c] = h, \A d \in S : ny[d] = nx[d]
    PROVE  IsList(ny, c, n + 1, S \cup {c})
<1>a. IsList(ny, h, n, S)
    BY ListFrame
<1>0. PICK s \in [0..n -> Conns \cup {NULL}] : Linked(ny, h, n, s) /\ S = {s[i] : i \in 1..n}
    BY <1>a DEF IsList
<1> DEFINE t == [i \in 0..(n + 1) |-> IF i = n + 1 THEN c ELSE s[i]]
<1>1. /\ t \in [0..(n + 1) -> Conns \cup {NULL}] /\ t[n + 1] = c
      /\ \A i \in 0..n : t[i] = s[i]
    OBVIOUS
<1> HIDE DEF t
<1>2. t[0] = NULL
    BY <1>0, <1>1 DEF Linked
<1>3. \A i \in 0..n : s[i] # c
    <2> TAKE i \in 0..n
    <2>1. CASE i = 0
        BY <1>0, <2>1, CacheNumbers DEF Linked
    <2>2. CASE i \in 1..n
        BY <1>0, <2>2
    <2> QED
        BY <2>1, <2>2
<1>4. ASSUME NEW i \in 0..(n + 1), NEW j \in 0..(n + 1), t[i] = t[j]
      PROVE  i = j
    <2>1. CASE i \in 0..n /\ j \in 0..n
        BY <1>0, <1>1, <1>4, <2>1 DEF Linked
    <2>2. CASE i = n + 1 /\ j \in 0..n
        BY <1>1, <1>3, <1>4, <2>2
    <2>3. CASE i \in 0..n /\ j = n + 1
        BY <1>1, <1>3, <1>4, <2>3
    <2> QED
        BY <2>1, <2>2, <2>3
<1>5. ASSUME NEW i \in 1..(n + 1) PROVE ny[t[i]] = t[i - 1]
    <2>1. CASE i \in 1..n
        <3>1. i \in 0..n /\ i - 1 \in 0..n
            BY <2>1
        <3> QED
            BY <1>0, <1>1, <2>1, <3>1 DEF Linked
    <2>2. CASE i = n + 1
        <3>1. i - 1 = n /\ n \in 0..n
            BY <2>2
        <3>2. t[i - 1] = h
            BY <1>0, <1>1, <3>1 DEF Linked
        <3> QED
            BY <1>1, <2>2, <3>2
    <2> QED
        BY <2>1, <2>2
<1>6. S \cup {c} = {t[i] : i \in 1..(n + 1)}
    <2>1. \A i \in 1..n : i \in 0..n /\ t[i] = s[i] /\ i \in 1..(n + 1)
        BY <1>1
    <2>2. n + 1 \in 1..(n + 1)
        OBVIOUS
    <2>3. \A i \in 1..(n + 1) : i \in 1..n \/ i = n + 1
        OBVIOUS
    <2> QED
        BY <1>0, <1>1, <2>1, <2>2, <2>3
<1>7. n + 1 \in 0..(n + 1)
    OBVIOUS
<1>8. Linked(ny, c, n + 1, t)
    BY <1>1, <1>2, <1>4, <1>5 DEF Linked
<1> QED
    BY <1>1, <1>6, <1>8 DEF IsList

\* Without its head, the list starts with what the head is linked to.
LEMMA ListPop ==
    ASSUME NEW nx, NEW h, NEW n \in Nat, NEW S, IsList(nx, h, n, S), n > 0
    PROVE  IsList(nx, nx[h], n - 1, S \ {h})
<1>0. PICK s \in [0..n -> Conns \cup {NULL}] : Linked(nx, h, n, s) /\ S = {s[i] : i \in 1..n}
    BY DEF IsList
<1> DEFINE t == [i \in 0..(n - 1) |-> s[i]]
<1>1. /\ t \in [0..(n - 1) -> Conns \cup {NULL}]
      /\ \A i \in 0..(n - 1) : t[i] = s[i] /\ i \in 0..n
    OBVIOUS
<1> HIDE DEF t
<1>2. n \in 1..n /\ n \in 0..n /\ 0 \in 0..(n - 1) /\ n - 1 \in 0..(n - 1)
    OBVIOUS
<1>3. t[0] = NULL /\ t[n - 1] = nx[h]
    BY <1>0, <1>1, <1>2 DEF Linked
<1>4. \A i, j \in 0..(n - 1) : t[i] = t[j] => i = j
    BY <1>0, <1>1 DEF Linked
<1>5. \A i \in 1..(n - 1) : i \in 1..n /\ i \in 0..(n - 1) /\ i - 1 \in 0..(n - 1)
    OBVIOUS
<1>6. \A i \in 1..(n - 1) : nx[t[i]] = t[i - 1]
    BY <1>0, <1>1, <1>5 DEF Linked
<1>7. Linked(nx, nx[h], n - 1, t)
    BY <1>1, <1>3, <1>4, <1>6 DEF Linked
<1>8. S \ {h} = {t[i] : i \in 1..(n - 1)}
    <2>1. \A i \in 1..n : i \in 1..(n - 1) \/ i = n
        OBVIOUS
    <2>2. \A i \in 1..(n - 1) : i \in 0..n /\ i # n /\ i \in 1..n
        OBVIOUS
    <2>3. s[n] = h /\ \A i \in 1..(n - 1) : s[i] # h
        BY <1>0, <1>2, <2>2 DEF Linked
    <2>4. \A i \in 1..(n - 1) : t[i] = s[i]
        BY <1>1, <1>5
    <2> QED
        BY <1>0, <2>1, <2>2, <2>3, <2>4
<1> QED
    BY <1>1, <1>7, <1>8 DEF IsList

\* A list has as many members as its length says, and no more than there are connections.
LEMMA ListLength ==
    ASSUME NEW nx, NEW h, NEW n \in Nat, NEW S, IsList(nx, h, n, S)
    PROVE  Cardinality(S) = n /\ n \in 0..MaxConns
<1>1. PICK s \in [0..n -> Conns \cup {NULL}] : Linked(nx, h, n, s) /\ S = {s[i] : i \in 1..n}
    BY DEF IsList
<1> DEFINE f == [i \in 1..n |-> s[i]]
<1>2. \A i \in 1..n : i \in 0..n
    OBVIOUS
<1>3. f \in Bijection(1..n, S)
    <2>1. f \in [1..n -> S] /\ \A i \in 1..n : f[i] = s[i]
        BY <1>1
    <2>2. \A i, j \in 1..n : f[i] = f[j] => i = j
        BY <1>1, <1>2, <2>1 DEF Linked
    <2>3. \A x \in S : \E i \in 1..n : f[i] = x
        BY <1>1, <2>1
    <2> HIDE DEF f
    <2> QED
        BY <2>1, <2>2, <2>3 DEF Bijection, Injection, Surjection, IsInjective
<1>4. Cardinality(S) = n
    <2> HIDE DEF f
    <2>1. ExistsBijection(1..n, S)
        BY <1>3 DEF ExistsBijection
    <2> QED
        BY <2>1, FS_CountingElements
<1>5. IsFiniteSet(Conns) /\ Cardinality(Conns) = MaxConns
    <2>1. IsFiniteSet(1..MaxConns)
          /\ Cardinality(1..MaxConns) = IF 1 > MaxConns THEN 0 ELSE MaxConns - 1 + 1
        BY CacheNumbers, FS_Interval
    <2> QED
        BY <2>1, CacheNumbers DEF Conns
<1>6. S \in SUBSET Conns
    BY ListShape
<1>7. Cardinality(S) <= Cardinality(Conns)
    BY <1>5, <1>6, FS_Subset
<1> QED
    BY <1>4, <1>5, <1>7, CacheNumbers

\* Walk leads through the members of a list, and then to NULL.
LEMMA WalkIsList ==
    ASSUME NEW h, NEW n \in Nat, NEW S, IsList(next, h, n, S)
    PROVE  Ends(h) /\ Listed(h) = S
<1>1. PICK s \in [0..n -> Conns \cup {NULL}] : Linked(next, h, n, s) /\ S = {s[i] : i \in 1..n}
    BY DEF IsList
<1> DEFINE Step(f) ==
        [k \in 0..MaxConns |->
            IF k = 0 THEN h ELSE IF f[k - 1] = NULL THEN NULL ELSE next[f[k - 1]]]
<1> DEFINE w == [k \in 0..MaxConns |-> IF k <= n THEN s[n - k] ELSE NULL]
<1>2. n \in 0..MaxConns
    BY ListLength
<1>3. \A k \in 0..MaxConns :
        /\ k <= n => n - k \in 0..n /\ w[k] = s[n - k]
        /\ k > n => w[k] = NULL
    <2> TAKE k \in 0..MaxConns
    <2>1. w[k] = IF k <= n THEN s[n - k] ELSE NULL
        OBVIOUS
    <2>2. k <= n => n - k \in 0..n
        BY <1>2, CacheNumbers
    <2>3. k > n => ~(k <= n)
        BY <1>2, CacheNumbers
    <2> HIDE DEF w
    <2> QED
        BY <2>1, <2>2, <2>3
<1>4. \A k \in 0..MaxConns : w[k] = NULL <=> k >= n
    <2> TAKE k \in 0..MaxConns
    <2>1. CASE k > n
        <3>1. k >= n
            BY <1>2, <2>1, CacheNumbers
        <3> HIDE DEF w
        <3> QED
            BY <1>3, <2>1, <3>1
    <2>2. CASE k <= n
        <3>1. n - k \in 0..n /\ w[k] = s[n - k] /\ 0 \in 0..n
            BY <1>3, <2>2
        <3>2. w[k] = NULL <=> n - k = 0
            BY <1>1, <3>1 DEF Linked
        <3>3. n - k = 0 <=> k >= n
            BY <2>2, <1>2
        <3> QED
            BY <3>2, <3>3
    <2> QED
        BY <2>1, <2>2, <1>2
<1>5. w = Step(w)
    <2>1. ASSUME NEW k \in 0..MaxConns, k # 0 PROVE k - 1 \in 0..MaxConns
        BY <2>1, CacheNumbers
    <2>2. w[0] = h
        <3>1. 0 \in 0..MaxConns /\ 0 <= n /\ n - 0 = n
            BY <1>2, CacheNumbers
        <3> HIDE DEF w
        <3> QED
            BY <1>1, <1>3, <3>1 DEF Linked
    <2>3. ASSUME NEW k \in 0..MaxConns, k # 0, k - 1 >= n PROVE w[k - 1] = NULL /\ w[k] = NULL
        <3>1. k - 1 \in 0..MaxConns /\ k >= n
            BY <2>3, <2>1, <1>2
        <3> HIDE DEF w
        <3> QED
            BY <1>4, <2>3, <3>1
    <2>4. ASSUME NEW k \in 0..MaxConns, k # 0, ~(k - 1 >= n)
          PROVE  w[k - 1] # NULL /\ w[k] = next[w[k - 1]]
        <3>1. k - 1 \in 0..MaxConns /\ k <= n /\ k - 1 <= n
            BY <2>4, <2>1, <1>2
        <3>2. n - (k - 1) \in 1..n /\ (n - (k - 1)) - 1 = n - k
            BY <2>4, <3>1, <1>2
        <3> HIDE DEF w
        <3>3. w[k - 1] = s[n - (k - 1)] /\ w[k] = s[n - k]
            BY <1>3, <3>1
        <3>4. next[s[n - (k - 1)]] = s[(n - (k - 1)) - 1]
            BY <1>1, <3>2 DEF Linked
        <3> QED
            BY <1>4, <2>4, <3>1, <3>2, <3>3, <3>4
    <2>5. w = [k \in 0..MaxConns |-> w[k]]
        OBVIOUS
    <2>6. ASSUME NEW k \in 0..MaxConns
          PROVE  w[k] = IF k = 0 THEN h ELSE IF w[k - 1] = NULL THEN NULL ELSE next[w[k - 1]]
        <3> HIDE DEF w
        <3> QED
            BY <2>2, <2>3, <2>4
    <2> HIDE DEF w
    <2> QED
        BY <2>5, <2>6
<1>6. Walk(h) = Step(Walk(h))
    <2>1. Walk(h) = CHOOSE f : f = Step(f)
        BY DEF Walk
    <2> HIDE DEF Step, w
    <2> QED
        BY <1>5, <2>1
<1>7. \A k \in 0..MaxConns : Walk(h)[k] = w[k]
    <2> DEFINE Bad == {k \in 0..MaxConns : Walk(h)[k] # w[k]}
    <2> SUFFICES ASSUME Bad # {} PROVE FALSE
        OBVIOUS
    <2>1. PICK k \in Bad : \A j \in Bad : k <= j
        <3>1. Bad \subseteq Nat
            BY CacheNumbers
        <3> HIDE DEF Bad
        <3> QED
            BY <3>1, FirstOfNaturals
    <2>2. k \in 0..MaxConns /\ Walk(h)[k] # w[k]
        OBVIOUS
    <2>3. \A f : Step(f)[k] = IF k = 0 THEN h
                              ELSE IF f[k - 1] = NULL THEN NULL ELSE next[f[k - 1]]
        BY <2>2
    <2>4. k # 0
        <3> HIDE DEF Step, w
        <3> QED
            BY <1>5, <1>6, <2>2, <2>3
    <2>5. k - 1 \in 0..MaxConns /\ k - 1 \notin Bad
        <3>1. k - 1 \in 0..MaxConns /\ ~(k <= k - 1)
            BY <2>2, <2>4, CacheNumbers
        <3> HIDE DEF Bad
        <3> QED
            BY <2>1, <3>1
    <2>6. Walk(h)[k - 1] = w[k - 1]
        BY <2>5
    <2> HIDE DEF Step, w
    <2> QED
        BY <1>5, <1>6, <2>2, <2>3, <2>6
<1>8. Ends(h)
    <2>1. MaxConns \in 0..MaxConns /\ MaxConns >= n
        BY <1>2, CacheNumbers
    <2> HIDE DEF w
    <2> QED
        BY <1>4, <1>7, <2>1 DEF Ends
<1>9. Listed(h) = S
    <2> HIDE DEF w
    <2>1. Listed(h) = {w[k] : k \in 0..MaxConns} \ {NULL}
        BY <1>7 DEF Listed
    <2>2. ASSUME NEW x \in S PROVE x \in Listed(h)
        <3>1. PICK i \in 1..n : x = s[i]
            BY <1>1
        <3>2. n - i \in 0..MaxConns /\ n - i <= n /\ n - (n - i) = i /\ ~(n - i >= n)
            BY <1>2, CacheNumbers
        <3>3. w[n - i] = x /\ x # NULL
            BY <1>3, <1>4, <3>1, <3>2
        <3> QED
            BY <2>1, <3>2, <3>3
    <2>3. ASSUME NEW k \in 0..MaxConns, w[k] # NULL PROVE w[k] \in S
        <3>1. ~(k >= n)
            BY <1>4, <2>3
        <3>2. n - k \in 1..n /\ k <= n
            BY <1>2, <3>1
        <3>3. w[k] = s[n - k]
            BY <1>3, <3>2
        <3> QED
            BY <1>1, <3>2, <3>3
    <2> QED
        BY <2>1, <2>2, <2>3
<1> QED
    BY <1>8, <1>9

-------------------------------------------------------------------------------
(* The lists of cache and group.                                           *)

\* What CacheInv says of the places of connections.
LEMMA PlacesAreConns ==
    ASSUME CacheInv
    PROVE  /\ live \subseteq Conns /\ used \subseteq Conns /\ live \subseteq used
           /\ next \in [Conns -> Conns \cup {NULL}]
           /\ count \in Nat /\ count <= MAX_CONNS_PER_HOST
<1>1. count \in 0..MAX_CONNS_PER_HOST
    BY DEF CacheInv, CacheTypeOK
<1> QED
    BY <1>1, CacheNumbers DEF CacheInv, CacheTypeOK

\* connection_get: what it returns is live and in no list, and it leaves a free place
\* in the cache, from which it was taken or which was empty.
LEMMA GetSound ==
    ASSUME CacheInv, NEW S \in SUBSET live, NEW G \in SUBSET live, NEW m \in 0..MaxConns,
           IsList(next, lst, count, S), IsList(next, glst, m, G), S \cap G = {},
           NEW c \in Conns, NEW n \in Conns \cup {NULL}, Get(c, n)
    PROVE  /\ c \in live' /\ c \notin G /\ S \ {c} \subseteq live' /\ G \subseteq live'
           /\ IsList(next', lst', count', S \ {c}) /\ IsList(next', glst, m, G)
           /\ next'[c] = n /\ \A d \in Conns \ {c} : next'[d] = next[d]
           /\ count' < MAX_CONNS_PER_HOST
<1>1. /\ next'[c] = n /\ \A d \in Conns \ {c} : next'[d] = next[d]
    BY PlacesAreConns DEF Get
<1>2. count \in Nat /\ m \in Nat /\ S \subseteq Conns /\ G \subseteq Conns
    BY PlacesAreConns, CacheNumbers
<1>3. CASE Reuse(c)
    <2>1. /\ count > 0 /\ c = lst /\ c \in live /\ lst' = next[c] /\ count' = count - 1
          /\ live' = live
        BY <1>3 DEF Reuse, Cached
    <2>2. c \in S /\ c \notin G
        BY <1>2, <2>1, ListShape
    <2>3. IsList(next, lst', count', S \ {c})
        BY <1>2, <2>1, ListPop
    <2>4. count' \in Nat /\ count' < MAX_CONNS_PER_HOST
        BY <1>2, <2>1, PlacesAreConns, CacheNumbers
    <2>5. IsList(next', lst', count', S \ {c})
        BY <1>1, <1>2, <2>3, <2>4, ListFrame
    <2>6. IsList(next', glst, m, G)
        BY <1>1, <1>2, <2>2, ListFrame
    <2> QED
        BY <1>1, <2>1, <2>2, <2>4, <2>5, <2>6
<1>4. CASE Make(c)
    <2>1. /\ ~(count > 0 /\ lst # NULL) /\ c \notin used /\ live' = live \cup {c}
          /\ lst' = lst /\ count' = count
        BY <1>4 DEF Make, Cached
    <2>2. c \notin S /\ c \notin G /\ S \ {c} = S
        BY <2>1, PlacesAreConns
    <2>3. count = 0
        BY <1>2, <2>1, ListShape
    <2>4. IsList(next', lst', count', S \ {c})
        BY <1>1, <1>2, <2>1, <2>2, ListFrame
    <2>5. IsList(next', glst, m, G)
        BY <1>1, <1>2, <2>2, ListFrame
    <2>6. count' < MAX_CONNS_PER_HOST
        BY <2>1, <2>3, CacheNumbers
    <2> QED
        BY <1>1, <2>1, <2>2, <2>4, <2>5, <2>6
<1> QED
    BY <1>3, <1>4 DEF Get

\* What connection_get frees when it fails was in the cache only.
LEMMA GetFailsSound ==
    ASSUME CacheInv, NEW S \in SUBSET live, NEW G \in SUBSET live, NEW m \in 0..MaxConns,
           IsList(next, lst, count, S), IsList(next, glst, m, G), S \cap G = {}, GetFails
    PROVE  \E T \in SUBSET live' : IsList(next', lst', count', T)
<1>0. next' = next
    BY DEF GetFails
<1>1. CASE Cached
    <2>1. live' = live \ {lst} /\ lst' = next[lst] /\ count' = count - 1 /\ count > 0
        BY <1>1 DEF GetFails, Cached
    <2>2. IsList(next, lst', count', S \ {lst})
        BY <2>1, PlacesAreConns, ListPop
    <2> QED
        BY <1>0, <2>1, <2>2
<1>2. CASE ~Cached
    BY <1>0, <1>2 DEF GetFails
<1> QED
    BY <1>1, <1>2

\* connection_put of a connection that is in no list: it is freed, or in the cache.
LEMMA PutSound ==
    ASSUME CacheInv, NEW S \in SUBSET live, NEW G \in SUBSET live, NEW m \in 0..MaxConns,
           NEW g, IsList(next, lst, count, S), IsList(next, g, m, G), S \cap G = {},
           NEW c \in live, c \notin S, c \notin G, Put(c)
    PROVE  SoundLists(next', lst', count', g, c, live', count < MAX_CONNS_PER_HOST)
<1>1. count \in Nat /\ m \in Nat /\ S \subseteq Conns /\ G \subseteq Conns /\ c \in Conns
    BY PlacesAreConns, CacheNumbers
<1>2. \A d \in Conns \ {c} : next'[d] = next[d]
    BY PlacesAreConns DEF Put
<1>3. IsList(next', g, m, G)
    BY <1>1, <1>2, ListFrame
<1>4. CASE count >= MAX_CONNS_PER_HOST
    <2>1. live' = live \ {c} /\ lst' = lst /\ count' = count
        BY <1>4 DEF Put
    <2>2. IsList(next', lst', count', S)
        BY <1>1, <1>2, <2>1, ListFrame
    <2>3. ~(count < MAX_CONNS_PER_HOST)
        BY <1>1, <1>4, CacheNumbers
    <2>4. S \in SUBSET live' /\ G \in SUBSET live'
        BY <2>1
    <2> QED
        BY <1>3, <2>2, <2>3, <2>4 DEF SoundLists
<1>5. CASE ~(count >= MAX_CONNS_PER_HOST)
    <2>1. lst' = c /\ count' = count + 1 /\ live' = live /\ next'[c] = lst
        BY <1>1, <1>5, PlacesAreConns DEF Put
    <2>2. IsList(next', lst', count', S \cup {c})
        BY <1>1, <1>2, <2>1, ListPush
    <2>3. (S \cup {c}) \in SUBSET live' /\ G \in SUBSET live' /\ (S \cup {c}) \cap G = {}
        BY <2>1
    <2>4. c \in live' /\ c \in S \cup {c}
        BY <2>1
    <2> QED
        BY <1>3, <2>2, <2>3, <2>4 DEF SoundLists
<1> QED
    BY <1>4, <1>5

LEMMA ListsInit == Init => ListsInv
<1> SUFFICES ASSUME Init PROVE ListsInv
    OBVIOUS
<1>1. IsList(next, NULL, 0, {}) /\ 0 \in 0..MaxConns /\ {} \in SUBSET live
    BY EmptyList, CacheNumbers
<1>2. lst = NULL /\ glst = NULL /\ count = 0 /\ ~Forms
    BY DEF Init, Forms
<1>3. SoundLists(next, lst, count, glst, ctx, live, Forms)
    BY <1>1, <1>2 DEF SoundLists
<1> QED
    BY <1>2, <1>3 DEF Init, ListsInv, NoGroup, DiesOfKnownCauses

LEMMA TakeSound ==
    ASSUME CacheInv, ListsInv, SetupProxy \/ FillGroup
    PROVE  ListsInv'
<1>1. NoGroup' /\ DiesOfKnownCauses' /\ twice' = twice
    BY DEF SetupProxy, FillGroup, group, ListsInv, NoGroup, DiesOfKnownCauses
<1>2. ASSUME ~twice
      PROVE  SoundLists(next', lst', count', glst', ctx', live', Forms')
    <2>1. PICK S \in SUBSET live, G \in SUBSET live, m \in 0..MaxConns :
            IsList(next, lst, count, S) /\ IsList(next, glst, m, G) /\ S \cap G = {}
        BY <1>2 DEF ListsInv, SoundLists
    <2>2. m \in Nat /\ G \subseteq Conns
        BY CacheNumbers, PlacesAreConns
    <2>3. ASSUME NEW c \in Conns, Get(c, NULL), ctx' = c, glst' = glst
          PROVE  SoundLists(next', lst', count', glst', ctx', live', Forms')
        <3>1. /\ c \in live' /\ (S \ {c}) \in SUBSET live' /\ G \in SUBSET live'
              /\ IsList(next', lst', count', S \ {c}) /\ IsList(next', glst', m, G)
              /\ count' < MAX_CONNS_PER_HOST
            BY <2>1, <2>3, GetSound
        <3>2. (S \ {c}) \cap G = {}
            BY <2>1
        <3> QED
            BY <2>3, <3>1, <3>2 DEF SoundLists
    <2>4. ASSUME NEW c \in Conns, Get(c, glst), glst' = c, ~Forms'
          PROVE  SoundLists(next', lst', count', glst', ctx', live', Forms')
        <3>0. glst \in Conns \cup {NULL}
            BY DEF CacheInv, CacheTypeOK
        <3>1. /\ c \in live' /\ c \notin G /\ (S \ {c}) \in SUBSET live' /\ G \subseteq live'
              /\ IsList(next', lst', count', S \ {c})
              /\ next'[c] = glst /\ \A d \in Conns \ {c} : next'[d] = next[d]
            BY <2>1, <2>4, <3>0, GetSound
        <3>2. IsList(next', c, m + 1, G \cup {c})
            BY <2>1, <2>2, <3>1, ListPush
        <3>3. m + 1 \in 0..MaxConns
            BY <2>2, <3>2, ListLength
        <3>4. (G \cup {c}) \in SUBSET live' /\ (S \ {c}) \cap (G \cup {c}) = {}
            BY <2>1, <3>1
        <3> QED
            BY <2>4, <3>1, <3>2, <3>3, <3>4 DEF SoundLists
    <2>5. ASSUME GetFails, glst' = NULL, ~Forms'
          PROVE  SoundLists(next', lst', count', glst', ctx', live', Forms')
        <3>1. PICK T \in SUBSET live' : IsList(next', lst', count', T)
            BY <2>1, <2>5, GetFailsSound
        <3>2. IsList(next', glst', 0, {}) /\ 0 \in 0..MaxConns /\ {} \in SUBSET live'
            BY <2>5, EmptyList, CacheNumbers
        <3> QED
            BY <2>5, <3>1, <3>2 DEF SoundLists
    <2>6. CASE SetupProxy
        <3>1. CASE \E c \in Conns : Get(c, NULL) /\ ctx' = c /\ pc' = "form"
            BY <2>3, <2>6, <3>1 DEF SetupProxy, group
        <3>2. CASE GetFails /\ pc' = "idle" /\ UNCHANGED ctx
            <4>1. glst' = NULL /\ ~Forms'
                BY <2>6, <3>2 DEF SetupProxy, group, ListsInv, NoGroup, Forms
            <4> QED
                BY <2>5, <3>2, <4>1
        <3> QED
            BY <2>6, <3>1, <3>2 DEF SetupProxy
    <2>7. CASE FillGroup
        <3>1. ~Forms'
            BY <2>7 DEF FillGroup, Forms
        <3> QED
            BY <2>4, <2>5, <2>7, <3>1 DEF FillGroup
    <2> QED
        BY <2>6, <2>7
<1> QED
    BY <1>1, <1>2 DEF ListsInv

LEMMA GiveSound ==
    ASSUME CacheInv, ListsInv, GroupDestroy \/ SingleForm
    PROVE  ListsInv'
<1>1. NoGroup' /\ DiesOfKnownCauses'
    BY DEF GroupDestroy, SingleForm, group, ListsInv, NoGroup, DiesOfKnownCauses
<1>2. ASSUME ~twice'
      PROVE  SoundLists(next', lst', count', glst', ctx', live', Forms')
    <2>0. ~twice
        BY <1>2 DEF GroupDestroy, SingleForm, Put
    <2>1. PICK S \in SUBSET live, G \in SUBSET live, m \in 0..MaxConns :
            /\ IsList(next, lst, count, S) /\ IsList(next, glst, m, G) /\ S \cap G = {}
            /\ Forms => ctx \in live /\ (ctx \in S \/ count < MAX_CONNS_PER_HOST)
        BY <2>0 DEF ListsInv, SoundLists
    <2>2. m \in Nat /\ G \subseteq Conns /\ count \in Nat
        BY CacheNumbers, PlacesAreConns
    <2>3. Listed(lst) = S
        BY <2>1, <2>2, WalkIsList
    <2>4. CASE GroupDestroy
        <3>1. glst # NULL /\ glst' = next[glst] /\ Put(glst) /\ ~Forms'
            BY <2>4 DEF GroupDestroy, Forms
        <3>2. m > 0 /\ glst \in G
            BY <2>1, <2>2, <3>1, ListShape
        <3>3. m - 1 \in 0..MaxConns /\ IsList(next, glst', m - 1, G \ {glst})
            BY <2>1, <2>2, <3>1, <3>2, ListPop, CacheNumbers
        <3>4. (G \ {glst}) \in SUBSET live /\ S \cap (G \ {glst}) = {}
              /\ glst \in live /\ glst \notin S /\ glst \notin G \ {glst}
            BY <2>1, <3>2
        <3>5. SoundLists(next', lst', count', glst', glst, live', count < MAX_CONNS_PER_HOST)
            BY <2>1, <3>1, <3>3, <3>4, PutSound
        <3> QED
            BY <3>1, <3>5 DEF SoundLists
    <2>5. CASE SingleForm
        <3>1. /\ pc = "single" /\ ctx \in live /\ Put(ctx) /\ ctx' = ctx /\ glst' = glst
            BY <2>5 DEF SingleForm, group
        <3>2. ctx \notin S
            BY <1>2, <2>3, <3>1 DEF Put
        <3>3. glst = NULL
            BY <3>1 DEF ListsInv, NoGroup
        <3>4. G = {}
            BY <2>1, <2>2, <3>3, ListShape
        <3>5. count < MAX_CONNS_PER_HOST
            BY <2>1, <3>1, <3>2 DEF Forms
        <3>6. SoundLists(next', lst', count', glst', ctx', live', count < MAX_CONNS_PER_HOST)
            BY <2>1, <3>1, <3>2, <3>4, PutSound
        <3> QED
            BY <3>5, <3>6 DEF SoundLists
    <2> QED
        BY <2>4, <2>5
<1> QED
    BY <1>1, <1>2 DEF ListsInv

\* Freed memory is not used before a connection was put twice, but for an address.
LEMMA NothingDiesBefore ==
    ASSUME CacheInv, ListsInv, ~twice
    PROVE  /\ Ends(lst) /\ Listed(lst) \subseteq live /\ count = Cardinality(Listed(lst))
           /\ Listed(lst) \cap Listed(glst) = {}
           /\ Cached => lst \in live
           /\ Forms => ctx \in live
<1>1. PICK S \in SUBSET live, G \in SUBSET live, m \in 0..MaxConns :
        /\ IsList(next, lst, count, S) /\ IsList(next, glst, m, G) /\ S \cap G = {}
        /\ Forms => ctx \in live
    BY DEF ListsInv, SoundLists
<1>2. count \in Nat /\ m \in Nat
    BY PlacesAreConns, CacheNumbers
<1>3. Ends(lst) /\ Listed(lst) = S /\ Listed(glst) = G
    BY <1>1, <1>2, WalkIsList
<1>4. Cardinality(S) = count
    BY <1>1, <1>2, ListLength
<1>5. Cached => lst \in S
    BY <1>1, <1>2, ListShape DEF Cached
<1> QED
    BY <1>1, <1>3, <1>4, <1>5

LEMMA RestSound ==
    ASSUME CacheInv, ListsInv,
           \/ ChooseForm \/ Perform \/ PerformReturns \/ GroupGone \/ SingleReceived
           \/ \E c \in Conns : Ask(c) \/ Finished(c) \/ CloseConnection(c)
           \/ \E f \in Fds : Arrive(f)
           \/ Cleanup \/ Dies \/ UNCHANGED vars
    PROVE  ListsInv'
<1>1. CASE Cleanup
    <2>1. NoGroup' /\ twice' = twice /\ addr' = addr /\ glst = NULL /\ glst' = glst
          /\ next' = next /\ ~Forms'
        BY <1>1 DEF Cleanup, ListsInv, NoGroup, group, Forms
    <2>2. ~twice => Ends(lst) /\ Listed(lst) \subseteq live
        BY NothingDiesBefore
    <2>3. DiesOfKnownCauses'
        BY <1>1, <2>1, <2>2 DEF Cleanup, DiesOfKnownCauses
    <2>4. ASSUME ~twice
          PROVE  SoundLists(next', lst', count', glst', ctx', live', Forms')
        <3>1. CASE addr # "freed"
            <4>1. lst' = NULL /\ count' = 0
                BY <1>1, <2>2, <2>4, <3>1 DEF Cleanup
            <4>2. IsList(next', NULL, 0, {}) /\ 0 \in 0..MaxConns /\ {} \in SUBSET live'
                BY EmptyList, CacheNumbers
            <4> QED
                BY <2>1, <4>1, <4>2 DEF SoundLists
        <3>2. CASE addr = "freed"
            <4>1. UNCHANGED <<live, lst, count, ctx>>
                BY <1>1, <3>2 DEF Cleanup
            <4> QED
                BY <2>1, <2>4, <4>1 DEF ListsInv, SoundLists
        <3> QED
            BY <3>1, <3>2
    <2> QED
        BY <2>1, <2>3, <2>4 DEF ListsInv
<1>2. CASE Dies
    <2>1. UNCHANGED <<next, lst, count, glst, ctx, live, twice, addr>> /\ pc' = "died"
        BY <1>2 DEF Dies, cache, group
    <2>2. ~twice => addr = "freed"
        BY <1>2, NothingDiesBefore DEF Dies, GetDies, Forms
    <2>3. ~Forms' /\ NoGroup' /\ DiesOfKnownCauses'
        BY <2>1, <2>2 DEF Forms, NoGroup, DiesOfKnownCauses
    <2> QED
        BY <2>1, <2>3 DEF ListsInv, SoundLists
<1>3. ASSUME UNCHANGED <<next, lst, count, glst, ctx, live, twice, addr>>,
             Forms' => Forms, NoGroup', pc' = "died" => pc = "died"
      PROVE  ListsInv'
    BY <1>3 DEF ListsInv, SoundLists, DiesOfKnownCauses
<1>4. CASE ChooseForm \/ Perform \/ PerformReturns \/ GroupGone \/ SingleReceived
    BY <1>3, <1>4 DEF ChooseForm, Perform, PerformReturns, GroupGone, SingleReceived, cache,
                      group, Forms, ListsInv, NoGroup
<1>5. CASE \/ \E c \in Conns : Ask(c) \/ Finished(c) \/ CloseConnection(c)
           \/ \E f \in Fds : Arrive(f)
           \/ UNCHANGED vars
    <2>1. UNCHANGED <<next, lst, count, glst, ctx, live, twice, addr, pc>>
        BY <1>5 DEF Ask, Finished, CloseConnection, Arrive, vars, cache, group
    <2> QED
        BY <1>3, <2>1 DEF Forms, ListsInv, NoGroup
<1> QED
    BY <1>1, <1>2, <1>4, <1>5

LEMMA ListsInvariant == Spec => []ListsInv
<1>1. CacheInv /\ ListsInv /\ [Next]_vars => ListsInv'
    BY TakeSound, GiveSound, RestSound DEF Next
<1> QED
    BY <1>1, ListsInit, CacheInvariant, PTL DEF Spec

-------------------------------------------------------------------------------
\* The type invariant: the cache never exceeds its limit, nor the group its own
\* (connection_put, connection_group_create).
THEOREM CacheTypeCorrect == Spec => []CacheTypeOK
<1>1. CacheInv => CacheTypeOK
    BY DEF CacheInv
<1> QED
    BY <1>1, CacheInvariant, PTL

\* No two connections ever share a descriptor, not even when one of them was put into
\* the cache twice or freed with its descriptor open (close_connection, connection_get).
THEOREM DescriptorsNeverShared == Spec => []NoSharedDescriptor
<1>1. CacheInv => NoSharedDescriptor
    BY DEF CacheInv, SocketsInv, CacheTypeOK, NoSharedDescriptor
<1> QED
    BY <1>1, CacheInvariant, PTL

\* Until a connection is put twice, count is the length of the cache, which ends and
\* holds no freed connection and none of the group (connection_get, connection_put,
\* connection_group_destroy).
THEOREM ListsStaySound == Spec => []ListsAreSound
<1>1. CacheInv /\ ListsInv => ListsAreSound
    BY NothingDiesBefore DEF ListsAreSound
<1> QED
    BY <1>1, CacheInvariant, ListsInvariant, PTL

\* Freed memory is used only after a connection was put twice, or the address that was
\* tried in vain was freed (connection_cleanup, connection_get).
THEOREM DeathsHaveKnownCauses == Spec => []DiesOfKnownCauses
<1>1. ListsInv => DiesOfKnownCauses
    BY DEF ListsInv
<1> QED
    BY <1>1, ListsInvariant, PTL
===============================================================================
