------------------------------ MODULE ConnCache -------------------------------
(***************************************************************************)
(* The connections of one host as connection.c keeps them between          *)
(* requests: connection_get takes one from the host's cache, reconnects it *)
(* or makes a new one; connection_put gives it back; a group collects the  *)
(* connections of one transfer.  Cache and group are lists through the same*)
(* link, lst.next, of the connection.  The callers are the two forms of an *)
(* HTTP request, one request after the other, as http.c makes them.        *)
(***************************************************************************)
EXTENDS Integers, FiniteSets

CONSTANTS
    MaxConns,            \* bound: connections ever allocated
    MaxFds,              \* bound: descriptors
    MAX_CONNS_PER_HOST,
    GroupMax,            \* connections of a transfer
    MaxRequests,         \* bound: requests
    MaxFaults            \* bound: connections refused, names not resolved

ASSUME CacheAssumption ==
    /\ MaxConns \in Nat /\ MaxFds \in Nat /\ MAX_CONNS_PER_HOST \in Nat \ {0}
    /\ GroupMax \in Nat /\ MaxRequests \in Nat /\ MaxFaults \in Nat

Conns == 1..MaxConns
Fds == 1..MaxFds
NULL == 0       \* of a pointer
Closed == 0     \* sock = -1

VARIABLES
    live,    \* connections allocated and not freed
    used,    \* connections ever allocated
    fd,      \* sock of each connection
    opened,  \* open descriptors
    wire,    \* of each descriptor: "quiet", "owing" (an answer is under way), "readable"
    ok,      \* connections with connected = true
    next,    \* lst.next of each connection
    lst,     \* head of the cache of the host
    count,   \* its count
    glst,    \* head of the group, and of what is left of it in connection_group_destroy
    gcnt,    \* its count
    ctx,     \* context.conn
    addr,    \* the cached address: "none" | "known" | "freed"
    pc, requests, faults,
    twice    \* history: some connection was put into the cache while it was there

cache == <<next, lst, count>>
group == <<glst, gcnt>>
socks == <<fd, opened, wire, ok>>
vars == <<live, used, socks, cache, group, ctx, addr, pc, requests, faults, twice>>

\* What there is of the addr_entry of the host.
Addresses == {"none", "known", "freed"}

Init ==
    /\ live = {} /\ used = {} /\ opened = {} /\ ok = {}
    /\ fd = [c \in Conns |-> Closed]
    /\ wire = [f \in Fds |-> "quiet"]
    /\ next = [c \in Conns |-> NULL]
    /\ lst = NULL /\ count = 0 /\ glst = NULL /\ gcnt = 0 /\ ctx = NULL
    /\ addr = "none" /\ pc = "idle" /\ requests = 0 /\ faults = 0 /\ twice = FALSE

Fault == faults < MaxFaults /\ faults' = faults + 1

\* The list that starts with h, as far as it goes.
Walk(h) ==
    LET at[n \in 0..MaxConns] ==
            IF n = 0 THEN h ELSE IF at[n - 1] = NULL THEN NULL ELSE next[at[n - 1]]
    IN  at
Listed(h) == {Walk(h)[n] : n \in 0..MaxConns} \ {NULL}
Ends(h) == Walk(h)[MaxConns] = NULL

-------------------------------------------------------------------------------
(* connection_get                                                          *)

Cached == count > 0 /\ lst # NULL

\* validate_connection: connected, and nothing to be read.
Valid(c) == c \in ok /\ fd[c] # Closed /\ wire[fd[c]] # "readable"

\* The descriptor that the kernel gives next.
Lowest(f) == f \in Fds \ opened /\ \A g \in Fds \ opened : f <= g

\* connect_to gives c a new socket; the old one, if it is still open, is forgotten.
\* The address is the one of the connection or of the address cache, unless that
\* one refuses or there is none; then the name is resolved.
Connect(c, known) ==
    /\ \E f \in Fds :
          /\ Lowest(f)
          /\ fd' = [fd EXCEPT ![c] = f]
          /\ opened' = opened \cup {f}
          /\ wire' = [wire EXCEPT ![f] = "quiet"]
    /\ ok' = ok \cup {c}
    /\ \/ known /\ UNCHANGED <<addr, faults>>
       \/ known /\ Fault /\ addr' = "known"
       \/ ~known /\ addr' = "known" /\ UNCHANGED faults

\* Mutant: count is not decremented.
ReuseUncounted(c) ==
    /\ Cached /\ c = lst /\ c \in live
    /\ lst' = next[c]
    /\ \/ Valid(c) /\ UNCHANGED <<socks, addr, faults>>
       \/ ~Valid(c) /\ Connect(c, TRUE)
    /\ UNCHANGED <<live, used, count>>

\* The first connection of the cache is used as it is, or connected anew.
Reuse(c) ==
    /\ Cached /\ c = lst /\ c \in live
    /\ lst' = next[c] /\ count' = count - 1
    /\ \/ Valid(c) /\ UNCHANGED <<socks, addr, faults>>
       \/ ~Valid(c) /\ Connect(c, TRUE)
    /\ UNCHANGED <<live, used>>

Make(c) ==
    /\ ~Cached /\ addr # "freed"
    /\ c \in Conns \ used /\ \A d \in Conns \ used : c <= d
    /\ live' = live \cup {c} /\ used' = used \cup {c}
    /\ Connect(c, addr = "known")
    /\ UNCHANGED <<lst, count>>

\* connection_get returns c, and the caller links it to n.
Get(c, n) == (Reuse(c) \/ Make(c)) /\ next' = [next EXCEPT ![c] = n]

\* connection_get returns NULL.  A connection from the cache is freed; so is the
\* entry of the address cache that was tried, which stays in its table.
GetFails ==
    /\ Fault
    /\ IF Cached
         THEN /\ lst \in live /\ ~Valid(lst)
              /\ live' = live \ {lst} /\ lst' = next[lst] /\ count' = count - 1
              /\ UNCHANGED addr
         ELSE /\ addr' = IF addr = "known" THEN "freed" ELSE addr
              /\ UNCHANGED <<live, lst, count>>
    /\ UNCHANGED <<used, socks, next>>

\* It runs into a connection or an address that was freed.
GetDies == IF Cached THEN lst \notin live ELSE addr = "freed"

-------------------------------------------------------------------------------
(* connection_put and connection_destroy                                   *)

\* Mutant: the cache has no limit.
PutUnbounded(c) ==
    /\ twice' = (twice \/ c \in Listed(lst))
    /\ next' = [next EXCEPT ![c] = lst] /\ lst' = c /\ count' = count + 1
    /\ UNCHANGED <<live, fd, opened, wire>>

\* Mutant: the comparison with the limit is inverted.
PutInverted(c) ==
    /\ twice' = (twice \/ c \in Listed(lst))
    /\ IF count <= MAX_CONNS_PER_HOST
         THEN live' = live \ {c} /\ next' = [next EXCEPT ![c] = NULL]
              /\ UNCHANGED <<lst, count>>
         ELSE next' = [next EXCEPT ![c] = lst] /\ lst' = c /\ count' = count + 1
              /\ UNCHANGED live
    /\ UNCHANGED <<fd, opened, wire>>

\* A connection that finds the cache full is freed, and its descriptor forgotten.
Put(c) ==
    /\ twice' = (twice \/ c \in Listed(lst))
    /\ IF count >= MAX_CONNS_PER_HOST
         THEN live' = live \ {c} /\ next' = [next EXCEPT ![c] = NULL]
              /\ UNCHANGED <<lst, count>>
         ELSE next' = [next EXCEPT ![c] = lst] /\ lst' = c /\ count' = count + 1
              /\ UNCHANGED live
    /\ UNCHANGED <<fd, opened, wire>>

-------------------------------------------------------------------------------
(* The callers.                                                            *)

\* setup_proxy: every request gets a connection first, and asks for the size on it.
SetupProxy ==
    /\ pc = "idle" /\ requests < MaxRequests
    /\ requests' = requests + 1
    /\ \/ \E c \in Conns : Get(c, NULL) /\ ctx' = c /\ pc' = "form"
       \/ GetFails /\ pc' = "idle" /\ UNCHANGED ctx
    /\ UNCHANGED <<group, twice>>

\* The server honours ranges and the connection is left alone, or it does not and
\* sends the file on it.
ChooseForm ==
    /\ pc = "form"
    /\ \/ pc' = "fill" /\ UNCHANGED wire
       \/ pc' = "single" /\ wire' = [wire EXCEPT ![fd[ctx]] = "owing"]
    /\ UNCHANGED <<live, used, fd, opened, ok, cache, group, ctx, addr, requests,
                   faults, twice>>

\* process_request_multi_form: a connection for one more chunk joins the group; if
\* there is none the request ends and the group is forgotten.
FillGroup ==
    /\ pc = "fill" /\ gcnt < GroupMax
    /\ \/ \E c \in Conns : Get(c, glst) /\ glst' = c /\ gcnt' = gcnt + 1 /\ UNCHANGED pc
       \/ GetFails /\ glst' = NULL /\ gcnt' = 0 /\ pc' = "idle"
    /\ UNCHANGED <<ctx, requests, twice>>

Perform ==
    /\ pc = "fill" /\ gcnt > 0
    /\ pc' = "perform"
    /\ UNCHANGED <<live, used, socks, cache, group, ctx, addr, requests, faults,
                   twice>>

\* A request is sent on a connection of the group.
Ask(c) ==
    /\ pc = "perform" /\ c \in Listed(glst) \cap ok /\ wire[fd[c]] = "quiet"
    /\ wire' = [wire EXCEPT ![fd[c]] = "owing"]
    /\ UNCHANGED <<live, used, fd, opened, ok, cache, group, ctx, addr, pc, requests,
                   faults, twice>>

\* Something comes in, at any time.
Arrive(f) ==
    /\ wire[f] = "owing"
    /\ wire' = [wire EXCEPT ![f] = "readable"]
    /\ UNCHANGED <<live, used, fd, opened, ok, cache, group, ctx, addr, pc, requests,
                   faults, twice>>

\* do_perform_select with COF_FINISHED: the socket stays, connected does not.
Finished(c) ==
    /\ pc = "perform" /\ c \in Listed(glst) \cap ok /\ wire[fd[c]] = "readable"
    /\ wire' = [wire EXCEPT ![fd[c]] = "quiet"]
    /\ ok' = ok \ {c}
    /\ UNCHANGED <<live, used, fd, opened, cache, group, ctx, addr, pc, requests,
                   faults, twice>>

\* Mutant: the closed socket is not forgotten.
CloseKeepsNumber(c) ==
    /\ pc = "perform" /\ c \in Listed(glst) \cap ok
    /\ opened' = opened \ {fd[c]}
    /\ UNCHANGED <<live, used, fd, wire, ok, cache, group, ctx, addr, pc, requests,
                   faults, twice>>

\* close_connection.
CloseConnection(c) ==
    /\ pc = "perform" /\ c \in Listed(glst) \cap ok
    /\ opened' = opened \ {fd[c]}
    /\ fd' = [fd EXCEPT ![c] = Closed]
    /\ ok' = ok \ {c}
    /\ UNCHANGED <<live, used, wire, cache, group, ctx, addr, pc, requests, faults,
                   twice>>

\* connection_perform returns: all are done, the user stops it, or select() fails.
PerformReturns ==
    /\ pc = "perform"
    /\ pc' = "destroy"
    /\ UNCHANGED <<live, used, socks, cache, group, ctx, addr, requests, faults,
                   twice>>

\* connection_group_destroy reads the link before it puts the connection.
GroupDestroy ==
    /\ pc = "destroy" /\ glst # NULL
    /\ glst' = next[glst]
    /\ Put(glst)
    /\ UNCHANGED <<used, ok, gcnt, ctx, addr, pc, requests, faults>>

\* The transfer is restarted, or the request ends; context.conn is not put.
GroupGone ==
    /\ pc = "destroy" /\ glst = NULL
    /\ gcnt' = 0
    /\ pc' \in {"fill", "idle"}
    /\ UNCHANGED <<live, used, socks, cache, glst, ctx, addr, requests, faults, twice>>

\* The whole file has come on context.conn.
SingleReceived ==
    /\ pc = "single" /\ ctx \in live /\ fd[ctx] # Closed /\ wire[fd[ctx]] = "readable"
    /\ wire' = [wire EXCEPT ![fd[ctx]] = "quiet"]
    /\ UNCHANGED <<live, used, fd, opened, ok, cache, group, ctx, addr, pc, requests,
                   faults, twice>>

\* process_request_single_form ends, with its connection at an end or not, and
\* the connection is put into the cache; the same one serves the restart.
SingleForm ==
    /\ pc = "single"
    /\ ctx \in live
    /\ Put(ctx)
    /\ ok' \in {ok, ok \ {ctx}}
    /\ pc' \in {"single", "idle"}
    /\ UNCHANGED <<used, group, ctx, addr, requests, faults>>

\* connection_cleanup: ccache_destroy frees what the list holds, and then the table of
\* addresses its entries, the one that was freed again.
Cleanup ==
    /\ pc = "idle"
    /\ IF Ends(lst) /\ Listed(lst) \subseteq live /\ addr # "freed"
         THEN live' = live \ Listed(lst) /\ lst' = NULL /\ count' = 0 /\ pc' = "end"
         ELSE pc' = "died" /\ UNCHANGED <<live, lst, count>>
    /\ UNCHANGED <<used, socks, next, group, ctx, addr, requests, faults, twice>>

\* Memory that was freed is used.
Dies ==
    /\ \/ pc \in {"idle", "fill"} /\ GetDies
       \/ pc = "single" /\ ctx \notin live
    /\ pc' = "died"
    /\ UNCHANGED <<live, used, socks, cache, group, ctx, addr, requests, faults,
                   twice>>

Next ==
    \/ SetupProxy \/ ChooseForm \/ FillGroup \/ Perform
    \/ \E c \in Conns : Ask(c) \/ Finished(c) \/ CloseConnection(c)
    \/ \E f \in Fds : Arrive(f)
    \/ PerformReturns \/ GroupDestroy \/ GroupGone
    \/ SingleReceived \/ SingleForm \/ Cleanup \/ Dies

Spec == Init /\ [][Next]_vars

-------------------------------------------------------------------------------
(* Properties.                                                             *)

\* The type invariant.
CacheTypeOK ==
    /\ live \subseteq used /\ used \subseteq Conns /\ ok \subseteq Conns
    /\ fd \in [Conns -> Fds \cup {Closed}] /\ opened \subseteq Fds
    /\ wire \in [Fds -> {"quiet", "owing", "readable"}]
    /\ next \in [Conns -> Conns \cup {NULL}]
    /\ {lst, glst, ctx} \subseteq Conns \cup {NULL}
    /\ count \in 0..MAX_CONNS_PER_HOST /\ gcnt \in 0..GroupMax
    /\ addr \in Addresses
    /\ pc \in {"idle", "form", "fill", "perform", "destroy", "single", "end", "died"}
    /\ requests \in 0..MaxRequests /\ faults \in 0..MaxFaults /\ twice \in BOOLEAN

\* As long as no connection was put twice, count is the length of the cache, which
\* ends, holds no freed connection, and none of the group, although cache and group
\* are linked through the same field (connection_get, connection_put,
\* connection_group_destroy, connection_add_to_group).
ListsAreSound ==
    ~twice => /\ Ends(lst) /\ Listed(lst) \subseteq live
              /\ count = Cardinality(Listed(lst))
              /\ Listed(lst) \cap Listed(glst) = {}

\* Two connections never share a descriptor, whatever numbers the kernel gives out
\* again (close_connection, connection_get).
NoSharedDescriptor ==
    \A c, d \in live : c # d /\ fd[c] = fd[d] => fd[c] = Closed

\* Freed memory is used only after a connection was put twice, or the address that
\* was tried in vain was freed (connection_cleanup, connection_get).
DiesOfKnownCauses == pc = "died" => twice \/ addr = "freed"
===============================================================================
