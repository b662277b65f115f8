------------------------------ MODULE SelectLoop ------------------------------
(***************************************************************************)
(* The select() loop that drives a group of connections                    *)
(* (connection_perform / do_perform_select in src/src/lib/connection.c).   *)
(*                                                                         *)
(* The callbacks recv_data and write_data are not interpreted here: they   *)
(* may return any of the codes the loop distinguishes.  HttpPerform gives  *)
(* them the behaviour of the HTTP client.                                  *)
(*                                                                         *)
(* Connections are numbered in the order they were added to the group.     *)
(* The group list is built by pushing at its head, so a pass over it       *)
(* visits N, N-1, ..., 1.  A descriptor set is the set of the connections  *)
(* whose descriptor has its bit set; as the loop opens no descriptor, a    *)
(* bit always belongs to the connection that had it when the loop began.   *)
(***************************************************************************)
EXTENDS Integers, FiniteSets

CONSTANTS
    N,            \* number of connections in the group
    TimeOut,      \* TIME_OUT: seconds of silence a connection is allowed
    GroupWrites   \* TRUE: cg_all with a write_data callback (HTTP)
                  \* FALSE: cg_read, write_data is NULL (FTP data connections)

ASSUME LoopAssumption ==
    /\ N \in Nat \ {0}
    /\ TimeOut \in Nat \ {0}
    /\ GroupWrites \in BOOLEAN

Conns == 1..N

\* Seconds since last_access, counted up to the first value past TIME_OUT.
Idle == 0..(TimeOut + 1)

\* What recv_data may return.  "more" stands for a byte count or COF_AGAIN,
\* which the loop treats alike.
ReadResults == {"CLOSED", "FAILED", "FINISHED", "ABORT", "more"}

\* What write_data may return; "unknown" is every other value.
WriteResults == {"FINISHED", "MORE_DATA", "unknown"}

VARIABLES
    pc,       \* "select" | "scan" | "done" (returned) | "exit" (process over)
    pos,      \* the connection the pass over the group list looks at next
    rfds,     \* descriptor sets handed to, and overwritten by, select()
    wfds,
    efds,
    open,     \* connections whose sock is not -1
    active,   \* pconn->active
    eow,      \* connections whose expt has the eow bit
    eor,      \* connections whose expt has the eor bit
    idle,     \* seconds since pconn->last_access, while the loop waits for it
    cnt,      \* connections the loop still waits for
    stop      \* *group->cflag, raised by the SIGINT handler

fdsets == <<rfds, wfds, efds>>
conns == <<open, active, eow, eor, idle>>
vars == <<pc, pos, fdsets, conns, cnt, stop>>

-------------------------------------------------------------------------------
Polled == rfds \cup wfds \cup efds

Toggle(S, c) == IF c \in S THEN S \ {c} ELSE S \cup {c}

\* The clocks of the connections the loop waits for advance by d seconds; it does
\* not read those of the others.
Aged(d) == [c \in Conns |-> IF c \notin active THEN idle[c]
                            ELSE IF idle[c] + d > TimeOut THEN TimeOut + 1
                            ELSE idle[c] + d]

\* The state do_perform_select starts from: every connection was prepared by
\* connection_get, possibly several seconds ago.
LoopInit ==
    /\ pc = "select"
    /\ pos = 0
    /\ rfds = Conns
    /\ wfds = (IF GroupWrites THEN Conns ELSE {})
    /\ efds = Conns
    /\ open = Conns
    /\ active = Conns
    /\ eow = Conns
    /\ eor = Conns
    /\ idle \in [Conns -> Idle]
    /\ cnt = N
    /\ stop = FALSE

-------------------------------------------------------------------------------
(* The head of the loop.                                                   *)

\* *cflag is seen at the top of the loop, or select() fails with EINTR.
StopAtTop ==
    /\ pc = "select"
    /\ stop
    /\ pc' = "done"
    /\ UNCHANGED <<pos, fdsets, conns, cnt, stop>>

\* select() fails with EBADF: a set names a descriptor that was closed.
SelectFails ==
    /\ pc = "select"
    /\ ~stop
    /\ ~(Polled \subseteq open)
    /\ pc' = "done"
    /\ UNCHANGED <<pos, fdsets, conns, cnt, stop>>

\* Mutant: the connections given up for silence stay in the count.
SelectTimeoutUncounted(d) ==
    LET expired == {c \in active : Aged(d)[c] > TimeOut}
    IN  /\ pc = "select" /\ ~stop /\ Polled \subseteq open
        /\ idle' = Aged(d)
        /\ active' = active \ expired
        /\ open' = open \ expired
        /\ rfds' = active \ expired /\ wfds' = {} /\ efds' = {}
        /\ UNCHANGED <<pc, pos, eow, eor, cnt, stop>>

\* select() returns 0, having cleared the sets: one pass closes the active
\* connections that were silent for too long and polls the others for reading.
SelectTimeout(d) ==
    LET expired == {c \in active : Aged(d)[c] > TimeOut}
    IN  /\ pc = "select"
        /\ ~stop
        /\ Polled \subseteq open
        /\ idle' = Aged(d)
        /\ active' = active \ expired
        /\ open' = open \ expired
        /\ cnt' = cnt - Cardinality(expired)
        /\ rfds' = active \ expired
        /\ wfds' = {}
        /\ efds' = {}
        /\ pc' = IF cnt' = 0 THEN "done" ELSE "select"
        /\ UNCHANGED <<pos, eow, eor, stop>>

\* select() returns the descriptors that are ready, d seconds after the
\* clocks were last advanced; a pass over the group list begins.
SelectReady(d, R, W, E) ==
    /\ pc = "select"
    /\ ~stop
    /\ Polled \subseteq open
    /\ R \cup W \cup E # {}
    /\ rfds' = R
    /\ wfds' = W
    /\ efds' = E
    /\ idle' = Aged(d)
    /\ pc' = "scan"
    /\ pos' = N
    /\ UNCHANGED <<open, active, eow, eor, cnt, stop>>

-------------------------------------------------------------------------------
(* The pass over the group list: what happens to connection pos.           *)

Visiting(c) == pc = "scan" /\ pos = c /\ c \in Conns

\* Mutant: continue without going on to the next connection.
ScanSkipStays(c) ==
    /\ Visiting(c)
    /\ c \notin active
    /\ UNCHANGED vars

ScanSkip(c) ==
    /\ Visiting(c)
    /\ c \notin active
    /\ pos' = pos - 1
    /\ UNCHANGED <<pc, fdsets, conns, cnt, stop>>

\* Mutant: FD_CLR is missing after COF_FINISHED.
ScanWriteKeepsBit(c, ret) ==
    /\ Visiting(c) /\ c \in active \cap wfds /\ GroupWrites
    /\ eow' = IF ret = "FINISHED" THEN Toggle(eow, c) ELSE eow
    /\ rfds' = IF ret = "unknown" THEN rfds ELSE rfds \cup {c}
    /\ efds' = IF ret = "unknown" THEN efds ELSE efds \cup {c}
    /\ idle' = [idle EXCEPT ![c] = 0]
    /\ pos' = pos - 1
    /\ UNCHANGED <<pc, wfds, open, active, eor, cnt, stop>>

\* The write_data callback of c returned ret.
ScanWrite(c, ret) ==
    /\ Visiting(c)
    /\ c \in active \cap wfds
    /\ GroupWrites
    /\ eow' = IF ret = "FINISHED" THEN Toggle(eow, c) ELSE eow
    /\ wfds' = IF ret = "FINISHED" THEN wfds \ {c} ELSE wfds
    /\ rfds' = IF ret = "unknown" THEN rfds ELSE rfds \cup {c}
    /\ efds' = IF ret = "unknown" THEN efds ELSE efds \cup {c}
    /\ idle' = [idle EXCEPT ![c] = 0]
    /\ pos' = pos - 1
    /\ UNCHANGED <<pc, open, active, eor, cnt, stop>>

\* write_data is called although the group registered none: a call through a
\* null pointer ends the process.
ScanWriteNull(c) ==
    /\ Visiting(c)
    /\ c \in active \cap wfds
    /\ ~GroupWrites
    /\ pc' = "exit"
    /\ UNCHANGED <<pos, fdsets, conns, cnt, stop>>

\* Mutant: a finished connection stays active, and is counted off again.
ScanReadStaysActive(c, ret) ==
    /\ Visiting(c) /\ c \in (active \cap rfds) \ wfds
    /\ cnt' = IF ret = "FINISHED" THEN cnt - 1 ELSE cnt
    /\ rfds' = rfds \cup {c}
    /\ idle' = [idle EXCEPT ![c] = 0]
    /\ pos' = pos - 1
    /\ UNCHANGED <<pc, wfds, efds, open, active, eow, eor, stop>>

\* The recv_data callback of c returned ret.
ScanRead(c, ret) ==
    /\ Visiting(c)
    /\ c \in (active \cap rfds) \ wfds
    /\ idle' = [idle EXCEPT ![c] = 0]
    /\ \/ /\ ret \in {"CLOSED", "FAILED", "FINISHED"}
          /\ open' = IF ret = "FINISHED" THEN open ELSE open \ {c}
          /\ active' = active \ {c}
          /\ eor' = Toggle(eor, c)
          /\ cnt' = cnt - 1
          /\ pos' = pos - 1
          /\ UNCHANGED <<pc, rfds>>
       \/ /\ ret = "ABORT"
          /\ pc' = "exit"
          /\ UNCHANGED <<pos, rfds, open, active, eor, cnt>>
       \/ /\ ret = "more"
          /\ rfds' = rfds \cup {c}
          /\ pos' = pos - 1
          /\ UNCHANGED <<pc, open, active, eor, cnt>>
    /\ UNCHANGED <<wfds, efds, eow, stop>>

\* An exceptional condition: the connection is given up.
ScanExcept(c) ==
    /\ Visiting(c)
    /\ c \in (active \cap efds) \ (wfds \cup rfds)
    /\ open' = open \ {c}
    /\ active' = active \ {c}
    /\ cnt' = cnt - 1
    /\ pos' = pos - 1
    /\ UNCHANGED <<pc, fdsets, eow, eor, idle, stop>>

\* Mutant: only the set of exceptional conditions is armed again.
ScanRearmForgets(c) ==
    /\ Visiting(c)
    /\ c \in active \ Polled
    /\ efds' = efds \cup {c}
    /\ pos' = pos - 1
    /\ UNCHANGED <<pc, rfds, wfds, conns, cnt, stop>>

\* Nothing happened on c: poll it again for the operations it still expects.
ScanRearm(c) ==
    /\ Visiting(c)
    /\ c \in active \ Polled
    /\ rfds' = rfds \cup ({c} \cap eor)
    /\ wfds' = wfds \cup ({c} \cap eow)
    /\ efds' = efds \cup {c}
    /\ pos' = pos - 1
    /\ UNCHANGED <<pc, conns, cnt, stop>>

\* The end of the pass, and the bottom of the loop.
ScanEnd ==
    /\ pc = "scan"
    /\ pos = 0
    /\ pc' = IF cnt = 0 \/ stop THEN "done" ELSE "select"
    /\ UNCHANGED <<pos, fdsets, conns, cnt, stop>>

-------------------------------------------------------------------------------
\* The user presses Ctrl-C: sigterm_handler2 raises the control flag.
Interrupt ==
    /\ pc \in {"select", "scan"}
    /\ ~stop
    /\ stop' = TRUE
    /\ UNCHANGED <<pc, pos, fdsets, conns, cnt>>

\* Everything the process does; what is left of LoopNext is the user.
LoopStep ==
    \/ StopAtTop
    \/ SelectFails
    \/ \E d \in Idle \ {0} : SelectTimeout(d)
    \/ \E d \in Idle, R \in SUBSET rfds, W \in SUBSET wfds, E \in SUBSET efds :
           SelectReady(d, R, W, E)
    \/ \E c \in Conns : ScanSkip(c)
    \/ \E c \in Conns, ret \in WriteResults : ScanWrite(c, ret)
    \/ \E c \in Conns : ScanWriteNull(c)
    \/ \E c \in Conns, ret \in ReadResults : ScanRead(c, ret)
    \/ \E c \in Conns : ScanExcept(c)
    \/ \E c \in Conns : ScanRearm(c)
    \/ ScanEnd

LoopNext == LoopStep \/ Interrupt

LoopSpec == LoopInit /\ [][LoopNext]_vars

\* The process keeps running; select() waits for one second at most.
FairLoopSpec == LoopSpec /\ WF_vars(LoopStep)

-------------------------------------------------------------------------------
(* Properties.                                                             *)

\* The type invariant: the states the loop's variables range over.
LoopTypeOK ==
    /\ pc \in {"select", "scan", "done", "exit"}
    /\ pos \in 0..N
    /\ rfds \subseteq Conns /\ wfds \subseteq Conns /\ efds \subseteq Conns
    /\ open \subseteq Conns /\ active \subseteq Conns
    /\ eow \subseteq Conns /\ eor \subseteq Conns
    /\ idle \in [Conns -> Idle]
    /\ cnt \in 0..N
    /\ stop \in BOOLEAN

\* The count the loop ends on is decremented in three places, by different
\* paths: it always is the number of connections still to be served, so that
\* the loop neither returns early nor waits for a connection that is gone.
CntIsActive == cnt = Cardinality(active)

\* The loop never hands the descriptor of a closed connection (sock = -1) to
\* a callback or to FD_SET: a connection it still serves is open.
ActiveIsOpen == active \subseteq open

\* No connection is forgotten: whenever the loop enters select(), each
\* connection it still waits for is polled for reading or for writing, through
\* every order of timeouts, re-arming and callbacks.
ActiveIsWatched == pc = "select" => active \subseteq rfds \cup wfds

\* A connection whose write_data has returned COF_FINISHED is not asked to
\* write again: expt is toggled with ^=, so a second COF_FINISHED would set the
\* bit again and the request would be sent for ever.
WrittenIsNotPolled == active \cap wfds \subseteq eow

\* Ctrl-C is obeyed: once the flag is up, the pass in progress ends and the loop
\* returns (if the callbacks do), whatever the connections are doing.
InterruptIsObeyed == stop ~> pc \in {"done", "exit"}
===============================================================================
