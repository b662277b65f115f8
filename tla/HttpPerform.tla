----------------------------- MODULE HttpPerform -----------------------------
(***************************************************************************)
(* One call of connection_perform as process_request_multi_form makes it:  *)
(* the select() loop of SelectLoop with the HTTP callbacks http_read_sock  *)
(* and http_write_sock (src/src/lib/protocols/http/http.c), the sockets    *)
(* they block on, and the server at the other end.                         *)
(*                                                                         *)
(* Connection c fetches chunk c of the file: positions First(c) up to, not *)
(* including, Last(c).  The callbacks run inside the pass over the group   *)
(* list, and tcp_connection_read waits without a limit for something to    *)
(* read: while a callback is blocked the whole loop is.                    *)
(***************************************************************************)
EXTENDS SelectLoop

CONSTANTS
    ChunkLen,   \* bytes of a chunk
    HeadRoom,   \* body bytes that fit in the read that completes a header
    Answers,    \* the answers the server may give: the range, the whole file, or another
    Drops       \* how a connection may break: a subset of Broken

Broken == {"closed", "reset"}

ASSUME HttpAssumption ==
    /\ GroupWrites
    /\ ChunkLen \in Nat \ {0}
    /\ HeadRoom \in Nat
    /\ Answers \subseteq {"range", "whole", "other"}
    /\ Drops \subseteq Broken

FileSize == N * ChunkLen
First(c) == (c - 1) * ChunkLen
Last(c) == c * ChunkLen
NotAsked == FileSize

VARIABLES
    cur,    \* dp->cur_pos of each chunk
    hdr,    \* connections with header_finished
    half,   \* parts of the header get_response holds in its buffer
    eintr,  \* the blocked read was interrupted by a signal
    file,   \* for each position, the position of the byte stored there, or NotAsked
    link,   \* "connecting" | "up" | "closed" (end of file) | "reset"
    ask,    \* first position of the request the server got, or NotAsked
    reply,  \* the server's answer, or "none"
    hq,     \* parts of the header waiting in the socket
    src,    \* position of the next body byte to be read from the socket
    pend,   \* body bytes waiting in the socket
    left    \* body bytes the server has still to send

chunks == <<cur, hdr, half, file>>
net == <<link, ask, reply, hq, src, pend, left>>
httpVars == <<vars, chunks, eintr, net>>

-------------------------------------------------------------------------------
Least(a, b) == IF a < b THEN a ELSE b

Readable(c) == hq[c] > 0 \/ pend[c] > 0 \/ link[c] \in Broken

Writable(c) == link[c] # "connecting"

\* The callback recv_data of c is running: it reads the header, then the body.
Reading(c) == Visiting(c) /\ c \in (active \cap rfds) \ wfds

Blocked == \E c \in Conns : Reading(c) /\ ~Readable(c) /\ ~eintr

\* Mutant: cur_pos is advanced twice for the same bytes.
StoreTwice(c, n) ==
    /\ file' = [p \in DOMAIN file |-> IF p \in cur[c]..(cur[c] + n - 1)
                                         THEN src[c] + (p - cur[c]) ELSE file[p]]
    /\ cur' = [cur EXCEPT ![c] = @ + 2 * n]
    /\ src' = [src EXCEPT ![c] = @ + n]
    /\ pend' = [pend EXCEPT ![c] = @ - n]

\* n bytes read from the socket of c are stored at cur_pos, past the end of the
\* chunk if need be, and cur_pos moves on.
Store(c, n) ==
    /\ file' = [p \in DOMAIN file |-> IF p \in cur[c]..(cur[c] + n - 1)
                                         THEN src[c] + (p - cur[c]) ELSE file[p]]
    /\ cur' = [cur EXCEPT ![c] = @ + n]
    /\ src' = [src EXCEPT ![c] = @ + n]
    /\ pend' = [pend EXCEPT ![c] = @ - n]

\* A connection is made for each unfinished chunk, possibly one that an earlier
\* run has begun; it is a fresh one, or an idle one taken from the cache.
HttpInit ==
    /\ LoopInit
    /\ cur \in {f \in [Conns -> 0..(FileSize - 1)] :
                    \A c \in Conns : f[c] \in First(c)..(Last(c) - 1)}
    /\ hdr = {}
    /\ half = 0
    /\ eintr = FALSE
    /\ file = [p \in 0..(FileSize - 1) |->
                  IF \E c \in Conns : p \in First(c)..(cur[c] - 1) THEN p ELSE NotAsked]
    /\ link \in [Conns -> {"connecting", "up"}]
    /\ ask = [c \in Conns |-> NotAsked]
    /\ reply = [c \in Conns |-> "none"]
    /\ hq = [c \in Conns |-> 0]
    /\ src = [c \in Conns |-> 0]
    /\ pend = [c \in Conns |-> 0]
    /\ left = [c \in Conns |-> 0]

-------------------------------------------------------------------------------
(* The loop.                                                               *)

\* select() returns everything that is ready, as soon as something is.
HttpSelect(d) ==
    LET R == {c \in rfds : Readable(c)}
        W == {c \in wfds : Writable(c)}
    IN  /\ SelectReady(d, R, W, {}) \/ (R \cup W = {} /\ d > 0 /\ SelectTimeout(d))
        /\ UNCHANGED <<chunks, eintr, net>>

\* The steps of the loop in which no callback has a part.
HttpLoop ==
    /\ \/ StopAtTop
       \/ SelectFails
       \/ \E c \in Conns : ScanSkip(c) \/ ScanRearm(c)
       \/ ScanEnd
    /\ UNCHANGED <<chunks, eintr, net>>

\* request_send: the request for what begins at from is written.  Whether it could be
\* sent is ignored; a failing write takes the pending error off the socket.
RequestSend(c, from) ==
    /\ ask' = IF link[c] = "up" THEN [ask EXCEPT ![c] = from] ELSE ask
    /\ link' = IF link[c] = "reset" THEN [link EXCEPT ![c] = "closed"] ELSE link

\* Mutant: a resumed chunk is asked for from its start.
HttpWriteFromStart(c) ==
    /\ ScanWrite(c, "FINISHED")
    /\ RequestSend(c, First(c))
    /\ UNCHANGED <<chunks, eintr, reply, hq, src, pend, left>>

\* http_write_sock asks for what the chunk lacks.
HttpWrite(c) ==
    /\ ScanWrite(c, "FINISHED")
    /\ RequestSend(c, cur[c])
    /\ UNCHANGED <<chunks, eintr, reply, hq, src, pend, left>>

-------------------------------------------------------------------------------
(* http_read_sock: the header.                                             *)

\* get_response has read a part of the header and reads on.
HeadPart(c) ==
    /\ Reading(c) /\ c \notin hdr /\ ~eintr
    /\ hq[c] > 0
    /\ half + hq[c] < 2
    /\ half' = half + hq[c]
    /\ hq' = [hq EXCEPT ![c] = 0]
    /\ UNCHANGED <<vars, cur, hdr, file, eintr, link, ask, reply, src, pend, left>>

\* The connection ends, or the read is interrupted, before the header does.
HeadLost(c) ==
    /\ Reading(c) /\ c \notin hdr
    /\ eintr \/ (hq[c] = 0 /\ link[c] \in Broken)
    /\ ScanRead(c, "CLOSED")
    /\ half' = 0
    /\ eintr' = FALSE
    /\ UNCHANGED <<cur, hdr, file, net>>

HeadArrives(c) ==
    /\ Reading(c) /\ c \notin hdr /\ ~eintr
    /\ hq[c] > 0
    /\ half + hq[c] = 2
    /\ half' = 0
    /\ hq' = [hq EXCEPT ![c] = 0]
    /\ UNCHANGED <<eintr, link, ask, reply, left>>

\* Status 206 or 200: all the body bytes in the buffer are copied.  A chunk that
\* is complete now makes http_read_sock return 0, COF_CLOSED; otherwise it goes
\* on to read the body.
HeadAccepted(c) ==
    LET n == Least(pend[c], HeadRoom)
    IN  /\ HeadArrives(c)
        /\ reply[c] \in {"range", "whole"}
        /\ Store(c, n)
        /\ hdr' = hdr \cup {c}
        /\ IF cur'[c] = Last(c) THEN ScanRead(c, "CLOSED") ELSE UNCHANGED vars

\* Status 301, 302, 303 or 307 closes the connection, any other ends the program.
HeadRefused(c) ==
    /\ HeadArrives(c)
    /\ reply[c] = "other"
    /\ ScanRead(c, "CLOSED") \/ ScanRead(c, "ABORT")
    /\ UNCHANGED <<cur, hdr, file, src, pend>>

-------------------------------------------------------------------------------
(* http_read_sock: the body, read straight into the mapped file.           *)

\* What http_read_sock returns when its read did not bring the chunk further:
\* a complete chunk is finished whatever the read returned.
Returned(c, ret) == IF cur[c] >= Last(c) THEN "FINISHED" ELSE ret

\* Mutant: a chunk is complete only when cur_pos is past its end.
BodyReadGoesOn(c) ==
    LET n == IF cur[c] <= Last(c) THEN Least(pend[c], Last(c) - cur[c]) ELSE pend[c]
    IN  /\ Reading(c) /\ c \in hdr /\ ~eintr
        /\ pend[c] > 0
        /\ Store(c, n)
        /\ ScanRead(c, IF cur[c] + n > Last(c) THEN "FINISHED" ELSE "more")
        /\ UNCHANGED <<hdr, half, eintr, link, ask, reply, hq, left>>

\* The room left in the chunk bounds the read; the length is unsigned, so it
\* bounds nothing once cur_pos is past the end.  (It is an uint32: what is left of a
\* chunk is less than 4 GiB here; SecureRead has what happens when it is not.)
BodyRead(c) ==
    LET n == IF cur[c] <= Last(c) THEN Least(pend[c], Last(c) - cur[c]) ELSE pend[c]
    IN  /\ Reading(c) /\ c \in hdr /\ ~eintr
        /\ pend[c] > 0
        /\ Store(c, n)
        /\ ScanRead(c, IF cur[c] + n >= Last(c) THEN "FINISHED" ELSE "more")
        /\ UNCHANGED <<hdr, half, eintr, link, ask, reply, hq, left>>

\* Mutant: the end of the stream is taken for the end of the chunk.
BodyEndFinishes(c) ==
    /\ Reading(c) /\ c \in hdr
    /\ eintr \/ (pend[c] = 0 /\ link[c] = "closed")
    /\ ScanRead(c, "FINISHED")
    /\ eintr' = FALSE
    /\ UNCHANGED <<chunks, net>>

\* Mutant: a read of 0 bytes is taken for "no data yet".
BodyEndGoesOn(c) ==
    /\ Reading(c) /\ c \in hdr
    /\ eintr \/ (pend[c] = 0 /\ link[c] = "closed")
    /\ ScanRead(c, "more")
    /\ eintr' = FALSE
    /\ UNCHANGED <<chunks, net>>

\* End of file, or the wait was interrupted: the read returns 0.
BodyEnd(c) ==
    /\ Reading(c) /\ c \in hdr
    /\ eintr \/ (pend[c] = 0 /\ link[c] = "closed")
    /\ ScanRead(c, Returned(c, "CLOSED"))
    /\ eintr' = FALSE
    /\ UNCHANGED <<chunks, net>>

\* Any other error of the read.
BodyFails(c) ==
    /\ Reading(c) /\ c \in hdr /\ ~eintr
    /\ pend[c] = 0 /\ link[c] = "reset"
    /\ ScanRead(c, Returned(c, "ABORT"))
    /\ UNCHANGED <<chunks, eintr, net>>

-------------------------------------------------------------------------------
(* The user and the network.                                               *)

\* Ctrl-C raises the flag; a read the process is blocked in fails with EINTR.
HttpInterrupt ==
    /\ Interrupt \/ (stop /\ Blocked /\ UNCHANGED vars)
    /\ eintr' = Blocked
    /\ UNCHANGED <<chunks, net>>

Running == pc \in {"select", "scan"}

\* The outcome of an asynchronous connect().
Connect(c) ==
    /\ Running /\ c \in open /\ link[c] = "connecting"
    /\ \E l \in {"up"} \cup (Drops \cap {"closed"}) : link' = [link EXCEPT ![c] = l]
    /\ UNCHANGED <<vars, chunks, eintr, ask, reply, hq, src, pend, left>>

\* The server begins to answer.  The last position of the Range header is
\* inclusive but end_pos is not in the chunk, so a range is one byte longer
\* than the chunk needs, unless the file ends there.  A server that does not
\* know ranges sends the whole file.
Reply(c) ==
    /\ Running /\ c \in open /\ link[c] = "up"
    /\ ask[c] # NotAsked /\ reply[c] = "none"
    /\ \E r \in Answers :
           /\ reply' = [reply EXCEPT ![c] = r]
           /\ src' = [src EXCEPT ![c] = IF r = "range" THEN ask[c] ELSE 0]
           /\ left' = [left EXCEPT ![c] =
                  CASE r = "range" -> Least(Last(c) + 1, FileSize) - ask[c]
                    [] r = "whole" -> FileSize
                    [] OTHER -> 0]
    /\ hq' = [hq EXCEPT ![c] = 1]
    /\ UNCHANGED <<vars, chunks, eintr, link, ask, pend>>

\* The parts of the header sent so far.
HeadSent(c) == hq[c] + (IF pos = c /\ pc = "scan" THEN half ELSE 0)

\* The rest of the header arrives.
ReplyHead(c) ==
    /\ Running /\ c \in open /\ link[c] = "up"
    /\ reply[c] # "none" /\ c \notin hdr /\ HeadSent(c) = 1
    /\ hq' = [hq EXCEPT ![c] = @ + 1]
    /\ UNCHANGED <<vars, chunks, eintr, link, ask, reply, src, pend, left>>

\* A byte of the body arrives.
ReplyBody(c) ==
    /\ Running /\ c \in open /\ link[c] = "up"
    /\ c \in hdr \/ HeadSent(c) = 2
    /\ left[c] > 0
    /\ pend' = [pend EXCEPT ![c] = @ + 1]
    /\ left' = [left EXCEPT ![c] = @ - 1]
    /\ UNCHANGED <<vars, chunks, eintr, link, ask, reply, hq, src>>

\* The server closes a connection it has answered, after a while.
HangUp(c) ==
    /\ Running /\ c \in open /\ link[c] = "up"
    /\ reply[c] # "none" /\ left[c] = 0
    /\ c \in hdr \/ HeadSent(c) = 2
    /\ link' = [link EXCEPT ![c] = "closed"]
    /\ UNCHANGED <<vars, chunks, eintr, ask, reply, hq, src, pend, left>>

\* The connection breaks.  What has arrived can still be read.
Drop(c) ==
    /\ Running /\ c \in open /\ link[c] = "up"
    /\ \E l \in Drops : link' = [link EXCEPT ![c] = l]
    /\ UNCHANGED <<vars, chunks, eintr, ask, reply, hq, src, pend, left>>

-------------------------------------------------------------------------------
HttpStep ==
    \/ \E d \in Idle : HttpSelect(d)
    \/ HttpLoop
    \/ \E c \in Conns : HttpWrite(c)
    \/ \E c \in Conns : HeadPart(c) \/ HeadLost(c) \/ HeadAccepted(c) \/ HeadRefused(c)
    \/ \E c \in Conns : BodyRead(c) \/ BodyEnd(c) \/ BodyFails(c)

Serve(c) == Connect(c) \/ Reply(c) \/ ReplyHead(c) \/ ReplyBody(c)

HttpNext ==
    \/ HttpStep
    \/ HttpInterrupt
    \/ \E c \in Conns : Serve(c) \/ HangUp(c) \/ Drop(c)

HttpSpec == HttpInit /\ [][HttpNext]_httpVars

\* The process runs, the server answers, and it does not keep a connection
\* open for ever after its answer.
FairHttpSpec ==
    /\ HttpSpec
    /\ WF_httpVars(HttpStep)
    /\ \A c \in Conns : WF_httpVars(Serve(c) \/ HangUp(c))

-------------------------------------------------------------------------------
(* Properties.                                                             *)

\* The type invariant: each position stays within one byte of its chunk, and
\* what is in flight within one byte of a file.
HttpTypeOK ==
    /\ LoopTypeOK
    /\ \A c \in Conns : cur[c] \in First(c)..(Last(c) + 1)
    /\ hdr \subseteq Conns /\ half \in 0..1 /\ eintr \in BOOLEAN
    /\ file \in [0..(FileSize - 1) -> 0..FileSize]
    /\ link \in [Conns -> {"connecting", "up"} \cup Broken]
    /\ ask \in [Conns -> 0..FileSize]
    /\ reply \in [Conns -> Answers \cup {"none"}]
    /\ hq \in [Conns -> 0..2]
    /\ src \in [Conns -> 0..FileSize]
    /\ pend \in [Conns -> 0..FileSize] /\ left \in [Conns -> 0..FileSize]

\* What is counted as received is right: every position of a chunk below its
\* cur_pos holds the byte the file has there, whichever callbacks were
\* interleaved, cut short or resumed, and whatever a neighbour wrote past its end.
ReceivedIsRight ==
    \A c \in Conns : \A p \in First(c)..(Least(cur[c], Last(c)) - 1) : file[p] = p

\* A connection that is over but not closed, which connection_put may give to
\* another request, has received its whole chunk.
KeptIsComplete == \A c \in open \ active : cur[c] >= Last(c)

\* The loop waits for no chunk that is complete: http_read_sock would return 0
\* for it at once, and the loop would take that for a closed connection.
WaitedIsIncomplete == pc = "select" => \A c \in active : cur[c] < Last(c)

\* The loop with these callbacks is the loop of SelectLoop: no callback does
\* more to the state of the loop than its result lets the loop do.
ImplementsLoop == LoopSpec

\* Every call of connection_perform returns, or ends the program: with a server
\* that answers each request and then hangs up, no callback stays blocked and
\* the loop stops waiting for every connection.
PerformEnds == <>(pc \in {"done", "exit"})
===============================================================================
