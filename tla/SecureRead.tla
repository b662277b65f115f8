------------------------------ MODULE SecureRead ------------------------------
(***************************************************************************)
(* Reading an answer over HTTPS: secure_socket_read of the OpenSSL plugin, *)
(* under the two callers that fetch a body of known length, http_read_sock *)
(* in the select loop ("multi") and receive_limited_data ("limited"), and  *)
(* under get_response for a probe that is answered by a redirection        *)
(* ("probe").                                                              *)
(*                                                                         *)
(* TLS delivers whole records, of which a call of SSL_read gives one at    *)
(* most.  select() sees what is in the socket, not what is left of a record*)
(* inside the library; secure_socket_read therefore takes a record to its  *)
(* end and keeps in a queue of its own what the caller has no room for.    *)
(* A byte is its position in the answer, header and body.  OpenSSL, the    *)
(* socket and the server are modelled from how the plugin uses them.       *)
(***************************************************************************)
EXTENDS Integers, Sequences, FiniteSets

CONSTANTS
    Callers,    \* the callers there may be
    PAGE,       \* what a read of the header, or of receive_limited_data, asks for
    HeadLens,   \* lengths the header may have
    Needs,      \* what may be left of a chunk
    BodyLen,    \* length of a file that is read to its end, or of a redirection
    Half,       \* 2^31: a length is passed as uint32 and looked at as int
    MaxRecord,  \* the longest record
    Window,     \* bound: records in the socket
    MaxStirs    \* bound: times the socket is readable without a record being complete

ASSUME SecureAssumption ==
    /\ Callers \subseteq {"multi", "limited", "probe"}
    /\ PAGE \in Nat \ {0} /\ HeadLens \subseteq Nat \ {0}
    /\ Needs \subseteq Nat \ {0} /\ BodyLen \in Nat \ {0}
    /\ MaxRecord \in Nat \ {0} /\ Window \in Nat \ {0}
    /\ Half \in Nat /\ 2 * PAGE <= Half /\ PAGE + MaxRecord < Half
    /\ MaxStirs \in Nat

VARIABLES
    caller,   \* who reads
    head,     \* the length of the header
    need,     \* how much of the body it is to receive
    total,    \* the length of the answer
    pc,       \* in the plugin: "shake" | "ask" | "read" | "wait" | "ssl" | "more"
              \* in the loop: "select"; over: "done" | "closed" | "exit" | "undefined"
    size,     \* what the read in progress still has room for
    out,      \* what the caller has received
    ret,      \* what the read in progress has put into the caller's buffer
    rec,      \* what SSL_pending counts: the rest of the record being read
    q, cap,   \* wrapper->bq: its content, and the length of its block
    sent,     \* what the server has sent
    ends,     \* where the records in the socket end
    fed,      \* how much of that SSL_read has taken out of the socket
    part,     \* the socket is readable, but for a record that is not complete
    link,     \* "up", or how the connection ended: "notify" | "eof" | "reset" | "error"
    asked,    \* the request was sent
    stop, stirs

task == <<caller, head, need, total>>
queue == <<q, cap>>
net == <<sent, ends, link, stirs>>
ssl == <<rec, fed, part>>
vars == <<task, pc, size, out, ret, queue, ssl, net, asked, stop>>

Ended == {"done", "closed", "exit", "undefined"}
Least(a, b) == IF a < b THEN a ELSE b
Stream(n) == [i \in 1..n |-> i]
Cur == Len(out) - head   \* how much of the body has been received
InHead == Cur < 0
U32 == 2 * Half

\* What is left of the chunk is an uint64; co.read takes an uint32.
Asked == (need - Cur) % U32

\* A chunk may have been begun before, and is asked for with one byte too many unless
\* it is the last.  A redirection may have a body, which nobody wants.
Init ==
    /\ head \in HeadLens
    /\ \/ /\ caller = "multi" /\ need \in Needs
          /\ total \in {head + need, head + need + 1}
       \/ caller = "limited" /\ need = BodyLen /\ total = head + need
       \/ caller = "probe" /\ need = BodyLen /\ total \in {head, head + need}
    /\ caller \in Callers /\ pc = "shake" /\ size = 0 /\ out = <<>> /\ ret = <<>> /\ rec = <<>>
    /\ q = <<>> /\ cap = PAGE
    /\ sent = 0 /\ ends = {} /\ fed = 0 /\ part = FALSE /\ link = "up"
    /\ asked = FALSE /\ stop = FALSE /\ stirs = 0

\* bq_init(PAGE)
NewQueue == q' = <<>> /\ cap' = PAGE

\* Mutant: a block is added whether there is room or not.
EnlargedAlways(len) == cap + PAGE

\* The length of the block after bq_enlarge(bq, PAGE), when len of it is in use.
Enlarged(len) == IF PAGE > cap - len THEN cap + PAGE ELSE cap

Readable == fed < sent \/ part \/ link # "up"

-------------------------------------------------------------------------------
(* make_socket_secure and secure_socket_write.                             *)

\* A connection that has spoken TLS before does not understand a second handshake.
Handshake ==
    /\ pc = "shake"
    /\ pc' = IF link = "up" /\ ~asked THEN "ask" ELSE "exit"
    /\ UNCHANGED <<task, size, out, ret, queue, ssl, net, asked, stop>>

\* The connection that brought a redirection is put into the cache still connected, and
\* is used again when validate_connection finds nothing in it: ssl_destroy, and a new
\* wrapper with a new queue on the old socket.  One that brought a chunk is not connected
\* any more; it is given a new socket, with which everything begins as in Init.
Again ==
    /\ pc = "done" /\ caller = "probe" /\ link = "up" /\ ~Readable
    /\ pc' = "shake"
    /\ NewQueue /\ rec' = <<>>
    /\ UNCHANGED <<task, size, out, ret, fed, part, net, asked, stop>>

\* secure_connection_write: SSL_write takes the whole request while the connection is up.
Written == link = "up"

\* The request is written; get_response of the probe reads at once, a transfer goes
\* back to the loop.
Ask ==
    /\ pc = "ask"
    /\ IF Written
         THEN /\ asked' = TRUE
              /\ pc' = IF caller = "multi" THEN "select" ELSE "read"
              /\ size' = PAGE
         ELSE pc' = "exit" /\ UNCHANGED <<asked, size>>
    /\ UNCHANGED <<task, out, ret, queue, ssl, net, stop>>

-------------------------------------------------------------------------------
(* The caller: get_response, http_read_sock, receive_limited_data.         *)

\* The loop calls http_read_sock, which reads the header into a new buffer, or the
\* body up to the end of the chunk.
Select ==
    /\ pc = "select" /\ Readable
    /\ pc' = "read"
    /\ size' = IF InHead THEN PAGE ELSE Asked
    /\ UNCHANGED <<task, out, ret, queue, ssl, net, asked, stop>>

\* TIME_OUT seconds of silence.
Silence ==
    /\ pc = "select" /\ ~Readable
    /\ pc' = "closed"
    /\ UNCHANGED <<task, size, out, ret, queue, ssl, net, asked, stop>>

\* The read returns the bytes s, with room left in the buffer.  The header is read
\* until it is complete, and the bytes of the body that came with it are kept; a chunk
\* that is complete with them makes http_read_sock return COF_CLOSED.  A probe wants no more.
Deliver(s, room) ==
    LET cur == Len(out) + Len(s) - head
        rest == need - cur
    IN  /\ out' = out \o s
        /\ ret' = <<>>
        /\ \/ /\ cur < 0
              /\ pc' = "read" /\ size' = IF PAGE > room THEN room + PAGE ELSE room
           \/ /\ cur >= 0 /\ caller = "multi" /\ InHead
              /\ pc' = IF rest = 0 THEN "closed" ELSE "read"
              /\ size' = rest % U32
           \/ /\ cur >= 0 /\ caller = "multi" /\ ~InHead
              /\ pc' = IF rest <= 0 THEN "done" ELSE "select"
              /\ UNCHANGED size
           \/ /\ cur >= 0 /\ caller = "limited"
              /\ pc' = IF rest <= 0 THEN "done" ELSE "read"
              /\ size' = PAGE
           \/ cur >= 0 /\ caller = "probe" /\ pc' = "done" /\ UNCHANGED size

\* The read returns 0: the header, the chunk or the file is given up.
Lost ==
    /\ pc' = "closed"
    /\ UNCHANGED <<size, out, ret>>

\* The read returns -1.  get_response takes it for a length, and moves the end of its
\* buffer below the start.  http_read_sock returns COF_ABORT, or, if errno still is the
\* EAGAIN of an earlier call, -1, which is COF_FINISHED.
Failed ==
    /\ \/ InHead /\ pc' = "undefined"
       \/ ~InHead /\ caller = "limited" /\ pc' = "closed"
       \/ ~InHead /\ caller = "multi" /\ pc' \in {"exit", "done"}
    /\ UNCHANGED <<size, out, ret>>

-------------------------------------------------------------------------------
(* secure_socket_read                                                      *)

\* What secure_socket_has_more and secure_socket_read look at first.
HasMore == q # <<>>

\* The length is negative when looked at as an int.  Either the bytes that came with the
\* header went past the end of the chunk, which is finished then, or 2 GiB or more of it
\* are left, and the read fails.
ReadRejected ==
    /\ pc = "read" /\ size >= Half
    /\ IF Cur >= need THEN pc' = "done" /\ UNCHANGED <<size, out, ret>> ELSE Failed
    /\ UNCHANGED <<task, queue, ssl, net, asked, stop>>

\* Mutant: the read position of the queue is not moved on.
ReadQueueAgain ==
    /\ pc = "read" /\ size < Half /\ HasMore
    /\ LET n == Least(size, Len(q))
       IN  IF n = 0 THEN Lost ELSE Deliver(SubSeq(q, 1, n), size - n)
    /\ UNCHANGED <<task, queue, ssl, net, asked, stop>>

\* What the queue holds is handed out first, and alone.  A multiple of 4 GiB is asked for
\* as 0 bytes, and 0 is what the read returns.
ReadQueue ==
    /\ pc = "read" /\ size < Half /\ HasMore
    /\ LET n == Least(size, Len(q))
       IN  /\ IF n = 0 THEN Lost ELSE Deliver(SubSeq(q, 1, n), size - n)
           /\ q' = SubSeq(q, n + 1, Len(q))
    /\ UNCHANGED <<task, cap, ssl, net, asked, stop>>

ReadSocket ==
    /\ pc = "read" /\ size < Half /\ ~HasMore
    /\ pc' = "wait"
    /\ UNCHANGED <<task, size, out, ret, queue, ssl, net, asked, stop>>

\* timed_wait without a limit.
Wait ==
    /\ pc = "wait" /\ Readable
    /\ pc' = "ssl"
    /\ UNCHANGED <<task, size, out, ret, queue, ssl, net, asked, stop>>

\* Mutant: goto read, not retry: the record is asked for again at once.
SslWantsMoreAtOnce ==
    /\ pc = "ssl" /\ fed = sent /\ part
    /\ UNCHANGED vars

\* SSL_ERROR_WANT_READ
SslWantsMore ==
    /\ pc = "ssl" /\ fed = sent /\ part
    /\ part' = FALSE
    /\ pc' = "wait"
    /\ UNCHANGED <<task, size, out, ret, queue, rec, fed, net, asked, stop>>

\* The next record, of which the caller takes what it has room for.
FirstEnd == CHOOSE e \in ends : \A d \in ends : e <= d
Record == [i \in 1..(FirstEnd - fed) |-> fed + i]

\* SSL_read into the buffer of the caller.  If the record is not exhausted the buffer
\* is full, and the rest goes to the queue, which is empty.
SslRead ==
    /\ pc = "ssl" /\ fed < sent /\ size > 0
    /\ fed' = FirstEnd /\ ends' = ends \ {FirstEnd}
    /\ IF Len(Record) <= size
         THEN Deliver(Record, size - Len(Record)) /\ UNCHANGED <<rec, cap>>
         ELSE /\ ret' = SubSeq(Record, 1, size)
              /\ rec' = SubSeq(Record, size + 1, Len(Record))
              /\ cap' = Enlarged(Len(q))
              /\ size' = cap' - Len(q)
              /\ pc' = "more"
              /\ UNCHANGED out
    /\ UNCHANGED <<task, q, part, sent, link, stirs, asked, stop>>

\* SSL_read of 0 bytes returns 0, which is taken for an end without close_notify.
SslReadNone ==
    /\ pc = "ssl" /\ fed < sent /\ size = 0
    /\ Failed
    /\ UNCHANGED <<task, queue, ssl, net, asked, stop>>

\* Mutant: SSL_pending is not asked again after a read into the queue.
SslMoreOnce ==
    LET n == Least(size, Len(rec))
    IN  /\ pc = "more"
        /\ q' = q \o SubSeq(rec, 1, n)
        /\ rec' = SubSeq(rec, n + 1, Len(rec))
        /\ Deliver(ret, 0)
        /\ UNCHANGED <<task, cap, fed, part, net, asked, stop>>

\* SSL_read into the queue.  From the room that is left is taken what the caller got,
\* not what the queue got, so that the next read may be given room behind the block.
SslMore ==
    LET n == Least(size, Len(rec))
        len == Len(q) + n
        left == size - Len(ret)
    IN  /\ pc = "more"
        /\ q' = q \o SubSeq(rec, 1, n)
        /\ rec' = SubSeq(rec, n + 1, Len(rec))
        /\ IF len > cap
             THEN pc' = "undefined" /\ UNCHANGED <<size, out, ret, cap>>
             ELSE IF rec' = <<>>
               THEN Deliver(ret, 0) /\ UNCHANGED cap
               ELSE /\ cap' = IF left <= 0 THEN Enlarged(len) ELSE cap
                    /\ size' = IF left <= 0 THEN cap' - len ELSE left
                    /\ UNCHANGED <<pc, out, ret>>
        /\ UNCHANGED <<task, fed, part, net, asked, stop>>

\* The connection ended: close_notify gives 0, an error of the socket -1, and an error of
\* the protocol ends the process.
SslEnds ==
    /\ pc = "ssl" /\ fed = sent /\ ~part
    /\ \/ link = "notify" /\ Lost
       \/ link \in {"eof", "reset"} /\ Failed
       \/ link = "error" /\ pc' = "exit" /\ UNCHANGED <<size, out, ret>>
    /\ UNCHANGED <<task, queue, ssl, net, asked, stop>>

-------------------------------------------------------------------------------
(* The user and the server.                                                *)

\* Ctrl-C makes the wait in progress fail: the handshake aborts, a write returns 0,
\* which nobody looks at, a read returns 0, the loop ends.
Interrupt ==
    /\ ~stop /\ stop' = TRUE
    /\ \/ pc = "shake" /\ pc' = "exit" /\ UNCHANGED size
       \/ /\ pc = "ask" /\ size' = PAGE
          /\ pc' = IF caller = "multi" THEN "closed" ELSE "read"
       \/ pc \in {"select", "wait"} /\ pc' = "closed" /\ UNCHANGED size
    /\ UNCHANGED <<task, out, ret, queue, ssl, net, asked>>

Send ==
    /\ asked /\ link = "up" /\ Cardinality(ends) < Window
    /\ \E n \in 1..MaxRecord :
          sent + n <= total /\ sent' = sent + n /\ ends' = ends \cup {sent + n}
    /\ UNCHANGED <<task, pc, size, out, ret, queue, ssl, link, stirs, asked, stop>>

Stir ==
    /\ link = "up" /\ stirs < MaxStirs
    /\ stirs' = stirs + 1 /\ part' = TRUE
    /\ UNCHANGED <<task, pc, size, out, ret, queue, rec, fed, sent, ends, link, asked, stop>>

HangUp ==
    /\ link = "up"
    /\ link' \in {"notify", "eof", "reset", "error"}
    /\ UNCHANGED <<task, pc, size, out, ret, queue, ssl, sent, ends, stirs, asked, stop>>

-------------------------------------------------------------------------------
Step ==
    \/ Handshake \/ Ask
    \/ Select \/ Silence
    \/ ReadRejected \/ ReadQueue \/ ReadSocket \/ Wait
    \/ SslWantsMore \/ SslRead \/ SslReadNone \/ SslMore \/ SslEnds

Next == Step \/ Again \/ (pc \notin Ended /\ (Interrupt \/ Send \/ Stir \/ HangUp))

Spec == Init /\ [][Next]_vars

\* The process runs, and the server answers and, after that or when nothing is asked,
\* hangs up at some time.
FairSpec ==
    /\ Spec
    /\ WF_vars(Step)
    /\ WF_vars(pc \notin Ended /\ Send)
    /\ WF_vars(pc \notin Ended /\ (sent = total \/ ~asked) /\ HangUp)

-------------------------------------------------------------------------------
(* Properties.                                                             *)

\* The type invariant.  The block of the queue grows by what the longest record needs, and
\* the content of the queue lies in the block unless a read into it wrote past its end,
\* which is what "undefined" in SslMore is.
SecureTypeOK ==
    /\ caller \in Callers /\ head \in HeadLens /\ need \in Needs \cup {BodyLen}
    /\ total \in Nat
    /\ pc \in Ended \cup {"shake", "ask", "read", "wait", "ssl", "more", "select"}
    /\ size \in 0..(U32 - 1)
    /\ \A s \in {out, ret, rec, q} : s \in Seq(1..total)
    /\ cap \in PAGE..(PAGE + MaxRecord) /\ (pc # "undefined" => Len(q) <= cap)
    /\ sent \in 0..total /\ fed \in 0..sent /\ ends \subseteq (fed + 1)..sent
    /\ part \in BOOLEAN /\ link \in {"up", "notify", "eof", "reset", "error"}
    /\ asked \in BOOLEAN /\ stop \in BOOLEAN /\ stirs \in 0..MaxStirs

\* Until the connection is used again or given up, however the answer is cut into
\* records, and whether a read takes its bytes from the socket, from the rest of a
\* record or from the queue, the caller gets the answer in its order, with nothing lost
\* or repeated (secure_socket_read).  It says nothing of a process that has ended, nor of
\* one whose memory is not what it should be: a read past the block of the queue, or a
\* failed read of the header, whose -1 get_response adds to a pointer.
StreamInOrder ==
    pc \notin {"shake", "exit", "undefined"} => out \o ret \o q \o rec = Stream(fed)

\* While less than 4 GiB of the chunk are left the loop never waits in select() for bytes
\* that are already inside the library or the queue, where select() does not see them
\* (secure_socket_read, http_read_sock).  With 4 GiB and little more it does: the read is
\* asked for the little, and the rest of the record stays in the queue.
NothingIsHidden == pc = "select" /\ need - Cur < U32 => ~HasMore /\ rec = <<>>

\* Every transfer comes to its end if the server answers or hangs up, and a connection
\* that is used again does too.  The end may be one nobody wants: exit or "undefined".
SecureEnds == <>[](pc \in Ended)
===============================================================================
