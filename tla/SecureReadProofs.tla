--------------------------- MODULE SecureReadProofs ---------------------------
(***************************************************************************)
(* What a caller of secure_socket_read gets, for every length of the       *)
(* answer, of a page and of a record, and however the server cuts its      *)
(* answer into records.                                                    *)
(***************************************************************************)
EXTENDS SecureRead, SequenceTheorems, WellFoundedInduction, TLAPS

-------------------------------------------------------------------------------
(* The inductive invariant.                                                *)

TypesInv ==
    /\ caller \in {"multi", "limited", "probe"} /\ head \in Nat \ {0} /\ need \in Nat
    /\ out \in Seq(Nat) /\ ret \in Seq(Nat) /\ q \in Seq(Nat) /\ rec \in Seq(Nat)
    /\ size \in Nat /\ cap \in Nat
    /\ pc \in Ended \cup {"shake", "ask", "read", "wait", "ssl", "more", "select"}

\* The records in the socket lie between what was read and what was sent.
SocketInv ==
    /\ fed \in Nat /\ sent \in Nat /\ fed <= sent /\ ends \subseteq Nat
    /\ \A e \in ends : fed < e /\ e <= sent
    /\ fed < sent => sent \in ends

\* Nothing has come yet.
Nothing == out = <<>> /\ ret = <<>> /\ q = <<>> /\ rec = <<>> /\ fed = 0

\* Where the bytes may be when the process is at pc.
PlacesInv ==
    /\ ~asked => Nothing /\ sent = 0
    /\ pc = "ask" => ~asked
    /\ pc = "more" => asked
    /\ pc = "done" => ~InHead
    /\ pc \notin {"more", "undefined"} => ret = <<>> /\ rec = <<>>
    /\ pc = "more" => size > 0
    /\ pc \in {"wait", "ssl"} => q = <<>>
    /\ pc = "select" => caller = "multi"

\* A read of the body has room for the rest of the chunk, as far as an uint32 tells it; if
\* it is filled before the record is at its end, the chunk is complete, or there are 4 GiB
\* more of it.
RoomInv ==
    caller = "multi" /\ ~InHead =>
        /\ pc \in {"read", "wait", "ssl"} => size = Asked
        /\ pc = "more" => Len(ret) = Asked

\* The queue is empty when the loop goes to select() for less than 4 GiB.
QueueInv == pc = "select" /\ need - Cur < U32 => q = <<>>

\* Every record in the socket has at most MaxRecord bytes.
RecordsInv ==
    \A p \in {fed} \cup ends : p < sent => \E e \in ends : p < e /\ e <= p + MaxRecord

\* All the bytes there are belong to the answer.
BytesInv ==
    /\ total \in Nat /\ total <= head + need + 1 /\ sent <= total
    /\ out \in Seq(1..total) /\ ret \in Seq(1..total)
    /\ q \in Seq(1..total) /\ rec \in Seq(1..total)

\* The room for a read.  While the rest of a record is taken into the queue there is
\* something left of it, and the room is that of the block, unless the block is full.
SizesInv ==
    /\ size \in 0..(U32 - 1)
    /\ pc \in {"read", "wait", "ssl"} /\ InHead => size < 2 * PAGE
    /\ cap \in PAGE..(PAGE + MaxRecord)
    /\ pc # "undefined" => Len(q) <= cap
    /\ pc = "more" =>
          /\ rec # <<>> /\ Len(ret) + Len(q) + Len(rec) <= MaxRecord
          /\ size = cap - Len(q) \/ Len(q) = cap

\* What no step touches, and what is of one of a few values.
FixedInv ==
    /\ caller \in Callers /\ head \in HeadLens /\ need \in Needs \cup {BodyLen}
    /\ part \in BOOLEAN /\ link \in {"up", "notify", "eof", "reset", "error"}
    /\ asked \in BOOLEAN /\ stop \in BOOLEAN /\ stirs \in 0..MaxStirs

BoundsInv == RecordsInv /\ BytesInv /\ SizesInv /\ FixedInv

SecureInv == TypesInv /\ SocketInv /\ PlacesInv /\ RoomInv /\ QueueInv /\ StreamInOrder

-------------------------------------------------------------------------------
(* Numbers and sequences.                                                  *)

\* An uint32, and what is left after as many bytes as it says.
LEMMA Wrapped ==
    ASSUME NEW x \in Int
    PROVE  /\ x % U32 \in Nat /\ x % U32 \in 0..(U32 - 1)
           /\ x % U32 < x => x - (x % U32) >= U32
<1>1. U32 \in Nat \ {0}
    BY SecureAssumption DEF U32
<1> DEFINE d == U32
<1> HIDE DEF d
<1>2. d \in Nat \ {0} /\ x % d \in 0..(d - 1)
    BY <1>1 DEF d
<1>3. ASSUME x % d < x, x - (x % d) < d PROVE FALSE
    <2>1. x \in Nat /\ x \div d \in Int /\ x = d * (x \div d) + (x % d)
        BY <1>2, <1>3
    <2>2. x - (x % d) = d * (x \div d)
        BY <1>2, <2>1
    <2>3. x \div d > 0 => d * (x \div d) >= d
        BY <1>2, <2>1
    <2>4. x \div d <= 0 => d * (x \div d) <= 0
        BY <1>2, <2>1
    <2> QED
        BY <1>2, <1>3, <2>1, <2>2, <2>3, <2>4
<1>4. x % d < x => x - (x % d) >= d
    BY <1>2, <1>3
<1> QED
    BY <1>2, <1>4 DEF d

\* Concatenation of bytes is associative.
LEMMA Associative ==
    ASSUME NEW a \in Seq(Nat), NEW b \in Seq(Nat), NEW c \in Seq(Nat)
    PROVE  (a \o b) \o c = a \o (b \o c) /\ a \o b \in Seq(Nat)
<1>1. (a \o b) \o c = a \o (b \o c)
    BY ConcatAssociative
<1>2. a \o b \in Seq(Nat)
    BY ConcatProperties, Zenon
<1> QED
    BY <1>1, <1>2, Zenon

\* What is cut in two is put together again.
LEMMA CutSeq ==
    ASSUME NEW s \in Seq(Nat), NEW n \in 0..Len(s)
    PROVE  /\ SubSeq(s, 1, n) \in Seq(Nat) /\ SubSeq(s, n + 1, Len(s)) \in Seq(Nat)
           /\ Len(SubSeq(s, 1, n)) = n
           /\ SubSeq(s, 1, n) \o SubSeq(s, n + 1, Len(s)) = s
           /\ n = Len(s) => SubSeq(s, n + 1, Len(s)) = <<>>
<1>1. Len(s) \in Nat /\ n \in Nat /\ \A k \in 1..Len(s) : s[k] \in Nat
    OBVIOUS
<1>2. SubSeq(s, 1, n) \in Seq(Nat) /\ Len(SubSeq(s, 1, n)) = IF 1 <= n THEN n - 1 + 1 ELSE 0
    BY <1>1, SubSeqProperties
<1>3. SubSeq(s, n + 1, Len(s)) \in Seq(Nat)
    BY <1>1, SubSeqProperties
<1>4. SubSeq(s, 1, n) \o SubSeq(s, n + 1, Len(s)) = SubSeq(s, 1, Len(s))
    <2>1. 1 \in 1..(Len(s) + 1) /\ n \in (1 - 1)..Len(s) /\ Len(s) \in n..Len(s)
        BY <1>1
    <2> QED
        BY <2>1, ConcatAdjacentSubSeq
<1>5. SubSeq(s, 1, Len(s)) = s
    BY SubSeqFull
<1>6. n = Len(s) => SubSeq(s, n + 1, Len(s)) = <<>>
    BY <1>1, SubSeqEmpty
<1>7. Len(SubSeq(s, 1, n)) = n
    BY <1>1, <1>2
<1>8. SubSeq(s, 1, n) \o SubSeq(s, n + 1, Len(s)) = s
    BY <1>4, <1>5, Zenon
<1> QED
    BY <1>2, <1>3, <1>6, <1>7, <1>8, Zenon

\* Handing out the first n bytes of the queue.
LEMMA QueueFlow ==
    ASSUME NEW o \in Seq(Nat), NEW a \in Seq(Nat), NEW b \in Seq(Nat)
    PROVE  ((((o \o a) \o <<>>) \o b) \o <<>>) = (((o \o <<>>) \o (a \o b)) \o <<>>)
<1>1. /\ (o \o a) \o <<>> = o \o a /\ o \o <<>> = o
      /\ o \o a \in Seq(Nat) /\ a \o b \in Seq(Nat)
    BY ConcatProperties, ConcatEmptySeq
<1>2. /\ ((o \o a) \o b) \o <<>> = (o \o a) \o b
      /\ (o \o (a \o b)) \o <<>> = o \o (a \o b)
    BY <1>1, ConcatProperties, ConcatEmptySeq
<1>3. (o \o a) \o b = o \o (a \o b)
    BY Associative
<1> QED
    BY <1>1, <1>2, <1>3, Zenon

\* A record that the caller has no room for goes to its buffer and, the rest, to the queue.
LEMMA CutFlow ==
    ASSUME NEW o \in Seq(Nat), NEW a \in Seq(Nat), NEW b \in Seq(Nat)
    PROVE  ((o \o a) \o <<>>) \o b = o \o (a \o b)
<1>1. o \o a \in Seq(Nat) /\ (o \o a) \o <<>> = o \o a
    BY ConcatProperties, ConcatEmptySeq
<1>2. (o \o a) \o b = o \o (a \o b)
    BY Associative, Zenon
<1> QED
    BY <1>1, <1>2

\* Buffers with nothing in them.
LEMMA EmptyFlow ==
    ASSUME NEW o \in Seq(Nat), NEW a \in Seq(Nat)
    PROVE  /\ (((o \o a) \o <<>>) \o <<>>) \o <<>> = o \o a
           /\ ((o \o <<>>) \o <<>>) \o <<>> = o
BY ConcatProperties, ConcatEmptySeq

\* The first record in the socket, and its bytes.
LEMMA FirstRecord ==
    ASSUME SocketInv, fed < sent
    PROVE  /\ FirstEnd \in ends /\ (\A d \in ends : FirstEnd <= d)
           /\ FirstEnd \in Nat /\ fed < FirstEnd /\ FirstEnd <= sent
           /\ Record \in Seq(Nat) /\ Len(Record) = FirstEnd - fed
           /\ Stream(fed) \in Seq(Nat) /\ Stream(fed) \o Record = Stream(FirstEnd)
<1> DEFINE R == {ss \in Nat \X Nat : ss[1] < ss[2]}
<1>1. IsWellFoundedOn(R, Nat)
    BY NatLessThanWellFounded DEF OpToRel
<1>2. ends \subseteq Nat /\ ends # {}
    BY DEF SocketInv
<1>3. PICK x \in ends : \A y \in ends : ~(<<y, x>> \in R)
    <2> HIDE DEF R
    <2> QED BY <1>1, <1>2, WFMin
<1>4. \A y \in ends : x <= y
    <2> TAKE y \in ends
    <2>1. ~(<<y, x>> \in R) /\ <<y, x>> \in Nat \X Nat
        BY <1>2, <1>3
    <2> QED
        BY <1>2, <2>1
<1>5. FirstEnd \in ends /\ (\A d \in ends : FirstEnd <= d)
    BY <1>4 DEF FirstEnd
<1> DEFINE f == FirstEnd
<1> HIDE DEF R, f
<1>6. f \in Nat /\ fed \in Nat /\ fed < f /\ f <= sent /\ f - fed \in Nat
    BY <1>5 DEF SocketInv, f
<1>7. Record = [k \in 1..(f - fed) |-> fed + k]
    BY DEF Record, f
<1>8. Record \in Seq(Nat) /\ Len(Record) = f - fed
    BY <1>6, <1>7
<1>9. /\ Stream(fed) \in Seq(Nat) /\ Len(Stream(fed)) = fed
      /\ Stream(f) \in Seq(Nat) /\ Len(Stream(f)) = f
    BY <1>6 DEF Stream
<1>10. Stream(fed) \o Record = Stream(f)
    <2> DEFINE t == Stream(fed) \o Record
    <2>1. /\ t \in Seq(Nat) /\ Len(t) = f
          /\ \A k \in 1..f : t[k] = IF k <= fed THEN Stream(fed)[k] ELSE Record[k - fed]
        <3>1. /\ t \in Seq(Nat) /\ Len(t) = Len(Stream(fed)) + Len(Record)
              /\ \A k \in 1..(Len(Stream(fed)) + Len(Record)) :
                    t[k] = IF k <= Len(Stream(fed)) THEN Stream(fed)[k]
                           ELSE Record[k - Len(Stream(fed))]
            BY <1>8, <1>9, ConcatProperties, Zenon
        <3>2. Len(Stream(fed)) + Len(Record) = f
            BY <1>6, <1>8, <1>9
        <3> HIDE DEF t
        <3> QED
            BY <1>9, <3>1, <3>2
    <2> HIDE DEF t
    <2>2. ASSUME NEW k \in 1..f PROVE t[k] = Stream(f)[k]
        <3>1. CASE k <= fed
            <4>1. k \in 1..fed
                BY <3>1, <1>6
            <4> QED
                BY <2>1, <3>1, <4>1 DEF Stream
        <3>2. CASE ~(k <= fed)
            <4>1. k - fed \in 1..(f - fed) /\ fed + (k - fed) = k
                BY <1>6, <3>2
            <4>2. t[k] = k
                BY <1>7, <2>1, <3>2, <4>1
            <4> QED
                BY <4>2 DEF Stream
        <3> QED
            BY <3>1, <3>2
    <2> QED
        BY <1>9, <2>1, <2>2, SeqEqual DEF t
<1> QED
    BY <1>5, <1>6, <1>8, <1>9, <1>10 DEF f

-------------------------------------------------------------------------------
(* The steps keep the invariant.                                           *)

\* What a read that returns the bytes s does to the caller.
LEMMA DeliverSteps ==
    ASSUME SecureInv, NEW s \in Seq(Nat), NEW room \in Nat, Deliver(s, room)
    PROVE  /\ out' = out \o s /\ out' \in Seq(Nat) /\ ret' = <<>> /\ ret' \in Seq(Nat)
           /\ Len(out') = Len(out) + Len(s)
           /\ Len(out) \in Nat /\ Len(s) \in Nat
           /\ size' \in Nat
           /\ pc' \in {"read", "closed", "done", "select"}
           /\ pc' = "select" => caller = "multi" /\ ~InHead /\ Len(s) < need - Cur
           /\ pc' = "done" => Len(out') - head >= 0
           /\ caller = "multi" /\ pc' = "read" /\ Len(out') - head >= 0
                => size' = (need - (Len(out') - head)) % U32
<1>1. out' = out \o s /\ ret' = <<>>
    BY DEF Deliver
<1>2. out \in Seq(Nat) /\ size \in Nat /\ head \in Nat /\ need \in Nat /\ PAGE \in Nat
      /\ caller \in {"multi", "limited", "probe"}
    BY SecureAssumption DEF SecureInv, TypesInv
<1>3. /\ out' \in Seq(Nat) /\ Len(out') = Len(out) + Len(s)
      /\ Len(out) \in Nat /\ Len(s) \in Nat
    BY <1>1, <1>2, ConcatProperties
<1> DEFINE c == Len(out) + Len(s) - head
<1>4. c \in Int /\ c = Len(out') - head /\ Cur \in Int /\ c = Cur + Len(s)
    BY <1>2, <1>3 DEF Cur
<1>5. \/ c < 0 /\ pc' = "read" /\ size' = (IF PAGE > room THEN room + PAGE ELSE room)
      \/ /\ c >= 0 /\ caller = "multi" /\ InHead
         /\ pc' = IF need - c = 0 THEN "closed" ELSE "read"
         /\ size' = (need - c) % U32
      \/ /\ c >= 0 /\ caller = "multi" /\ ~InHead
         /\ pc' = IF need - c <= 0 THEN "done" ELSE "select"
         /\ size' = size
      \/ /\ c >= 0 /\ caller = "limited"
         /\ pc' = IF need - c <= 0 THEN "done" ELSE "read"
         /\ size' = PAGE
      \/ c >= 0 /\ caller = "probe" /\ pc' = "done" /\ size' = size
    BY DEF Deliver
<1> HIDE DEF c
<1>6. /\ size' \in Nat /\ pc' \in {"read", "closed", "done", "select"}
      /\ pc' = "select" => caller = "multi" /\ ~InHead /\ ~(need - c <= 0)
      /\ caller = "multi" /\ pc' = "read" /\ c >= 0 => size' = (need - c) % U32
    <2>1. need - c \in Int
        BY <1>2, <1>4
    <2>2. (need - c) % U32 \in Nat
        BY <2>1, Wrapped
    <2> DEFINE w == (need - c) % U32
    <2> HIDE DEF w
    <2>3. w \in Nat
        BY <2>2 DEF w
    <2>4. /\ size' \in Nat /\ pc' \in {"read", "closed", "done", "select"}
          /\ pc' = "select" => caller = "multi" /\ ~InHead /\ ~(need - c <= 0)
          /\ caller = "multi" /\ pc' = "read" /\ c >= 0 => size' = w
        BY <1>2, <1>4, <1>5, <2>3 DEF w
    <2> QED
        BY <2>4 DEF w
<1>7. (Len(out') - head >= 0 => c >= 0) /\ (pc' = "done" => Len(out') - head >= 0)
    BY <1>4, <1>5
<1>8. ~(need - c <= 0) => Len(s) < need - Cur
    BY <1>2, <1>3, <1>4
<1> QED
    BY <1>1, <1>2, <1>3, <1>4, <1>6, <1>7, <1>8

LEMMA InitSecure == Init => SecureInv
<1> SUFFICES ASSUME Init PROVE SecureInv
    OBVIOUS
<1>1. TypesInv
    <2>1. head \in Nat \ {0} /\ need \in Nat /\ caller \in {"multi", "limited", "probe"}
        BY SecureAssumption DEF Init
    <2> QED
        BY <2>1, SecureAssumption DEF Init, TypesInv
<1>2. SocketInv /\ Nothing
    BY DEF Init, SocketInv, Nothing
<1>3. PlacesInv /\ RoomInv /\ QueueInv /\ StreamInOrder
    BY <1>2 DEF Init, PlacesInv, RoomInv, QueueInv, StreamInOrder, Nothing
<1> QED
    BY <1>1, <1>2, <1>3 DEF SecureInv

\* make_socket_secure.
LEMMA HandshakeKeeps == SecureInv /\ Handshake => SecureInv'
<1> SUFFICES ASSUME SecureInv, Handshake PROVE SecureInv'
    OBVIOUS
<1> USE DEF SecureInv, Handshake, task, queue, net, ssl
<1>1. TypesInv' /\ SocketInv'
    BY DEF TypesInv, SocketInv, Ended
<1>2. PlacesInv' /\ RoomInv' /\ QueueInv'
    BY DEF PlacesInv, RoomInv, QueueInv, Nothing
<1>3. StreamInOrder'
    <2>1. Stream(0) = <<>> /\ <<>> \o <<>> = <<>>
        BY DEF Stream
    <2>2. pc' = "ask" => Nothing
        BY DEF PlacesInv
    <2>3. CASE pc' = "ask"
        BY <2>1, <2>2, <2>3 DEF StreamInOrder, Nothing
    <2>4. CASE pc' # "ask"
        BY <2>4 DEF StreamInOrder
    <2> QED
        BY <2>3, <2>4
<1> QED
    BY <1>1, <1>2, <1>3

\* The connection is used again.
LEMMA AgainKeeps == SecureInv /\ Again => SecureInv'
<1> SUFFICES ASSUME SecureInv, Again PROVE SecureInv'
    OBVIOUS
<1> USE DEF SecureInv, Again, NewQueue, task, net
<1>1. TypesInv' /\ SocketInv'
    BY SecureAssumption DEF TypesInv, SocketInv, Ended
<1>2. asked
    <2>1. Len(out) \in Nat /\ head \in Nat /\ head >= 1 /\ ~(Len(out) - head < 0)
        BY DEF PlacesInv, InHead, Cur, TypesInv
    <2>2. out # <<>>
        BY <2>1
    <2> QED
        BY <2>2 DEF PlacesInv, Nothing
<1>3. PlacesInv' /\ RoomInv' /\ QueueInv' /\ StreamInOrder'
    BY <1>2 DEF PlacesInv, RoomInv, QueueInv, StreamInOrder, Nothing
<1> QED
    BY <1>1, <1>3

\* The request is written.
LEMMA AskKeeps == SecureInv /\ Ask => SecureInv'
<1> SUFFICES ASSUME SecureInv, Ask PROVE SecureInv'
    OBVIOUS
<1> USE DEF SecureInv, Ask, task, queue, net, ssl
<1>1. TypesInv' /\ SocketInv'
    BY SecureAssumption DEF TypesInv, SocketInv, Ended
<1>2. Nothing
    BY DEF PlacesInv
<1>3. PlacesInv'
    BY <1>2 DEF PlacesInv, TypesInv, Nothing
<1>4. RoomInv' /\ QueueInv'
    BY <1>2 DEF RoomInv, QueueInv, TypesInv, Nothing
<1>5. StreamInOrder'
    BY DEF StreamInOrder
<1> QED
    BY <1>1, <1>3, <1>4, <1>5

\* The loop calls http_read_sock, or gives the connection up.
LEMMA SelectKeeps == SecureInv /\ (Select \/ Silence) => SecureInv'
<1> SUFFICES ASSUME SecureInv, Select \/ Silence PROVE SecureInv'
    OBVIOUS
<1> USE DEF SecureInv, Select, Silence, task, queue, net, ssl
<1>1. Cur \in Int /\ need \in Int
    BY DEF TypesInv, Cur
<1>2. TypesInv' /\ SocketInv'
    <2>1. size' \in Nat
        <3>1. CASE Select
            <4>1. Asked \in Nat /\ PAGE \in Nat
                BY <1>1, Wrapped, SecureAssumption DEF Asked
            <4> QED
                BY <3>1, <4>1
        <3>2. CASE Silence
            BY <3>2 DEF TypesInv
        <3> QED
            BY <3>1, <3>2
    <2> QED
        BY <2>1 DEF TypesInv, SocketInv, Ended
<1>3. PlacesInv'
    BY DEF PlacesInv, TypesInv, Nothing
<1>4. RoomInv' /\ QueueInv'
    BY DEF RoomInv, QueueInv, InHead, Asked, Cur, PlacesInv
<1>5. StreamInOrder'
    BY DEF StreamInOrder
<1> QED
    BY <1>2, <1>3, <1>4, <1>5

\* Steps that leave the bytes where they are.
LEMMA WaitingKeeps ==
    SecureInv /\ (ReadRejected \/ ReadSocket \/ Wait \/ SslWantsMore \/ SslReadNone \/ SslEnds)
        => SecureInv'
<1> SUFFICES ASSUME SecureInv,
                    ReadRejected \/ ReadSocket \/ Wait \/ SslWantsMore \/ SslReadNone \/ SslEnds
             PROVE SecureInv'
    OBVIOUS
<1>1. /\ UNCHANGED <<task, size, out, ret, q, cap, rec, fed, sent, ends, asked>>
      /\ pc' = "done" => ~InHead
      /\ \/ pc = "read" /\ q = <<>> /\ pc' = "wait"
         \/ pc = "wait" /\ pc' = "ssl"
         \/ pc = "ssl" /\ pc' = "wait"
         \/ pc \in {"read", "ssl"} /\ pc' \in Ended
    <2>1. size \in Int /\ Half \in Nat /\ (Cur >= need => ~InHead)
        BY SecureAssumption DEF SecureInv, TypesInv, InHead, Cur
    <2> QED
        BY <2>1 DEF ReadRejected, ReadSocket, Wait, SslWantsMore, SslReadNone, SslEnds, Lost,
                    Failed, HasMore, queue, net, ssl, Ended
<1> USE DEF SecureInv, task
<1>2. TypesInv' /\ SocketInv'
    BY <1>1 DEF TypesInv, SocketInv, Ended
<1>3. PlacesInv'
    BY <1>1 DEF PlacesInv, Nothing, InHead, Cur, Ended
<1>4. RoomInv' /\ QueueInv'
    BY <1>1 DEF RoomInv, QueueInv, InHead, Asked, Cur, Ended
<1>5. StreamInOrder'
    BY <1>1 DEF StreamInOrder
<1> QED
    BY <1>2, <1>3, <1>4, <1>5

\* The user and the server.
LEMMA WorldKeeps ==
    SecureInv /\ pc \notin Ended /\ (Interrupt \/ Send \/ Stir \/ HangUp) => SecureInv'
<1> SUFFICES ASSUME SecureInv, pc \notin Ended, Interrupt \/ Send \/ Stir \/ HangUp
             PROVE SecureInv'
    OBVIOUS
<1> USE DEF SecureInv, task
<1>1. CASE Interrupt
    <2> USE <1>1 DEF Interrupt, queue, net, ssl
    <2>1. TypesInv' /\ SocketInv'
        BY SecureAssumption DEF TypesInv, SocketInv, Ended
    <2>2. PlacesInv'
        BY DEF PlacesInv, Nothing
    <2>3. RoomInv' /\ QueueInv'
        BY DEF RoomInv, QueueInv, InHead, Asked, Cur
    <2>4. StreamInOrder'
        BY DEF StreamInOrder
    <2> QED
        BY <2>1, <2>2, <2>3, <2>4
<1>2. CASE Send
    <2>1. /\ UNCHANGED <<task, pc, size, out, ret, q, cap, rec, fed, asked>> /\ asked
          /\ \E n \in Nat \ {0} : sent' = sent + n /\ ends' = ends \cup {sent + n}
        BY <1>2, SecureAssumption DEF Send, queue, ssl
    <2>2. TypesInv'
        BY <2>1 DEF TypesInv
    <2>3. SocketInv'
        <3>1. PICK n \in Nat \ {0} : sent' = sent + n /\ ends' = ends \cup {sent + n}
            BY <2>1
        <3>2. fed <= sent
            BY DEF SocketInv
        <3> QED
            BY <2>1, <3>1, <3>2 DEF SocketInv
    <2>4. PlacesInv' /\ RoomInv' /\ QueueInv' /\ StreamInOrder'
        BY <2>1 DEF PlacesInv, RoomInv, QueueInv, StreamInOrder, Nothing, InHead, Asked, Cur
    <2> QED
        BY <2>2, <2>3, <2>4
<1>3. CASE Stir \/ HangUp
    <2>1. UNCHANGED <<task, pc, size, out, ret, q, cap, rec, fed, sent, ends, asked>>
        BY <1>3 DEF Stir, HangUp, queue, ssl
    <2> QED
        BY <2>1 DEF TypesInv, SocketInv, PlacesInv, RoomInv, QueueInv,
                      StreamInOrder, Nothing, InHead, Asked, Cur
<1> QED
    BY <1>1, <1>2, <1>3

\* What Deliver does to the room of the next read is what RoomInv asks for.
LEMMA RoomAfter ==
    ASSUME SecureInv, UNCHANGED task, out' \in Seq(Nat),
           pc' \in {"read", "closed", "done", "select"},
           caller = "multi" /\ pc' = "read" /\ Len(out') - head >= 0
             => size' = (need - (Len(out') - head)) % U32
    PROVE  RoomInv'
<1>1. head' = head /\ need' = need /\ caller' = caller
    BY DEF task
<1>2. ~(Len(out') - head < 0) => Len(out') - head >= 0
    <2>1. Len(out') \in Nat /\ head \in Nat
        BY DEF SecureInv, TypesInv
    <2> QED
        BY <2>1
<1> QED
    BY <1>1, <1>2 DEF RoomInv, InHead, Asked, Cur

\* When a read that was filled leaves something of the chunk, 4 GiB of it are left.
LEMMA QueueAfter ==
    ASSUME SecureInv, UNCHANGED task, NEW s \in Seq(Nat), out' = out \o s,
           Len(s) = Asked, Len(s) < need - Cur
    PROVE  QueueInv'
<1>1. /\ out \in Seq(Nat) /\ Len(out) \in Nat /\ Len(s) \in Nat /\ head \in Nat /\ need \in Nat
      /\ head' = head /\ need' = need
    BY DEF SecureInv, TypesInv, task
<1>2. Len(out') = Len(out) + Len(s)
    BY <1>1, ConcatProperties
<1>3. need - Cur \in Int /\ U32 \in Nat
    BY <1>1, SecureAssumption DEF Cur, U32
<1>4. need - Cur - Len(s) >= U32
    BY <1>3, Wrapped DEF Asked
<1>5. need' - Cur' = need - Cur - Len(s)
    BY <1>1, <1>2 DEF Cur
<1>6. ~(need' - Cur' < U32)
    BY <1>3, <1>4, <1>5
<1> QED
    BY <1>6 DEF QueueInv

\* What the queue holds is handed out.
LEMMA ReadQueueKeeps == SecureInv /\ ReadQueue => SecureInv'
<1> SUFFICES ASSUME SecureInv, ReadQueue PROVE SecureInv'
    OBVIOUS
<1> DEFINE n == Least(size, Len(q))
           a == SubSeq(q, 1, n)
           b == SubSeq(q, n + 1, Len(q))
<1>1. /\ q \in Seq(Nat) /\ Len(q) \in Nat /\ size \in Int /\ size >= 0 /\ pc = "read"
      /\ need \in Int /\ Cur \in Int /\ out \in Seq(Nat)
    BY DEF SecureInv, TypesInv, PlacesInv, ReadQueue, Cur
<1>2. /\ n \in 0..Len(q) /\ n <= size /\ (n < size => n = Len(q)) /\ size - n \in Nat
    BY <1>1 DEF Least
<1>3. (IF n = 0 THEN Lost ELSE Deliver(a, size - n)) /\ q' = b
    BY DEF ReadQueue
<1>4. /\ UNCHANGED <<task, cap, rec, fed, sent, ends, asked>>
      /\ rec = <<>> /\ ret = <<>> /\ asked
    BY <1>1 DEF ReadQueue, ssl, net, SecureInv, PlacesInv, HasMore, Nothing
<1> HIDE DEF n
<1>5. /\ a \in Seq(Nat) /\ b \in Seq(Nat) /\ Len(a) = n /\ a \o b = q
      /\ n = Len(q) => b = <<>>
    BY <1>1, <1>2, CutSeq
<1> HIDE DEF a, b
<1>6. CASE n = 0
    <2>1. /\ pc' = "closed" /\ UNCHANGED <<size, out, ret>> /\ a = <<>> /\ q' = q
          /\ rec' = rec /\ fed' = fed
        <3>1. a = <<>>
            BY <1>5, <1>6
        <3>2. <<>> \o b = b
            BY <1>5, ConcatEmptySeq
        <3> QED
            BY <1>3, <1>4, <1>5, <1>6, <3>1, <3>2 DEF Lost
    <2>2. TypesInv' /\ SocketInv'
        BY <1>4, <2>1 DEF SecureInv, TypesInv, SocketInv, task, Ended
    <2>3. PlacesInv' /\ RoomInv' /\ QueueInv' /\ StreamInOrder'
        BY <1>1, <1>4, <2>1 DEF SecureInv, PlacesInv, RoomInv, QueueInv, StreamInOrder, task
    <2> QED
        BY <2>2, <2>3 DEF SecureInv
<1>7. CASE n # 0
    <2>1. /\ out' = out \o a /\ out' \in Seq(Nat) /\ ret' = <<>> /\ ret' \in Seq(Nat)
          /\ size' \in Nat
          /\ pc' \in {"read", "closed", "done", "select"}
          /\ pc' = "select" => caller = "multi" /\ ~InHead /\ n < need - Cur
          /\ pc' = "done" => Len(out') - head >= 0
          /\ caller = "multi" /\ pc' = "read" /\ Len(out') - head >= 0
               => size' = (need - (Len(out') - head)) % U32
        BY <1>2, <1>3, <1>5, <1>7, DeliverSteps
    <2>2. TypesInv'
        BY <1>3, <1>4, <1>5, <2>1 DEF SecureInv, TypesInv, task, Ended
    <2>3. SocketInv'
        BY <1>4 DEF SecureInv, SocketInv
    <2>4. PlacesInv'
        <3>1. pc' = "done" => ~InHead'
            <4>1. Len(out') \in Nat /\ head \in Nat /\ head' = head
                BY <1>4, <2>1 DEF SecureInv, TypesInv, task
            <4> QED
                BY <2>1, <4>1 DEF InHead, Cur
        <3> QED
            BY <1>4, <2>1, <3>1 DEF PlacesInv, task
    <2>5. RoomInv'
        BY <1>4, <2>1, RoomAfter
    <2>7. QueueInv'
        <3>1. CASE n = Len(q)
            BY <1>3, <1>5, <3>1 DEF QueueInv
        <3>2. CASE n # Len(q) /\ pc' = "select"
            <4>1. n = size /\ size = Asked /\ n < need - Cur
                BY <1>1, <1>2, <2>1, <3>2 DEF SecureInv, RoomInv
            <4> QED
                BY <1>4, <1>5, <2>1, <4>1, QueueAfter
        <3>3. CASE pc' # "select"
            BY <3>3 DEF QueueInv
        <3> QED
            BY <3>1, <3>2, <3>3
    <2>6. StreamInOrder'
        <3>1. out \o <<>> \o (a \o b) \o <<>> = Stream(fed)
            BY <1>1, <1>4, <1>5 DEF SecureInv, StreamInOrder
        <3>2. (((out \o a) \o <<>>) \o b) \o <<>> = Stream(fed)
            BY <1>1, <1>5, <3>1, QueueFlow, Zenon
        <3>3. out' \o ret' \o q' \o rec' = Stream(fed')
            BY <1>3, <1>4, <2>1, <3>2, Zenon
        <3> QED
            BY <3>3 DEF StreamInOrder
    <2> QED
        BY <2>2, <2>3, <2>4, <2>5, <2>6, <2>7 DEF SecureInv
<1> QED
    BY <1>6, <1>7

\* A read of the socket.
LEMMA SslReadKeeps == SecureInv /\ SslRead => SecureInv'
<1> SUFFICES ASSUME SecureInv, SslRead PROVE SecureInv'
    OBVIOUS
<1>1. /\ pc = "ssl" /\ fed < sent /\ fed' = FirstEnd /\ ends' = ends \ {FirstEnd}
      /\ UNCHANGED <<task, q, sent, asked>>
    BY DEF SslRead
<1>2. /\ q = <<>> /\ ret = <<>> /\ rec = <<>> /\ size \in Nat /\ size > 0
      /\ out \in Seq(Nat) /\ cap \in Nat
    BY <1>1 DEF SecureInv, PlacesInv, TypesInv, SslRead
<1>3. /\ FirstEnd \in ends /\ (\A d \in ends : FirstEnd <= d)
      /\ FirstEnd \in Nat /\ FirstEnd <= sent
      /\ Record \in Seq(Nat) /\ Len(Record) \in Nat
      /\ Stream(fed) \o Record = Stream(FirstEnd)
    BY <1>1, FirstRecord DEF SecureInv
<1>4. SocketInv'
    BY <1>1, <1>3 DEF SecureInv, SocketInv
<1>5. out \o Record = Stream(fed')
    <2>1. ((out \o <<>>) \o <<>>) \o <<>> = Stream(fed)
        BY <1>1, <1>2 DEF SecureInv, StreamInOrder
    <2>2. out = Stream(fed)
        BY <1>2, <1>3, <2>1, EmptyFlow
    <2> QED
        BY <1>1, <1>3, <2>2
<1>6. asked
    BY <1>1 DEF SecureInv, SocketInv, PlacesInv
<1>7. CASE Len(Record) <= size
    <2>1. Deliver(Record, size - Len(Record)) /\ rec' = rec /\ cap' = cap
        BY <1>7 DEF SslRead
    <2>2. size - Len(Record) \in Nat
        BY <1>2, <1>3, <1>7
    <2>3. /\ out' = out \o Record /\ out' \in Seq(Nat) /\ ret' = <<>> /\ ret' \in Seq(Nat)
          /\ size' \in Nat
          /\ pc' \in {"read", "closed", "done", "select"}
          /\ pc' = "select" => caller = "multi"
          /\ pc' = "done" => Len(out') - head >= 0
          /\ caller = "multi" /\ pc' = "read" /\ Len(out') - head >= 0
               => size' = (need - (Len(out') - head)) % U32
        BY <1>3, <2>1, <2>2, DeliverSteps
    <2>4. TypesInv'
        BY <1>1, <2>1, <2>3 DEF SecureInv, TypesInv, task, Ended
    <2>5. PlacesInv'
        <3>1. pc' = "done" => ~InHead'
            <4>1. Len(out') \in Nat /\ head \in Nat /\ head' = head
                BY <1>1, <2>3 DEF SecureInv, TypesInv, task
            <4> QED
                BY <2>3, <4>1 DEF InHead, Cur
        <3> QED
            BY <1>1, <1>2, <1>6, <2>1, <2>3, <3>1 DEF PlacesInv, task
    <2>6. RoomInv' /\ QueueInv'
        BY <1>1, <1>2, <2>3, RoomAfter DEF QueueInv
    <2>7. (((out \o Record) \o <<>>) \o <<>>) \o <<>> = out \o Record
        BY <1>2, <1>3, EmptyFlow, Zenon
    <2>8. ((out' \o ret') \o q') \o rec' = Stream(fed')
        BY <1>1, <1>2, <1>5, <2>1, <2>3, <2>7, Zenon
    <2> QED
        BY <1>4, <2>4, <2>5, <2>6, <2>8 DEF SecureInv, StreamInOrder
<1>8. CASE ~(Len(Record) <= size)
    <2> DEFINE a == SubSeq(Record, 1, size)
               b == SubSeq(Record, size + 1, Len(Record))
    <2>1. /\ ret' = a /\ rec' = b /\ cap' = Enlarged(Len(q)) /\ size' = cap' - Len(q)
          /\ pc' = "more" /\ out' = out
        BY <1>8 DEF SslRead
    <2>2. size \in 0..Len(Record)
        BY <1>2, <1>3, <1>8
    <2>3. a \in Seq(Nat) /\ b \in Seq(Nat) /\ Len(a) = size /\ a \o b = Record
        BY <1>3, <2>2, CutSeq
    <2> HIDE DEF a, b
    <2>4. cap' \in Nat /\ size' \in Nat /\ size' > 0
        <3>1. Len(q) = 0
            BY <1>2
        <3> QED
            BY <1>2, <2>1, <3>1, SecureAssumption DEF Enlarged
    <2>5. TypesInv'
        BY <1>1, <2>1, <2>3, <2>4 DEF SecureInv, TypesInv, task
    <2>6. PlacesInv'
        <3>1. size' >= 0
            BY <2>4
        <3> QED
            BY <1>1, <1>6, <2>1, <2>4, <3>1 DEF PlacesInv, task
    <2>7. RoomInv' /\ QueueInv'
        <3>1. caller = "multi" /\ ~InHead => size = Asked
            BY <1>1 DEF SecureInv, RoomInv
        <3> QED
            BY <1>1, <2>1, <2>3, <3>1 DEF RoomInv, QueueInv, InHead, Asked, Cur, task
    <2>8. ((out \o a) \o <<>>) \o b = out \o (a \o b)
        BY <1>2, <2>3, CutFlow, Zenon
    <2>9. ((out' \o ret') \o q') \o rec' = Stream(fed')
        BY <1>1, <1>2, <1>5, <2>1, <2>3, <2>8, Zenon
    <2> QED
        BY <1>4, <2>5, <2>6, <2>7, <2>9 DEF SecureInv, StreamInOrder
<1> QED
    BY <1>7, <1>8

\* The rest of the record is read into the queue.
LEMMA SslMoreKeeps == SecureInv /\ SslMore => SecureInv'
<1> SUFFICES ASSUME SecureInv, SslMore PROVE SecureInv'
    OBVIOUS
<1> DEFINE n == Least(size, Len(rec))
           len == Len(q) + n
           left == size - Len(ret)
           a == SubSeq(rec, 1, n)
           b == SubSeq(rec, n + 1, Len(rec))
<1>1. /\ pc = "more" /\ q' = q \o a /\ rec' = b
      /\ UNCHANGED <<task, fed, sent, ends, asked>>
    BY DEF SslMore, net
<1>2. \/ pc' = "undefined" /\ UNCHANGED <<size, out, ret, cap>>
      \/ rec' = <<>> /\ Deliver(ret, 0) /\ cap' = cap
      \/ /\ ~(len > cap)
         /\ cap' = IF left <= 0 THEN Enlarged(len) ELSE cap
         /\ size' = IF left <= 0 THEN cap' - len ELSE left
         /\ UNCHANGED <<pc, out, ret>>
    BY DEF SslMore
<1>3. /\ q \in Seq(Nat) /\ rec \in Seq(Nat) /\ ret \in Seq(Nat) /\ out \in Seq(Nat)
      /\ Len(q) \in Nat /\ Len(rec) \in Nat /\ Len(ret) \in Nat
      /\ size \in Nat /\ size > 0 /\ cap \in Nat
    BY <1>1 DEF SecureInv, PlacesInv, TypesInv
<1>4. n \in 0..Len(rec) /\ len \in Nat /\ left \in Int
    BY <1>3 DEF Least
<1> HIDE DEF n
<1>5. a \in Seq(Nat) /\ b \in Seq(Nat) /\ a \o b = rec
    BY <1>3, <1>4, CutSeq
<1> HIDE DEF len, left, a, b
<1>6. q' \in Seq(Nat)
    BY <1>1, <1>3, <1>5, ConcatProperties
<1>7. ((out \o ret) \o (q \o a)) \o b = ((out \o ret) \o q) \o (a \o b)
    <2> DEFINE x == out \o ret
    <2>1. x \in Seq(Nat)
        BY <1>3, ConcatProperties
    <2> HIDE DEF x
    <2>2. (x \o (q \o a)) \o b = (x \o q) \o (a \o b)
        <3>1. q \in Seq(Nat) /\ a \in Seq(Nat) /\ b \in Seq(Nat)
            BY <1>3, <1>5
        <3>2. (x \o q) \o a = x \o (q \o a)
            BY <2>1, <3>1, Associative
        <3>3. x \o q \in Seq(Nat)
            BY <2>1, <3>1, ConcatProperties
        <3>4. ((x \o q) \o a) \o b = (x \o q) \o (a \o b)
            BY <3>1, <3>3, Associative
        <3> QED
            BY <3>2, <3>4
    <2> QED
        BY <2>2 DEF x
<1>8. SocketInv'
    BY <1>1 DEF SecureInv, SocketInv
<1>9. asked
    BY <1>1 DEF SecureInv, PlacesInv
<1>10. ((out \o ret) \o q) \o (a \o b) = Stream(fed)
    BY <1>1, <1>5 DEF SecureInv, StreamInOrder
<1>11. CASE pc' = "undefined" /\ UNCHANGED <<size, out, ret, cap>>
    <2>1. TypesInv'
        BY <1>1, <1>5, <1>6, <1>11 DEF SecureInv, TypesInv, task, Ended
    <2>2. PlacesInv' /\ RoomInv' /\ QueueInv' /\ StreamInOrder'
        BY <1>1, <1>9, <1>11 DEF PlacesInv, RoomInv, QueueInv, StreamInOrder
    <2> QED
        BY <1>8, <2>1, <2>2 DEF SecureInv
<1>12. CASE rec' = <<>> /\ Deliver(ret, 0) /\ cap' = cap
    <2>1. /\ out' = out \o ret /\ out' \in Seq(Nat) /\ ret' = <<>> /\ ret' \in Seq(Nat)
          /\ size' \in Nat
          /\ pc' \in {"read", "closed", "done", "select"}
          /\ pc' = "select" => caller = "multi" /\ ~InHead /\ Len(ret) < need - Cur
          /\ pc' = "done" => Len(out') - head >= 0
          /\ caller = "multi" /\ pc' = "read" /\ Len(out') - head >= 0
               => size' = (need - (Len(out') - head)) % U32
        BY <1>3, <1>12, DeliverSteps
    <2>2. TypesInv'
        BY <1>1, <1>5, <1>6, <1>12, <2>1 DEF SecureInv, TypesInv, task, Ended
    <2>3. QueueInv'
        <3>1. CASE pc' = "select"
            <4>1. Len(ret) = Asked /\ Len(ret) < need - Cur
                BY <1>1, <2>1, <3>1 DEF SecureInv, RoomInv
            <4> QED
                BY <1>1, <1>3, <2>1, <4>1, QueueAfter
        <3>2. CASE pc' # "select"
            BY <3>2 DEF QueueInv
        <3> QED
            BY <3>1, <3>2
    <2>4. PlacesInv'
        <3>1. pc' = "done" => ~InHead'
            <4>1. Len(out') \in Nat /\ head \in Nat /\ head' = head
                BY <1>1, <2>1 DEF SecureInv, TypesInv, task
            <4> QED
                BY <2>1, <4>1 DEF InHead, Cur
        <3> QED
            BY <1>1, <1>9, <1>12, <2>1, <3>1 DEF PlacesInv, task
    <2>5. RoomInv'
        BY <1>1, <2>1, RoomAfter
    <2>6. (((out \o ret) \o <<>>) \o (q \o a)) \o b = ((out \o ret) \o q) \o (a \o b)
        <3>1. (out \o ret) \o <<>> = out \o ret
            BY <1>3, ConcatProperties, ConcatEmptySeq
        <3> QED
            BY <1>7, <3>1, Zenon
    <2>7. ((out' \o ret') \o q') \o rec' = Stream(fed')
        BY <1>1, <1>10, <2>1, <2>6, Zenon
    <2> QED
        BY <1>8, <2>2, <2>3, <2>4, <2>5, <2>7 DEF SecureInv, StreamInOrder
<1>13. CASE /\ ~(len > cap)
            /\ cap' = IF left <= 0 THEN Enlarged(len) ELSE cap
            /\ size' = IF left <= 0 THEN cap' - len ELSE left
            /\ UNCHANGED <<pc, out, ret>>
    <2>1. cap' \in Nat /\ size' \in Nat /\ size' > 0
        BY <1>3, <1>4, <1>13, SecureAssumption DEF Enlarged
    <2>2. TypesInv'
        BY <1>1, <1>5, <1>6, <1>13, <2>1 DEF SecureInv, TypesInv, task
    <2>3. PlacesInv'
        <3>1. size' >= 0
            BY <2>1
        <3> QED
            BY <1>1, <1>9, <1>13, <2>1, <3>1 DEF PlacesInv, task
    <2>4. RoomInv' /\ QueueInv'
        BY <1>1, <1>13 DEF SecureInv, RoomInv, QueueInv, InHead, Asked, Cur, task
    <2>5. ((out' \o ret') \o q') \o rec' = Stream(fed')
        BY <1>1, <1>10, <1>7, <1>13, Zenon
    <2> QED
        BY <1>8, <2>2, <2>3, <2>4, <2>5 DEF SecureInv, StreamInOrder
<1> QED
    BY <1>2, <1>11, <1>12, <1>13

LEMMA SecureStep == SecureInv /\ [Next]_vars => SecureInv'
<1> SUFFICES ASSUME SecureInv, [Next]_vars PROVE SecureInv'
    OBVIOUS
<1>1. CASE UNCHANGED vars
    BY <1>1 DEF vars, task, queue, net, ssl, SecureInv, TypesInv, SocketInv, PlacesInv, RoomInv,
                QueueInv, StreamInOrder, Nothing, InHead, Asked, Cur
<1>2. CASE Next
    BY <1>2, HandshakeKeeps, AgainKeeps, AskKeeps, SelectKeeps, WaitingKeeps, WorldKeeps,
       ReadQueueKeeps, SslReadKeeps, SslMoreKeeps, Zenon DEF Next, Step
<1> QED
    BY <1>1, <1>2

LEMMA SecureAlways == Spec => []SecureInv
<1>1. Init => SecureInv
    BY InitSecure
<1>2. SecureInv /\ [Next]_vars => SecureInv'
    BY SecureStep
<1> QED
    BY <1>1, <1>2, PTL DEF Spec

-------------------------------------------------------------------------------
(* The bounds.                                                             *)

LEMMA SecureNumbers ==
    /\ PAGE \in Nat \ {0} /\ BodyLen \in Nat \ {0} /\ MaxRecord \in Nat \ {0}
    /\ MaxStirs \in Nat /\ HeadLens \subseteq Nat /\ Needs \subseteq Nat
    /\ U32 \in Nat /\ 4 * PAGE <= U32 /\ PAGE + MaxRecord < U32
BY SecureAssumption DEF U32

\* What has been read is in one of four places.
LEMMA StreamLength ==
    ASSUME NEW o \in Seq(Nat), NEW r \in Seq(Nat), NEW s \in Seq(Nat), NEW t \in Seq(Nat)
    PROVE  Len(((o \o r) \o s) \o t) = Len(o) + Len(r) + Len(s) + Len(t)
<1>1. o \o r \in Seq(Nat) /\ Len(o \o r) = Len(o) + Len(r)
    BY ConcatProperties
<1>2. (o \o r) \o s \in Seq(Nat) /\ Len((o \o r) \o s) = Len(o \o r) + Len(s)
    BY <1>1, ConcatProperties
<1>3. Len(((o \o r) \o s) \o t) = Len((o \o r) \o s) + Len(t)
    BY <1>2, ConcatProperties
<1> QED
    BY <1>1, <1>2, <1>3, Zenon

\* Parts of bytes of the answer are bytes of the answer.
LEMMA PartsAreBytes ==
    ASSUME NEW T, NEW s \in Seq(T), NEW n \in 0..Len(s)
    PROVE  SubSeq(s, 1, n) \in Seq(T) /\ SubSeq(s, n + 1, Len(s)) \in Seq(T)
<1>1. Len(s) \in Nat /\ \A k \in 1..Len(s) : s[k] \in T
    OBVIOUS
<1>2. SubSeq(s, 1, n) \in Seq(T)
    BY <1>1, SubSeqProperties
<1>3. SubSeq(s, n + 1, Len(s)) \in Seq(T)
    BY <1>1, SubSeqProperties
<1> QED
    BY <1>2, <1>3

\* A read returns bytes of the answer with room left: the next one has a bounded room.
LEMMA DeliverBounds ==
    ASSUME SecureInv, BoundsInv, UNCHANGED task,
           NEW s \in Seq(1..total), NEW room \in Nat,
           room < U32, InHead => room < 2 * PAGE,
           Deliver(s, room)
    PROVE  /\ out' \in Seq(1..total) /\ ret' \in Seq(1..total)
           /\ size' \in 0..(U32 - 1)
           /\ pc' \in {"read", "closed", "done", "select"}
           /\ pc' = "read" /\ InHead' => size' < 2 * PAGE
<1>0. /\ out \in Seq(1..total) /\ size \in 0..(U32 - 1) /\ need \in Nat /\ head \in Nat
    BY DEF BoundsInv, BytesInv, SizesInv, SecureInv, TypesInv
<1>1. out' = out \o s /\ ret' = <<>> /\ head' = head
    BY DEF Deliver, task
<1>2. /\ out' \in Seq(1..total) /\ Len(out') = Len(out) + Len(s) /\ Len(out) \in Nat
      /\ Len(s) \in Nat
    BY <1>0, <1>1, ConcatProperties
<1>3. ret' \in Seq(1..total)
    BY <1>1
<1> DEFINE c == Len(out) + Len(s) - head
<1>4. pc' \in {"read", "closed", "done", "select"}
    BY DEF Deliver
<1>6. c \in Int /\ c = Len(out') - head /\ Cur <= c /\ Cur \in Int
    BY <1>0, <1>2 DEF Cur
<1>7. InHead' <=> c < 0
    BY <1>1, <1>6 DEF InHead, Asked, Cur
<1>8. \/ c < 0 /\ pc' = "read" /\ size' = (IF PAGE > room THEN room + PAGE ELSE room)
      \/ c >= 0 /\ size' = (need - c) % U32
      \/ c >= 0 /\ size' = size
      \/ c >= 0 /\ size' = PAGE
    BY DEF Deliver
<1> HIDE DEF c
<1>9. CASE c < 0 /\ size' = (IF PAGE > room THEN room + PAGE ELSE room)
    <2>1. InHead
        BY <1>6, <1>9 DEF InHead
    <2>2. room < 2 * PAGE
        BY <2>1
    <2>3. size' \in Nat /\ size' < 2 * PAGE
        BY <1>9, <2>2, SecureNumbers
    <2>4. size' \in 0..(U32 - 1)
        BY <2>3, SecureNumbers
    <2> QED
        BY <1>2, <1>3, <1>4, <2>3, <2>4
<1>10. CASE c >= 0 /\ size' \in {(need - c) % U32, size, PAGE}
    <2>1. ~InHead'
        BY <1>6, <1>7, <1>10
    <2>2. size' \in 0..(U32 - 1)
        <3>1. need - c \in Int
            BY <1>0, <1>6
        <3>2. (need - c) % U32 \in 0..(U32 - 1)
            BY <3>1, Wrapped
        <3>3. PAGE \in 0..(U32 - 1)
            BY SecureNumbers
        <3> QED
            BY <1>0, <1>10, <3>2, <3>3, Zenon
    <2> QED
        BY <1>2, <1>3, <1>4, <2>1, <2>2
<1> QED
    BY <1>8, <1>9, <1>10

LEMMA InitBounds == Init => BoundsInv
<1> SUFFICES ASSUME Init PROVE BoundsInv
    OBVIOUS
<1>1. RecordsInv
    BY DEF Init, RecordsInv
<1>2. /\ head \in Nat /\ need \in Nat /\ need \in Needs \cup {BodyLen}
      /\ caller \in Callers /\ head \in HeadLens
    BY SecureNumbers DEF Init
<1>3. BytesInv
    <2>1. total \in {head, head + need, head + need + 1} /\ sent = 0
        BY DEF Init
    <2>2. total \in Nat /\ total <= head + need + 1 /\ sent <= total
        BY <1>2, <2>1
    <2> QED
        BY <2>2 DEF Init, BytesInv
<1>4. SizesInv
    <2>1. PAGE \in PAGE..(PAGE + MaxRecord) /\ 0 \in 0..(U32 - 1)
        BY SecureNumbers
    <2> QED
        BY <2>1, SecureNumbers DEF Init, SizesInv
<1>5. FixedInv
    <2>1. 0 \in 0..MaxStirs
        BY SecureNumbers
    <2>2. asked = FALSE /\ stop = FALSE /\ part = FALSE /\ link = "up" /\ stirs = 0
        BY DEF Init
    <2> QED
        BY <1>2, <2>1, <2>2 DEF FixedInv
<1> QED
    BY <1>1, <1>3, <1>4, <1>5 DEF BoundsInv

\* The steps that read nothing.
LEMMA CallerBounds ==
    ASSUME SecureInv, BoundsInv,
           \/ Handshake \/ Again \/ Ask \/ Select \/ Silence \/ ReadRejected \/ ReadSocket
           \/ Wait \/ SslWantsMore \/ SslReadNone \/ SslEnds \/ Interrupt \/ UNCHANGED vars
    PROVE  BoundsInv'
<1> USE DEF task, queue, ssl, net
<1>1. UNCHANGED <<caller, head, need, total, out, ret, sent, ends, fed, link, stirs>>
    BY DEF Handshake, Again, NewQueue, Ask, Select, Silence, ReadRejected, ReadSocket, Wait,
           SslWantsMore, SslReadNone, SslEnds, Lost, Failed, Interrupt, vars
<1>2. q' \in {q, <<>>} /\ rec' \in {rec, <<>>} /\ cap' \in {cap, PAGE}
    BY DEF Handshake, Again, NewQueue, Ask, Select, Silence, ReadRejected, ReadSocket, Wait,
           SslWantsMore, SslReadNone, SslEnds, Lost, Failed, Interrupt, vars
<1>3. RecordsInv'
    BY <1>1 DEF RecordsInv, BoundsInv
<1>4. BytesInv'
    <2>1. q' \in Seq(1..total) /\ rec' \in Seq(1..total)
        <3>1. <<>> \in Seq(1..total)
            OBVIOUS
        <3>2. q \in Seq(1..total) /\ rec \in Seq(1..total)
            BY DEF BytesInv, BoundsInv
        <3> QED
            BY <1>2, <3>1, <3>2
    <2> QED
        BY <1>1, <2>1 DEF BytesInv, BoundsInv
<1>5. FixedInv'
    <2>1. part' \in BOOLEAN /\ asked' \in BOOLEAN /\ stop' \in BOOLEAN
        BY DEF Handshake, Again, NewQueue, Ask, Select, Silence, ReadRejected, ReadSocket, Wait,
               SslWantsMore, SslReadNone, SslEnds, Lost, Failed, Interrupt, vars, BoundsInv,
               FixedInv
    <2> QED
        BY <1>1, <2>1 DEF FixedInv, BoundsInv
<1>6. /\ size \in 0..(U32 - 1) /\ cap \in PAGE..(PAGE + MaxRecord)
      /\ PAGE \in PAGE..(PAGE + MaxRecord) /\ PAGE < 2 * PAGE
      /\ PAGE \in 0..(U32 - 1)
    BY SecureNumbers DEF BoundsInv, SizesInv
<1>7. cap' \in PAGE..(PAGE + MaxRecord) /\ (pc' # "undefined" => Len(q') <= cap')
    <2>1. pc # "undefined" => Len(q) <= cap
        BY DEF BoundsInv, SizesInv
    <2>2. /\ (q' = q /\ cap' = cap) \/ (q' = <<>> /\ cap' = PAGE)
          /\ pc' # "undefined" => pc # "undefined"
        BY DEF Handshake, Again, NewQueue, Ask, Select, Silence, ReadRejected, ReadSocket, Wait,
               SslWantsMore, SslReadNone, SslEnds, Lost, Failed, Interrupt, vars
    <2>3. Len(<<>>) = 0 /\ PAGE >= 0
        BY SecureNumbers
    <2> QED
        BY <1>6, <2>1, <2>2, <2>3
<1>8. InHead' <=> InHead
    BY <1>1 DEF InHead, Asked, Cur
<1>9. pc' = "more" => pc = "more" /\ UNCHANGED vars
    BY DEF Handshake, Again, NewQueue, Ask, Select, Silence, ReadRejected, ReadSocket, Wait,
           SslWantsMore, SslReadNone, SslEnds, Lost, Failed, Interrupt, vars
<1>10. pc' = "more" =>
          /\ rec' # <<>> /\ Len(ret') + Len(q') + Len(rec') <= MaxRecord
          /\ size' = cap' - Len(q') \/ Len(q') = cap'
    BY <1>9 DEF vars, BoundsInv, SizesInv
<1>11. CASE Select
    <2>1. Asked \in 0..(U32 - 1)
        <3>1. need - Cur \in Int
            BY DEF SecureInv, TypesInv, Cur
        <3> QED
            BY <3>1, Wrapped DEF Asked
    <2>2. size' = IF InHead THEN PAGE ELSE Asked
        BY <1>11 DEF Select
    <2>3. size' \in 0..(U32 - 1)
        <3>1. CASE InHead
            BY <1>6, <2>2, <3>1
        <3>2. CASE ~InHead
            BY <2>1, <2>2, <3>2
        <3> QED
            BY <3>1, <3>2
    <2>4. InHead' => size' < 2 * PAGE
        BY <1>6, <1>8, <2>2
    <2>5. SizesInv'
        BY <1>7, <1>10, <2>3, <2>4 DEF SizesInv
    <2> QED
        BY <1>3, <1>4, <1>5, <2>5 DEF BoundsInv
<1>12. CASE ~Select
    <2>1. \/ size' = PAGE
          \/ size' = size /\ (pc' \in {"read", "wait", "ssl"} => pc \in {"read", "wait", "ssl"})
        BY <1>12 DEF Handshake, Again, NewQueue, Ask, Silence, ReadRejected, ReadSocket, Wait,
               SslWantsMore, SslReadNone, SslEnds, Lost, Failed, Interrupt, vars
    <2>2. size' \in 0..(U32 - 1)
        BY <1>6, <2>1
    <2>3. pc' \in {"read", "wait", "ssl"} /\ InHead' => size' < 2 * PAGE
        BY <1>6, <1>8, <2>1 DEF BoundsInv, SizesInv
    <2>4. SizesInv'
        BY <1>7, <1>10, <2>2, <2>3 DEF SizesInv
    <2> QED
        BY <1>3, <1>4, <1>5, <2>4 DEF BoundsInv
<1> QED
    BY <1>11, <1>12

\* The server.
LEMMA ServerBounds ==
    ASSUME SecureInv, BoundsInv, Send \/ Stir \/ HangUp
    PROVE  BoundsInv'
<1>1. UNCHANGED <<task, pc, size, out, ret, queue, rec, fed, asked, stop>>
    BY DEF Send, Stir, HangUp, ssl
<1>2. SizesInv'
    BY <1>1 DEF SizesInv, BoundsInv, InHead, Asked, Cur, task, queue
<1>3. FixedInv'
    <2>1. part' \in BOOLEAN /\ link' \in {"up", "notify", "eof", "reset", "error"}
        BY DEF Send, Stir, HangUp, ssl, BoundsInv, FixedInv
    <2>2. stirs' \in 0..MaxStirs
        BY SecureNumbers DEF Send, Stir, HangUp, BoundsInv, FixedInv
    <2> QED
        BY <1>1, <2>1, <2>2 DEF FixedInv, BoundsInv, task
<1>4. CASE Send
    <2>1. PICK n \in 1..MaxRecord :
              sent + n <= total /\ sent' = sent + n /\ ends' = ends \cup {sent + n}
        BY <1>4 DEF Send
    <2>2. /\ fed \in Nat /\ sent \in Nat /\ fed <= sent /\ n \in Nat /\ n > 0 /\ n <= MaxRecord
          /\ ends \subseteq Nat /\ \A e \in ends : e <= sent
        BY <2>1, SecureNumbers DEF SecureInv, SocketInv
    <2>3. ASSUME NEW p \in {fed} \cup ends, p < sent'
          PROVE  \E e \in ends' : p < e /\ e <= p + MaxRecord
        <3>1. CASE p < sent
            BY <2>1, <3>1 DEF BoundsInv, RecordsInv
        <3>2. CASE ~(p < sent)
            <4>1. p = sent
                BY <2>2, <3>2
            <4>2. p < sent + n /\ sent + n <= p + MaxRecord
                BY <2>2, <4>1, SecureNumbers
            <4> QED
                BY <2>1, <4>2
        <3> QED
            BY <3>1, <3>2
    <2>4. RecordsInv'
        <3>1. ~(sent' < sent')
            BY <2>1, <2>2
        <3> QED
            BY <1>1, <2>1, <2>3, <3>1 DEF RecordsInv
    <2>5. BytesInv'
        BY <1>1, <2>1 DEF BytesInv, BoundsInv, task, queue
    <2> QED
        BY <1>2, <1>3, <2>4, <2>5 DEF BoundsInv
<1>5. CASE Stir \/ HangUp
    <2>1. UNCHANGED <<sent, ends>>
        BY <1>5 DEF Stir, HangUp
    <2> QED
        BY <1>1, <1>2, <1>3, <2>1 DEF BoundsInv, RecordsInv, BytesInv, task, queue
<1> QED
    BY <1>4, <1>5

\* What the queue holds is handed out.
LEMMA ReadQueueBounds ==
    ASSUME SecureInv, BoundsInv, SecureInv', ReadQueue
    PROVE  BoundsInv'
<1> DEFINE n == Least(size, Len(q))
           a == SubSeq(q, 1, n)
           b == SubSeq(q, n + 1, Len(q))
<1>1. /\ UNCHANGED <<task, cap, rec, fed, part, sent, ends, link, stirs, asked, stop>>
      /\ pc = "read" /\ q' = b /\ (IF n = 0 THEN Lost ELSE Deliver(a, size - n))
    BY DEF ReadQueue, ssl, net
<1>2. /\ q \in Seq(1..total) /\ size \in 0..(U32 - 1)
      /\ Len(q) \in Nat
    BY DEF BoundsInv, BytesInv, SizesInv
<1>3. n \in 0..Len(q) /\ size - n \in Nat /\ size - n <= size
    BY <1>1, <1>2, SecureNumbers DEF Least
<1> HIDE DEF n
<1>4. a \in Seq(1..total) /\ b \in Seq(1..total) /\ Len(b) <= Len(q)
    <2>1. q \in Seq(Nat)
        BY DEF SecureInv, TypesInv
    <2>2. /\ a \in Seq(Nat) /\ b \in Seq(Nat) /\ Len(a) = n /\ a \o b = q
        BY <1>3, <2>1, CutSeq
    <2>3. a \in Seq(1..total) /\ b \in Seq(1..total)
        BY <1>2, <1>3, PartsAreBytes
    <2> HIDE DEF a, b
    <2>4. Len(a \o b) = Len(a) + Len(b) /\ Len(b) \in Nat
        BY <2>2, ConcatProperties
    <2> QED
        BY <1>3, <2>2, <2>3, <2>4
<1> HIDE DEF a, b
<1>5. /\ size - n < U32
      /\ InHead => size - n < 2 * PAGE
    <2>1. InHead => size < 2 * PAGE
        BY <1>1 DEF BoundsInv, SizesInv
    <2> QED
        BY <1>2, <1>3, <2>1, SecureNumbers
<1>6. /\ out' \in Seq(1..total) /\ ret' \in Seq(1..total)
      /\ size' \in 0..(U32 - 1)
      /\ pc' \in {"read", "closed", "done", "select"}
      /\ pc' = "read" /\ InHead' => size' < 2 * PAGE
    <2>1. CASE n = 0
        BY <1>1, <2>1 DEF Lost, BoundsInv, BytesInv, SizesInv
    <2>2. CASE n # 0
        BY <1>1, <1>3, <1>4, <1>5, <2>2, DeliverBounds
    <2> QED
        BY <2>1, <2>2
<1>7. RecordsInv' /\ FixedInv'
    BY <1>1 DEF BoundsInv, RecordsInv, FixedInv, task
<1>8. BytesInv'
    BY <1>1, <1>4, <1>6 DEF BoundsInv, BytesInv, task
<1>9. SizesInv'
    <2>1. Len(q') <= cap'
        <3>1. Len(q) <= cap /\ cap \in Nat
            BY <1>1, SecureNumbers DEF BoundsInv, SizesInv
        <3>2. q \in Seq(Nat)
            BY DEF SecureInv, TypesInv
        <3>3. Len(b) <= Len(q)
            BY <1>4
        <3> QED
            BY <1>1, <1>2, <3>1, <3>3
    <2> QED
        BY <1>1, <1>6, <2>1 DEF BoundsInv, SizesInv
<1> QED
    BY <1>7, <1>8, <1>9 DEF BoundsInv

\* A read of the socket.
LEMMA SslReadBounds ==
    ASSUME SecureInv, BoundsInv, SecureInv', SslRead
    PROVE  BoundsInv'
<1>1. /\ pc = "ssl" /\ fed < sent /\ fed' = FirstEnd /\ ends' = ends \ {FirstEnd}
      /\ UNCHANGED <<task, q, part, sent, link, stirs, asked, stop>>
    BY DEF SslRead
<1>2. /\ FirstEnd \in ends /\ (\A d \in ends : FirstEnd <= d)
      /\ FirstEnd \in Nat /\ fed < FirstEnd /\ FirstEnd <= sent
      /\ Record \in Seq(Nat) /\ Len(Record) = FirstEnd - fed
    BY <1>1, FirstRecord DEF SecureInv
<1>3. /\ fed \in Nat /\ sent \in Nat /\ sent <= total /\ total \in Nat /\ ends \subseteq Nat
      /\ size \in 0..(U32 - 1) /\ size >= 0
      /\ cap \in PAGE..(PAGE + MaxRecord) /\ q = <<>> /\ rec = <<>>
    BY <1>1 DEF SecureInv, SocketInv, PlacesInv, BoundsInv, BytesInv, SizesInv
<1>4. Len(Record) <= MaxRecord /\ Len(Record) \in Nat
    <2>1. PICK e \in ends : fed < e /\ e <= fed + MaxRecord
        BY <1>1 DEF BoundsInv, RecordsInv
    <2>2. FirstEnd <= e /\ e \in Nat
        BY <1>2, <1>3
    <2> QED
        BY <1>2, <1>3, <2>1, <2>2, SecureNumbers
<1>5. Record \in Seq(1..total)
    <2>1. \A i \in 1..(FirstEnd - fed) : fed + i \in 1..total
        BY <1>2, <1>3
    <2>2. FirstEnd - fed \in Nat
        BY <1>2, <1>3
    <2> DEFINE f == FirstEnd - fed
    <2> HIDE DEF f
    <2>3. Record = [i \in 1..f |-> fed + i]
        BY DEF Record, f
    <2>4. f \in Nat /\ \A i \in 1..f : fed + i \in 1..total
        BY <2>1, <2>2 DEF f
    <2> QED
        BY <2>3, <2>4
<1>6. RecordsInv'
    <2> SUFFICES ASSUME NEW p \in {fed'} \cup ends', p < sent'
                 PROVE  \E e \in ends' : p < e /\ e <= p + MaxRecord
        BY DEF RecordsInv
    <2>1. p \in ends /\ FirstEnd <= p /\ p \in Nat
        BY <1>1, <1>2, <1>3
    <2>2. PICK e \in ends : p < e /\ e <= p + MaxRecord
        BY <1>1, <2>1 DEF BoundsInv, RecordsInv
    <2>3. e # FirstEnd
        BY <1>2, <1>3, <2>1, <2>2
    <2> QED
        BY <1>1, <2>2, <2>3
<1>7. FixedInv'
    BY <1>1 DEF BoundsInv, FixedInv, task
<1>8. CASE Len(Record) <= size
    <2>1. Deliver(Record, size - Len(Record)) /\ rec' = rec /\ cap' = cap
        BY <1>8 DEF SslRead
    <2>2. /\ size - Len(Record) \in Nat
          /\ size - Len(Record) < U32
          /\ InHead => size - Len(Record) < 2 * PAGE
        <3>1. InHead => size < 2 * PAGE
            BY <1>1 DEF BoundsInv, SizesInv
        <3> QED
            BY <1>3, <1>4, <1>8, <3>1, SecureNumbers
    <2>3. /\ out' \in Seq(1..total) /\ ret' \in Seq(1..total)
          /\ size' \in 0..(U32 - 1)
          /\ pc' \in {"read", "closed", "done", "select"}
          /\ pc' = "read" /\ InHead' => size' < 2 * PAGE
        BY <1>1, <1>5, <2>1, <2>2, DeliverBounds
    <2>4. BytesInv' /\ SizesInv'
        BY <1>1, <2>1, <2>3 DEF BoundsInv, BytesInv, SizesInv, task
    <2> QED
        BY <1>6, <1>7, <2>4 DEF BoundsInv
<1>9. CASE ~(Len(Record) <= size)
    <2> DEFINE a == SubSeq(Record, 1, size)
               b == SubSeq(Record, size + 1, Len(Record))
    <2>1. /\ ret' = a /\ rec' = b /\ cap' = Enlarged(Len(q)) /\ size' = cap' - Len(q)
          /\ pc' = "more" /\ out' = out
        BY <1>9 DEF SslRead
    <2>2. size \in 0..Len(Record) /\ size < Len(Record)
        BY <1>3, <1>4, <1>9
    <2>3. a \in Seq(1..total) /\ b \in Seq(1..total)
        BY <1>5, <2>2, PartsAreBytes
    <2>4. Len(a) + Len(b) = Len(Record) /\ Len(a) = size /\ Len(b) \in Nat
        <3>1. /\ a \in Seq(Nat) /\ b \in Seq(Nat) /\ Len(a) = size /\ a \o b = Record
            BY <1>2, <2>2, CutSeq
        <3> HIDE DEF a, b
        <3>2. Len(a \o b) = Len(a) + Len(b) /\ Len(b) \in Nat
            BY <3>1, ConcatProperties
        <3> QED
            BY <3>1, <3>2
    <2> HIDE DEF a, b
    <2>5. cap' = cap /\ Len(q') = 0 /\ size' = cap
        <3>1. Len(q) = 0 /\ q' = q /\ ~(PAGE > cap - 0)
            BY <1>1, <1>3, SecureNumbers
        <3> QED
            BY <1>3, <2>1, <3>1, SecureNumbers DEF Enlarged
    <2>6. /\ size' \in 0..(U32 - 1) /\ size' = cap' - Len(q')
          /\ cap' \in PAGE..(PAGE + MaxRecord)
        BY <1>3, <2>5, SecureNumbers
    <2>7. rec' # <<>> /\ Len(ret') + Len(q') + Len(rec') <= MaxRecord
        <3>1. Len(b) > 0
            BY <1>4, <2>2, <2>4
        <3>2. Len(a) + 0 + Len(b) <= MaxRecord
            BY <1>4, <2>2, <2>4
        <3>3. b # <<>>
            BY <3>1
        <3> QED
            BY <2>1, <2>5, <3>2, <3>3
    <2>8. BytesInv'
        BY <1>1, <2>1, <2>3 DEF BoundsInv, BytesInv, task
    <2>9. SizesInv'
        BY <2>1, <2>6, <2>7 DEF SizesInv
    <2> QED
        BY <1>6, <1>7, <2>8, <2>9 DEF BoundsInv
<1> QED
    BY <1>8, <1>9

\* The rest of the record is read into the queue.  The block is enlarged when it is full,
\* with what does not fill it yet still less than a record.
LEMMA SslMoreBounds ==
    ASSUME SecureInv, BoundsInv, SecureInv', SslMore
    PROVE  BoundsInv'
<1> DEFINE n == Least(size, Len(rec))
           len == Len(q) + n
           left == size - Len(ret)
           a == SubSeq(rec, 1, n)
           b == SubSeq(rec, n + 1, Len(rec))
<1>1. /\ pc = "more" /\ q' = q \o a /\ rec' = b
      /\ UNCHANGED <<task, fed, part, sent, ends, link, stirs, asked, stop>>
    BY DEF SslMore, net
<1>2. \/ pc' = "undefined" /\ UNCHANGED <<size, out, ret, cap>>
      \/ rec' = <<>> /\ Deliver(ret, 0) /\ cap' = cap /\ ~(len > cap)
      \/ /\ ~(len > cap) /\ rec' # <<>>
         /\ cap' = IF left <= 0 THEN Enlarged(len) ELSE cap
         /\ size' = IF left <= 0 THEN cap' - len ELSE left
         /\ UNCHANGED <<pc, out, ret>>
    BY DEF SslMore
<1>3. /\ q \in Seq(1..total) /\ rec \in Seq(1..total) /\ ret \in Seq(1..total)
      /\ out \in Seq(1..total)
      /\ Len(q) \in Nat /\ Len(rec) \in Nat /\ Len(ret) \in Nat
      /\ size \in 0..(U32 - 1) /\ cap \in PAGE..(PAGE + MaxRecord)
      /\ rec # <<>> /\ Len(ret) + Len(q) + Len(rec) <= MaxRecord
      /\ size = cap - Len(q) \/ Len(q) = cap
    <2>1. /\ q \in Seq(1..total) /\ rec \in Seq(1..total) /\ ret \in Seq(1..total)
          /\ out \in Seq(1..total)
        BY DEF BoundsInv, BytesInv
    <2>2. /\ size \in 0..(U32 - 1) /\ cap \in PAGE..(PAGE + MaxRecord)
          /\ rec # <<>> /\ Len(ret) + Len(q) + Len(rec) <= MaxRecord
          /\ size = cap - Len(q) \/ Len(q) = cap
        BY <1>1, Zenon DEF BoundsInv, SizesInv
    <2>3. Len(q) \in Nat /\ Len(rec) \in Nat /\ Len(ret) \in Nat
        BY <2>1
    <2> QED
        BY <2>1, <2>2, <2>3, Zenon
<1>4. size > 0 /\ rec \in Seq(Nat)
    BY <1>1 DEF SecureInv, PlacesInv, TypesInv
<1>5. n \in 0..Len(rec) /\ (n = size \/ n = Len(rec)) /\ n <= size
    BY <1>3, <1>4, SecureNumbers DEF Least
<1>6. n > 0
    <2>1. Len(rec) > 0
        BY <1>3
    <2> QED
        BY <1>4, <1>5, <2>1
<1> HIDE DEF n
<1>7. /\ a \in Seq(1..total) /\ b \in Seq(1..total)
    BY <1>3, <1>5, PartsAreBytes
<1>8. Len(a) = n /\ Len(b) = Len(rec) - n
    <2>1. /\ a \in Seq(Nat) /\ b \in Seq(Nat) /\ Len(a) = n /\ a \o b = rec
        BY <1>4, <1>5, CutSeq
    <2> HIDE DEF a, b
    <2>2. Len(a \o b) = Len(a) + Len(b)
        BY <2>1, ConcatProperties, Zenon
    <2>3. Len(b) \in Nat
        BY <2>1
    <2> QED
        BY <1>3, <1>5, <2>1, <2>2, <2>3
<1> HIDE DEF a, b
<1>9. q' \in Seq(1..total) /\ Len(q') = len
    <2>1. q' \in Seq(1..total) /\ Len(q') = Len(q) + Len(a)
        BY <1>1, <1>3, <1>7, ConcatProperties
    <2> QED
        BY <1>8, <2>1
<1>10. RecordsInv' /\ FixedInv'
    BY <1>1 DEF BoundsInv, RecordsInv, FixedInv, task
<1>11. CASE pc' = "undefined" /\ UNCHANGED <<size, out, ret, cap>>
    <2>1. BytesInv' /\ SizesInv'
        BY <1>1, <1>3, <1>7, <1>9, <1>11 DEF BoundsInv, BytesInv, SizesInv, task
    <2> QED
        BY <1>10, <2>1 DEF BoundsInv
<1>12. CASE rec' = <<>> /\ Deliver(ret, 0) /\ cap' = cap /\ ~(len > cap)
    <2>1. 0 < U32 /\ 0 < 2 * PAGE /\ 0 \in Nat
        BY SecureNumbers
    <2>2. /\ out' \in Seq(1..total) /\ ret' \in Seq(1..total)
          /\ size' \in 0..(U32 - 1)
          /\ pc' \in {"read", "closed", "done", "select"}
          /\ pc' = "read" /\ InHead' => size' < 2 * PAGE
        BY <1>1, <1>3, <1>12, <2>1, DeliverBounds
    <2>3. Len(q') <= cap'
        BY <1>3, <1>5, <1>9, <1>12
    <2>4. BytesInv' /\ SizesInv'
        BY <1>1, <1>3, <1>7, <1>9, <1>12, <2>2, <2>3 DEF BoundsInv, BytesInv, SizesInv, task
    <2> QED
        BY <1>10, <2>4 DEF BoundsInv
<1>13. CASE /\ ~(len > cap) /\ rec' # <<>>
            /\ cap' = IF left <= 0 THEN Enlarged(len) ELSE cap
            /\ size' = IF left <= 0 THEN cap' - len ELSE left
            /\ UNCHANGED <<pc, out, ret>>
    <2>1. Len(b) > 0
        <3>1. Len(b) \in Nat /\ b # <<>>
            BY <1>1, <1>7, <1>13
        <3> QED
            BY <1>7, <3>1, EmptySeq
    <2>2. n = size /\ n < Len(rec)
        BY <1>3, <1>5, <1>8, <2>1
    <2>3. len = cap
        BY <1>3, <1>5, <1>6, <1>13, <2>2
    <2>4. cap < MaxRecord
        BY <1>3, <1>5, <2>2, <2>3, SecureNumbers
    <2>5. \/ cap' = cap /\ size' = left /\ left > 0
          \/ cap' = cap + PAGE /\ size' = PAGE
        BY <1>3, <1>13, <2>3, SecureNumbers DEF Enlarged
    <2>6. cap' \in PAGE..(PAGE + MaxRecord)
        BY <1>3, <2>4, <2>5, SecureNumbers
    <2>7. size' \in 0..(U32 - 1)
        BY <1>3, <2>5, SecureNumbers
    <2>8. size' = cap' - Len(q') \/ Len(q') = cap'
        BY <1>3, <1>9, <2>3, <2>5, SecureNumbers
    <2>9. Len(ret') + Len(q') + Len(rec') <= MaxRecord
        BY <1>1, <1>3, <1>5, <1>8, <1>9, <1>13
    <2>10. BytesInv'
        BY <1>1, <1>3, <1>7, <1>9, <1>13 DEF BoundsInv, BytesInv, task
    <2>11. SizesInv'
        BY <1>1, <1>13, <2>6, <2>7, <2>8, <2>9 DEF SizesInv
    <2> QED
        BY <1>10, <2>10, <2>11 DEF BoundsInv
<1> QED
    BY <1>2, <1>11, <1>12, <1>13

LEMMA BoundsStep == SecureInv /\ SecureInv' /\ BoundsInv /\ [Next]_vars => BoundsInv'
BY CallerBounds, ServerBounds, ReadQueueBounds, SslReadBounds, SslMoreBounds, Zenon
   DEF Next, Step

LEMMA BoundsAlways == Spec => []BoundsInv
<1>1. Init => BoundsInv
    BY InitBounds
<1>2. SecureInv /\ SecureInv' /\ BoundsInv /\ [Next]_vars => BoundsInv'
    BY BoundsStep
<1> QED
    BY <1>1, <1>2, SecureAlways, PTL DEF Spec

-------------------------------------------------------------------------------
\* The type invariant: the block of the queue of secure_socket_read never grows beyond a
\* record and a page, and what the queue holds lies in its block, until the process ends
\* by a read past the block ("undefined"), which SslMore allows and this does not exclude.
THEOREM SecureTypeCorrect == Spec => []SecureTypeOK
<1>1. SecureInv /\ BoundsInv => SecureTypeOK
    <2> SUFFICES ASSUME SecureInv, BoundsInv PROVE SecureTypeOK
        OBVIOUS
    <2>1. sent \in 0..total /\ fed \in 0..sent /\ ends \subseteq (fed + 1)..sent
        <3>1. /\ fed \in Nat /\ sent \in Nat /\ fed <= sent /\ ends \subseteq Nat
              /\ (\A e \in ends : fed < e /\ e <= sent) /\ total \in Nat /\ sent <= total
            BY DEF SecureInv, SocketInv, BoundsInv, BytesInv
        <3> QED
            BY <3>1
    <2>2. /\ pc \in Ended \cup {"shake", "ask", "read", "wait", "ssl", "more", "select"}
          /\ \A s \in {out, ret, rec, q} : s \in Seq(1..total)
        BY DEF SecureInv, TypesInv, BoundsInv, BytesInv
    <2> QED
        BY <2>1, <2>2 DEF SecureTypeOK, BoundsInv, BytesInv, SizesInv, FixedInv
<1> QED
    BY <1>1, SecureAlways, BoundsAlways, PTL

\* Whatever the lengths, and however the server cuts its answer into records, the caller of
\* secure_socket_read gets the bytes in their order, none lost and none twice.
THEOREM StreamStaysInOrder == Spec => []StreamInOrder
<1>1. SecureInv => StreamInOrder
    BY DEF SecureInv
<1> QED
    BY <1>1, SecureAlways, PTL

\* While less than 4 GiB of its chunk are left, whatever they are, the loop goes to select()
\* only when neither the library nor the queue of secure_socket_read holds bytes that
\* select() does not see: a length of 2 GiB or more is refused, and a smaller one is asked
\* for as it is.
THEOREM NothingStaysHidden == Spec => []NothingIsHidden
<1>1. SecureInv => NothingIsHidden
    BY DEF SecureInv, PlacesInv, QueueInv, NothingIsHidden, HasMore
<1> QED
    BY <1>1, SecureAlways, PTL
===============================================================================
