-------------------------- MODULE HttpRequestProofs --------------------------
(***************************************************************************)
(* HttpRequest for every size of the file and every number and length of   *)
(* its chunks, every kind of server and any number of runs, crashes,       *)
(* interrupts and broken connections.                                      *)
(***************************************************************************)
EXTENDS HttpRequest, FiniteSetTheorems, TLAPS

-------------------------------------------------------------------------------
(* Where the chunks lie.                                                   *)

\* The numbers of chunks that the .tmd may have.
Numbers == {0, 1, Nc}
Curs == UNION {[1..k -> Nat] : k \in Numbers}

\* There are k numbers up to k.
LEMMA CountTo ==
    ASSUME NEW k \in Nat
    PROVE  Cardinality(1..k) = k
BY FS_Interval

\* The length of a chunk when there are k of them.
LenOf(k) == IF k = Nc THEN ChunkLen ELSE FileSize

\* The last chunk begins within the file.
LEMMA ChunksBeginInFile ==
    ASSUME NEW k \in Numbers \ {0}
    PROVE  /\ FileSize \in Nat \ {0} /\ k \in Nat \ {0}
           /\ LenOf(k) \in Nat \ {0}
           /\ (k - 1) * LenOf(k) < FileSize
<1>1. /\ Nc \in Nat \ {0} /\ ChunkLen \in Nat \ {0} /\ FileSize \in Nat \ {0}
      /\ (Nc - 1) * ChunkLen < FileSize
    BY RequestAssumption
<1>2. CASE k = Nc
    BY <1>1, <1>2 DEF LenOf
<1>3. CASE k # Nc
    <2>1. k = 1 /\ LenOf(k) = FileSize
        BY <1>3 DEF Numbers, LenOf
    <2> QED
        BY <1>1, <2>1
<1> QED
    BY <1>2, <1>3

\* A chunk lies within the file.
LEMMA ChunkBounds ==
    ASSUME hd.cur \in Curs, NEW c \in Chunks
    PROVE  /\ FileSize \in Nat \ {0} /\ c \in Nat \ {0}
           /\ First(c) \in Nat /\ Last(c) \in Nat
           /\ First(c) < Last(c) /\ Last(c) <= FileSize
<1>1. PICK k \in Numbers : hd.cur \in [1..k -> Nat]
    BY DEF Curs
<1>2. Chunks = 1..k /\ k \in Numbers \ {0} /\ k \in Nat
    BY <1>1, RequestAssumption DEF Chunks, Numbers
<1>3. Share = LenOf(k)
    BY <1>2, CountTo DEF Share, LenOf
<1> DEFINE len == LenOf(k)
<1>4. First(c) = (c - 1) * len /\ Last(c) = IF c * len < FileSize THEN c * len ELSE FileSize
    BY <1>3 DEF First, Last, Lesser
<1>5. len \in Nat \ {0} /\ (k - 1) * len < FileSize /\ c \in Nat \ {0} /\ c <= k
      /\ FileSize \in Nat \ {0}
    BY <1>2, ChunksBeginInFile
<1> HIDE DEF len
<1> DEFINE b == (c - 1) * len
<1>6. /\ b \in Nat /\ c * len = b + len
      /\ b <= (k - 1) * len /\ (k - 1) * len \in Nat
    BY <1>2, <1>5
<1> HIDE DEF b
<1>7. b < FileSize
    BY <1>5, <1>6
<1>8. First(c) = b /\ Last(c) = IF b + len < FileSize THEN b + len ELSE FileSize
    BY <1>4, <1>6 DEF b
<1> QED
    BY <1>5, <1>6, <1>7, <1>8

\* The chunks of a file that is split cover it, but for what is left over.
LEMMA ChunksCoverFile ==
    ASSUME Chunks = 1..Nc, NEW p \in Covered
    PROVE  \E c \in Chunks : p \in First(c)..(Last(c) - 1)
<1> DEFINE k == p \div ChunkLen
<1>1. /\ Nc \in Nat \ {0} /\ ChunkLen \in Nat \ {0} /\ FileSize \in Nat \ {0}
      /\ p \in Nat /\ p < FileSize /\ p < Nc * ChunkLen
    BY RequestAssumption DEF Positions, Covered
<1>2. /\ k \in Nat
      /\ k * ChunkLen <= p
      /\ p < (k + 1) * ChunkLen
    BY <1>1
<1> HIDE DEF k
<1>3. k < Nc
    <2>1. SUFFICES ASSUME Nc <= k PROVE FALSE
        BY <1>1, <1>2
    <2>2. Nc * ChunkLen <= k * ChunkLen
        BY <1>1, <1>2, <2>1
    <2> QED
        BY <1>1, <1>2, <2>2
<1>4. k + 1 \in Chunks /\ (k + 1) - 1 = k /\ Cardinality(Chunks) = Nc
    BY <1>1, <1>2, <1>3, CountTo
<1>5. /\ First(k + 1) = k * ChunkLen
      /\ Last(k + 1) \in {(k + 1) * ChunkLen, FileSize}
    BY <1>4 DEF First, Last, Lesser, Share
<1>6. p \in First(k + 1)..(Last(k + 1) - 1)
    BY <1>1, <1>2, <1>5
<1> QED
    BY <1>4, <1>6

-------------------------------------------------------------------------------
(* The inductive invariant.                                                *)

Labels == {"idle", "create", "create2", "connect", "probe", "update", "dump", "dump2",
           "restart", "multi", "perform", "judge", "single", "receive", "destroy", "died"}

\* The header of the .tmd, and the transfer that is under way: the bytes that a cur_pos
\* does not count yet come from the file, and take it no further than it may go.
HeaderOK ==
    /\ pc \in Labels
    /\ hd \in [status : Status, size : {0, MdSize, FileSize}, cur : Curs]
    /\ pc # "perform" => src = None /\ fresh = {} /\ late = None
    /\ src \in [DOMAIN src -> 0..FileSize]
    /\ \A c \in DOMAIN src :
           /\ src[c] <= hd.cur[c] /\ src[c] + late[c] <= FileSize
           /\ hd.cur[c] + late[c] <= Last(c) + Overrun

\* What a server that honours ranges adds to that.
InRange == server = "range"

\* Its .tmd has all chunks, none of them begun while the status is RS_INIT, ...
ShapeOK ==
    InRange =>
        /\ pc \notin {"single", "receive"}
        /\ pc \in {"update", "dump", "dump2", "restart", "multi", "perform", "judge"} => split
        /\ tmd = "ready" \/ pc \in {"dump", "dump2"} =>
               Chunks = 1..Nc /\ hd.size = FileSize
        /\ (tmd = "ready" /\ hd.status \in {"INIT", "DROP"}) \/ pc \in {"dump", "dump2"} =>
               \A c \in Chunks : hd.cur[c] = First(c)
        /\ pc \in {"connect", "probe", "update", "dump", "dump2"} /\ tmd # "ready" =>
               hd.status = "INIT"
        /\ pc \in {"probe", "update", "dump", "dump2"} => hd.status = "INIT"
        /\ pc \in {"restart", "multi", "perform", "judge"} => tmd = "ready"
        /\ pc \in {"multi", "perform"} => hd.status = "STARTED"
        /\ pc = "judge" => hd.status \in {"STARTED", "FINISHED"}
        /\ hd.status = "FINISHED" \/ (pc = "judge" /\ err = "OK") => Unfinished = {}
        /\ hd.status = "FINISHED" => tmd = "ready"
        /\ pc = "create2" => tmd = "empty"

\* ... and the bytes it sends are stored at their places.
BytesOK ==
    InRange =>
        /\ \A c \in DOMAIN src : src[c] = hd.cur[c]
        /\ \A c \in DOMAIN src : \A p \in Positions :
               p \in hd.cur[c]..(hd.cur[c] + late[c] - 1) => file[p] = p
        /\ tmd = "ready" =>
               \A c \in Chunks : \A p \in Positions :
                   p \in First(c)..(hd.cur[c] - 1) => file[p] = p
        /\ done => Complete

RequestInv == RequestTypeOK /\ HeaderOK /\ ShapeOK /\ BytesOK

\* The first run begins with nothing.
LEMMA RequestInitInv == Init => RequestInv
<1> SUFFICES ASSUME Init PROVE RequestInv
    OBVIOUS
<1>1. /\ FileSize \in Nat \ {0} /\ MAX_RETRY_TIMES = 3
      /\ MaxRuns \in Nat /\ MaxFaults \in Nat /\ CacheSize \in Nat
    BY RequestAssumption DEF MAX_RETRY_TIMES
<1>2. hd = [status |-> "INIT", size |-> 0, cur |-> None] /\ Chunks = {}
    BY DEF Init, BlankHd, None, Chunks
<1>3. None \in Curs
    <2>1. None \in [1..0 -> Nat] /\ 0 \in Numbers
        BY DEF None, Numbers
    <2> QED
        BY <2>1 DEF Curs
<1>4. RequestTypeOK
    <2>1. /\ server \in Servers /\ tmd = "none" /\ hd.status \in Status
          /\ hd.size \in {0, MdSize, FileSize} /\ Chunks \subseteq 1..Nc
          /\ \A c \in Chunks : hd.cur[c] \in First(c)..(Last(c) + Overrun)
          /\ file \in [Positions -> Positions \cup {Hole}]
        BY <1>2 DEF Init, Status
    <2>2. done \in BOOLEAN /\ split \in BOOLEAN /\ stop \in BOOLEAN /\ eintr \in BOOLEAN
        BY DEF Init
    <2>3. /\ type \in TransferTypes /\ conn = "none"
          /\ body \in Positions \cup {FileSize, Nothing}
          /\ DOMAIN src \subseteq Chunks /\ fresh \subseteq DOMAIN src
          /\ late \in [DOMAIN src -> 0..FileSize] /\ err \in Errors
        BY DEF Init, TransferTypes, None, Errors
    <2>4. /\ need \in 0..FileSize /\ puts \in 0..CacheSize
          /\ tries \in 0..MAX_RETRY_TIMES /\ runs \in 0..MaxRuns /\ faults \in 0..MaxFaults
        BY <1>1 DEF Init
    <2> QED
        BY <2>1, <2>2, <2>3, <2>4 DEF RequestTypeOK
<1>5. HeaderOK
    BY <1>2, <1>3 DEF Init, HeaderOK, Labels, Status, None
<1>6. ShapeOK
    BY <1>2 DEF Init, ShapeOK
<1>7. BytesOK
    BY <1>2 DEF Init, BytesOK, None
<1> QED
    BY <1>4, <1>5, <1>6, <1>7 DEF RequestInv

\* What the header and the file of the download keep, as long as nothing is fetched.
LEMMA SameChunks ==
    ASSUME hd'.cur = hd.cur
    PROVE  /\ Chunks' = Chunks /\ Unfinished' = Unfinished
           /\ \A c : First(c)' = First(c) /\ Last(c)' = Last(c)
<1>1. Chunks' = Chunks /\ Share' = Share
    BY DEF Chunks, Share
<1>2. \A c : First(c)' = First(c) /\ Last(c)' = Last(c)
    BY <1>1 DEF First, Last, Lesser
<1> QED
    BY <1>1, <1>2 DEF Unfinished

\* The same of a chunk that goes on.
LEMMA SameBounds ==
    ASSUME DOMAIN hd'.cur = DOMAIN hd.cur
    PROVE  /\ Chunks' = Chunks
           /\ \A c : First(c)' = First(c) /\ Last(c)' = Last(c)
<1>1. Chunks' = Chunks /\ Share' = Share
    BY DEF Chunks, Share
<1> QED
    BY <1>1 DEF First, Last, Lesser

\* The kind of the server does not change.
LEMMA ServerStays ==
    ASSUME [Next]_vars
    PROVE  server' = server /\ Overrun' = Overrun
<1>1. server' = server
    BY DEF Next, Step, vars, StartRun, DinfoCreate, FillMetadata, SetupProxy, Probe,
           UpdateMetadata, BeginDump, EndDump, Restart, AskChunks, EndPerform, Judge, StoreBytes,
           AdvanceCur, SingleStart, SingleRead, SingleEnd, DinfoDestroy, Reap, ServerClose,
           ServerBreak, Interrupt, Crash
<1> QED
    BY <1>1 DEF Overrun

\* A .tmd as it is created.
LEMMA BlankHeader ==
    /\ BlankHd \in [status : Status, size : {0, MdSize, FileSize}, cur : Curs]
    /\ DOMAIN BlankHd.cur = {} /\ BlankHd.status = "INIT" /\ BlankHd.size = 0
<1>1. None \in [1..0 -> Nat] /\ 0 \in Numbers /\ DOMAIN None = {}
    BY DEF None, Numbers
<1> QED
    BY <1>1 DEF BlankHd, Curs, Status

\* cur_pos of one chunk goes on.
LEMMA CurGoesOn ==
    ASSUME NEW k, NEW f \in [1..k -> Nat], NEW c \in DOMAIN f
    PROVE  \A n \in Nat : [f EXCEPT ![c] = @ + n] \in [1..k -> Nat]
OBVIOUS

\* A cur_pos is a number.
LEMMA CursAreNumbers ==
    ASSUME hd.cur \in Curs, NEW c \in Chunks
    PROVE  hd.cur[c] \in Nat
<1>1. PICK k \in Numbers : hd.cur \in [1..k -> Nat]
    BY DEF Curs
<1> QED
    BY <1>1 DEF Chunks

\* What comes at once is from the file, and takes cur_pos no further than it may go.
LEMMA BytesFit ==
    ASSUME RequestInv, NEW c \in DOMAIN src, hd.cur[c] < Last(c), NEW n \in 1..Arriving(c)
    PROVE  /\ c \in Chunks /\ n \in Nat /\ n > 0 /\ hd.cur[c] \in Nat /\ src[c] \in Nat
           /\ src[c] + n <= FileSize /\ hd.cur[c] + n <= Last(c) + Overrun
<1>1. /\ c \in Chunks /\ hd.cur \in Curs /\ src[c] \in 0..FileSize /\ src[c] <= hd.cur[c]
      /\ FileSize \in Nat /\ FileSize > 0
    BY RequestAssumption DEF RequestInv, RequestTypeOK, HeaderOK
<1>2. hd.cur[c] \in Nat /\ Last(c) \in Nat /\ Last(c) <= FileSize
    BY <1>1, ChunkBounds, CursAreNumbers
<1>3. CASE c \notin fresh
    <2>1. n \in 1..(Last(c) - hd.cur[c])
        BY <1>3 DEF Arriving
    <2> QED
        BY <1>1, <1>2, <2>1 DEF Overrun
<1>4. CASE c \in fresh /\ server = "range"
    <2>1. src[c] = hd.cur[c] /\ Overrun = 1
        BY <1>4 DEF RequestInv, BytesOK, InRange, Overrun
    <2>2. n \in 1..(Lesser(Last(c) + 1, FileSize) - src[c])
        BY <1>4 DEF Arriving
    <2>3. Lesser(Last(c) + 1, FileSize) \in Nat /\ Lesser(Last(c) + 1, FileSize) <= FileSize
          /\ Lesser(Last(c) + 1, FileSize) <= Last(c) + 1
        BY <1>1, <1>2 DEF Lesser
    <2> QED
        BY <1>1, <1>2, <2>1, <2>2, <2>3
<1>5. CASE c \in fresh /\ server # "range"
    <2>1. n \in 1..(FileSize - src[c]) /\ Overrun = FileSize
        BY <1>5 DEF Arriving, Overrun
    <2> QED
        BY <1>1, <1>2, <2>1
<1> QED
    BY <1>3, <1>4, <1>5

\* A chunk begins before its end, wherever the file ends.
LEMMA BeginsBeforeEnd ==
    ASSUME NEW b \in Nat, NEW l \in Nat, NEW f \in Nat, NEW o \in Nat, b < f
    PROVE  b \in b..((IF b + l < f THEN b + l ELSE f) + o)
OBVIOUS

\* The file is still one after bytes of it have been stored.
LEMMA StoredInFile ==
    ASSUME file \in [Positions -> Positions \cup {Hole}], NEW c, NEW n \in Nat,
           hd.cur[c] \in Nat, src[c] \in Nat, src[c] + n <= FileSize
    PROVE  Stored(c, n) \in [Positions -> Positions \cup {Hole}]
<1>1. FileSize \in Nat
    BY RequestAssumption
<1>2. ASSUME NEW a \in Nat, NEW b \in Nat, a + n <= FileSize, NEW p \in Positions,
             p - b \in 0..(n - 1)
      PROVE  a + (p - b) \in Positions
    <2>1. /\ p - b \in Int /\ 0 <= p - b /\ p - b <= n - 1
          /\ FileSize \in Nat /\ n \in Nat /\ a \in Nat
        BY <1>1, <1>2 DEF Positions
    <2> QED
        BY <1>2, <2>1 DEF Positions
<1>2a. ASSUME NEW p \in Positions, p - hd.cur[c] \in 0..(n - 1)
       PROVE  src[c] + (p - hd.cur[c]) \in Positions
    BY <1>2, <1>2a
<1>3. \A p \in Positions : Stored(c, n)[p] \in Positions \cup {Hole}
    BY <1>2a DEF Stored
<1> QED
    BY <1>3 DEF Stored

\* What the transfer has in hand, and the header, stay as they should be.
LEMMA HeaderStep ==
    ASSUME RequestInv, [Next]_vars
    PROVE  HeaderOK'
<1> USE DEF RequestInv, HeaderOK, disk, run, main, Goto
<1>o. Overrun' = Overrun
    BY ServerStays
<1>a. ASSUME UNCHANGED <<hd, src, fresh, late>>, pc' \in Labels,
             pc' = "perform" <=> pc = "perform"
      PROVE  HeaderOK'
    BY <1>a, <1>o, SameChunks
<1>b. ASSUME UNCHANGED <<hd, src, fresh, late>>, pc' \in Labels, pc # "perform"
      PROVE  HeaderOK'
    BY <1>b, SameChunks DEF None
<1>c. ASSUME NEW x \in Status, hd' = [hd EXCEPT !.status = x],
             UNCHANGED <<src, fresh, late>>, pc' \in Labels \ {"perform"}, pc # "perform"
      PROVE  HeaderOK'
    BY <1>c DEF None
<1>d. ASSUME hd' \in [status : Status, size : {0, MdSize, FileSize}, cur : Curs],
             FreshContext, pc' \in Labels \ {"perform"}
      PROVE  HeaderOK'
    BY <1>d DEF FreshContext, None
<1>1. CASE StartRun
    BY <1>1, <1>b DEF StartRun, Labels
<1>2. CASE DinfoCreate
    BY <1>2, <1>d, BlankHeader DEF DinfoCreate, CreateFile, LoadFile, Labels
<1>3. CASE FillMetadata
    BY <1>3, BlankHeader DEF FillMetadata, Labels, None
<1>4. CASE SetupProxy
    BY <1>4, <1>b DEF SetupProxy, NoConnection, StartDirectly, StartProbe, Labels
<1>5. CASE Probe
    BY <1>5, <1>b, <1>c
       DEF Probe, NoAnswer, Redirected, UrlInfoCopy, Refused, Answered, Labels, Status
<1>6. CASE UpdateMetadata
    <2> DEFINE size == IF server \in {"range", "length"} THEN FileSize ELSE 0
    <2> DEFINE nc == IF size = 0 THEN 0 ELSE ChunkNumber
    <2> DEFINE len == LenOf(ChunkNumber)
    <2> DEFINE new == [c \in 1..nc |-> (c - 1) * len]
    <2>1. /\ pc = "update" /\ pc' = "dump" /\ UNCHANGED <<src, fresh, late>>
          /\ hd' = [hd EXCEPT !.size = size, !.cur = new]
        BY <1>6 DEF UpdateMetadata, LenOf
    <2>2. ChunkNumber \in Numbers \ {0}
        BY RequestAssumption DEF ChunkNumber, Numbers
    <2>3. len \in Nat /\ ChunkNumber \in Nat
        BY <2>2, ChunksBeginInFile
    <2>4. nc \in Numbers /\ nc \in Nat
        BY <2>2, <2>3 DEF Numbers
    <2> HIDE DEF len, nc
    <2>5. \A c \in 1..nc : (c - 1) * len \in Nat
        BY <2>3, <2>4
    <2>6. new \in Curs
        BY <2>4, <2>5 DEF Curs
    <2> HIDE DEF new
    <2> QED
        BY <2>1, <2>6 DEF Labels, None
<1>7. CASE BeginDump
    BY <1>7, <1>b DEF BeginDump, Labels
<1>8. CASE EndDump
    BY <1>8, <1>b DEF EndDump, Labels
<1>9. CASE Restart
    BY <1>9, <1>b, <1>c DEF Restart, Labels, Status
<1>10. CASE AskChunks
    <2>1. CASE pc' = "perform"
        <3>1. /\ hd' = hd /\ late' = [c \in Unfinished |-> 0]
              /\ src' = [c \in Unfinished |-> IF server = "range" THEN hd.cur[c] ELSE 0]
            BY <1>10, <2>1 DEF AskChunks
        <3>2. Overrun \in Nat
            BY RequestAssumption DEF Overrun
        <3>3. ASSUME NEW c \in Unfinished
              PROVE  /\ hd.cur[c] \in 0..FileSize /\ 0 \in 0..FileSize
                     /\ hd.cur[c] \in Nat /\ hd.cur[c] + 0 <= FileSize
                     /\ hd.cur[c] + 0 <= Last(c) + Overrun
            BY <3>2, ChunkBounds DEF Unfinished, RequestTypeOK
        <3>4. src' \in [Unfinished -> 0..FileSize]
            BY <3>1, <3>3
        <3>5. ASSUME NEW c \in Unfinished
              PROVE  /\ src'[c] <= hd'.cur[c] /\ src'[c] + late'[c] <= FileSize
                     /\ hd'.cur[c] + late'[c] <= Last(c) + Overrun
            BY <3>1, <3>3
        <3>6. \A c : Last(c)' = Last(c)
            BY <3>1, SameChunks
        <3> QED
            BY <1>o, <2>1, <3>1, <3>4, <3>5, <3>6 DEF Labels
    <2>2. CASE pc' # "perform"
        BY <1>10, <2>2, <1>b, <1>c DEF AskChunks, Labels, Status
    <2> QED
        BY <2>1, <2>2
<1>11. ASSUME NEW c \in 1..Nc, StoreBytes(c) PROVE HeaderOK'
    <2>1. PICK n \in 1..Arriving(c) :
              /\ hd' = hd /\ src' = src /\ pc' = pc /\ pc = "perform"
              /\ late' = [late EXCEPT ![c] = n]
              /\ c \in DOMAIN src /\ hd.cur[c] < Last(c)
        BY <1>11 DEF StoreBytes
    <2>2. c \in Chunks /\ src[c] + n <= FileSize /\ hd.cur[c] + n <= Last(c) + Overrun
        BY <2>1, BytesFit
    <2>3. ASSUME NEW d \in DOMAIN src
          PROVE  /\ src[d] <= hd.cur[d] /\ src[d] + late'[d] <= FileSize
                 /\ hd.cur[d] + late'[d] <= Last(d) + Overrun
        BY <2>1, <2>2 DEF RequestTypeOK
    <2>4. \A d : Last(d)' = Last(d)
        BY <2>1, SameChunks
    <2> QED
        BY <1>o, <2>1, <2>3, <2>4
<1>12. ASSUME NEW c \in 1..Nc, AdvanceCur(c) PROVE HeaderOK'
    <2> DEFINE n == late[c]
    <2>1. /\ pc = "perform" /\ pc' = pc /\ c \in DOMAIN src
          /\ late' = [late EXCEPT ![c] = 0]
          /\ hd' = [hd EXCEPT !.cur = [hd.cur EXCEPT ![c] = @ + n]]
          /\ src' = [src EXCEPT ![c] = @ + n]
        BY <1>12 DEF AdvanceCur
    <2>2. /\ c \in Chunks /\ n \in Nat /\ FileSize \in Nat /\ src[c] \in Nat
          /\ late \in [DOMAIN src -> 0..FileSize]
        BY <2>1, ChunkBounds DEF RequestTypeOK
    <2>3. hd'.cur = [hd.cur EXCEPT ![c] = @ + n] /\ hd'.cur \in Curs
        <3>1. PICK k \in Numbers : hd.cur \in [1..k -> Nat]
            BY DEF Curs
        <3>2. hd'.cur = [hd.cur EXCEPT ![c] = @ + n]
            BY <2>1
        <3>3. [hd.cur EXCEPT ![c] = @ + n] \in [1..k -> Nat]
            BY <2>2, <3>1, CurGoesOn DEF Chunks
        <3> QED
            BY <3>2, <3>3 DEF Curs
    <2>4. \A d : First(d)' = First(d) /\ Last(d)' = Last(d)
        BY <2>3, SameBounds
    <2>5. hd' \in [status : Status, size : {0, MdSize, FileSize}, cur : Curs]
        BY <2>1, <2>3
    <2>6. hd.cur[c] \in Nat
        BY <2>2, CursAreNumbers
    <2> HIDE DEF n
    <2>7. ASSUME NEW d \in DOMAIN src
          PROVE  /\ src'[d] \in 0..FileSize
                 /\ src'[d] <= hd'.cur[d] /\ src'[d] + late'[d] <= FileSize
                 /\ hd'.cur[d] + late'[d] <= Last(d) + Overrun
        <3>1. CASE d = c
            <4>1. /\ src'[c] = src[c] + n /\ hd'.cur[c] = hd.cur[c] + n /\ late'[c] = 0
                  /\ src[c] <= hd.cur[c] /\ src[c] + n <= FileSize
                  /\ hd.cur[c] + n <= Last(c) + Overrun
                BY <2>1, <2>2, <2>3 DEF n, Chunks
            <4> QED
                BY <2>2, <2>6, <3>1, <4>1
        <3>2. CASE d # c
            BY <2>1, <2>2, <2>3, <3>2 DEF RequestTypeOK, Chunks
        <3> QED
            BY <3>1, <3>2
    <2>8. DOMAIN src' = DOMAIN src /\ src' \in [DOMAIN src -> 0..FileSize]
        BY <2>1, <2>7
    <2> QED
        BY <1>o, <2>1, <2>4, <2>5, <2>7, <2>8
<1>13. CASE EndPerform
    BY <1>13 DEF EndPerform, Labels, None
<1>14. CASE Judge
    BY <1>14, <1>b, <1>c DEF Judge, Labels, Status
<1>15. CASE SingleStart
    BY <1>15, <1>b DEF SingleStart, Labels
<1>16. CASE SingleRead
    BY <1>16, <1>b DEF SingleRead, Labels
<1>17. CASE SingleEnd
    BY <1>17 DEF SingleEnd, Labels, None
<1>18. CASE DinfoDestroy
    BY <1>18, <1>d, BlankHeader DEF DinfoDestroy, RemoveFile, Labels
<1>19. CASE Reap
    BY <1>19, <1>d DEF Reap, Labels
<1>20. CASE ServerClose
    BY <1>20, <1>b DEF ServerClose, Labels
<1>21. CASE ServerBreak
    BY <1>21, <1>b DEF ServerBreak, Labels
<1>22. CASE Interrupt
    BY <1>22, <1>a DEF Interrupt, Labels
<1>23. CASE Crash
    BY <1>23, <1>d DEF Crash, Labels
<1>24. CASE UNCHANGED vars
    BY <1>24, <1>a DEF vars
<1> QED
    BY <1>1, <1>2, <1>3, <1>4, <1>5, <1>6, <1>7, <1>8, <1>9, <1>10, <1>11, <1>12, <1>13,
       <1>14, <1>15, <1>16, <1>17, <1>18, <1>19, <1>20, <1>21, <1>22, <1>23, <1>24
       DEF Next, Step

\* Types are kept.
LEMMA RequestTypeStep ==
    ASSUME RequestInv, [Next]_vars
    PROVE  RequestTypeOK'
<1> USE DEF RequestInv, RequestTypeOK, HeaderOK, disk, run, main, Goto
<1>0. /\ Nc \in Nat \ {0} /\ FileSize \in Nat \ {0}
      /\ MaxRuns \in Nat /\ MaxFaults \in Nat /\ CacheSize \in Nat
      /\ MAX_RETRY_TIMES = 3 /\ Hole = FileSize /\ Nothing = FileSize + 1 /\ MdSize = 1
      /\ Positions = 0..(FileSize - 1)
    BY RequestAssumption
       DEF MAX_RETRY_TIMES, Hole, Nothing, MdSize, Positions
<1> DEFINE Rest ==
        /\ done \in BOOLEAN /\ split \in BOOLEAN /\ stop \in BOOLEAN /\ eintr \in BOOLEAN
        /\ type \in TransferTypes
        /\ conn \in {"none", "up", "closed", "reset", "freed"}
        /\ body \in Positions \cup {FileSize, Nothing}
        /\ need \in 0..FileSize /\ puts \in 0..CacheSize
        /\ err \in Errors
        /\ tries \in 0..MAX_RETRY_TIMES /\ runs \in 0..MaxRuns /\ faults \in 0..MaxFaults
<1> DEFINE Disk ==
        /\ server \in Servers
        /\ tmd \in {"none", "empty", "blank", "torn", "ready"}
        /\ hd.status \in Status /\ hd.size \in {0, MdSize, FileSize}
        /\ Chunks \subseteq 1..Nc
        /\ \A c \in Chunks : hd.cur[c] \in First(c)..(Last(c) + Overrun)
        /\ file \in [Positions -> Positions \cup {Hole}]
        /\ DOMAIN src \subseteq Chunks /\ fresh \subseteq DOMAIN src
        /\ late \in [DOMAIN src -> 0..FileSize]
<1>r. Rest
    OBVIOUS
<1>d. Disk
    OBVIOUS
<1> SUFFICES Rest' /\ Disk'
    OBVIOUS
<1>h. HeaderOK'
    BY HeaderStep
<1>o. Overrun' = Overrun /\ Overrun \in Nat
    BY <1>0, ServerStays DEF Overrun
<1>e. ASSUME hd'.cur = hd.cur, UNCHANGED <<server, file>>,
             tmd' \in {"none", "empty", "blank", "torn", "ready"},
             \/ src' = src /\ fresh' = fresh /\ late' = late
             \/ src' = None /\ fresh' = {} /\ late' = None
      PROVE  Disk'
    BY <1>e, <1>h, <1>o, SameChunks DEF None
<1>f. ASSUME FreshContext, UNCHANGED <<stop, runs>>, done' \in BOOLEAN,
             tries' \in 0..MAX_RETRY_TIMES, faults' \in 0..MaxFaults
      PROVE  Rest'
    <2>1. /\ split' \in BOOLEAN /\ eintr' \in BOOLEAN /\ stop' \in BOOLEAN
          /\ done' \in BOOLEAN
        BY <1>f DEF FreshContext
    <2>2. /\ type' \in TransferTypes /\ err' \in Errors
          /\ conn' = "none" /\ body' = Nothing /\ need' = 0 /\ puts' = 0
        BY <1>f DEF FreshContext, TransferTypes, Errors
    <2>3. need' \in 0..FileSize /\ puts' \in 0..CacheSize
        BY <1>0, <2>2
    <2> QED
        BY <1>f, <2>1, <2>2, <2>3
<1>g. ASSUME DOMAIN hd'.cur = {}, UNCHANGED <<server, file>>,
             src' = None, fresh' = {}, late' = None,
             tmd' \in {"none", "empty", "blank", "torn", "ready"}
      PROVE  Disk'
    BY <1>g, <1>h DEF Chunks, None
<1>1. CASE StartRun
    <2>1. /\ stop' \in BOOLEAN /\ tries' = 1 /\ runs < MaxRuns /\ runs' = runs + 1
          /\ UNCHANGED <<server, disk, run, faults>>
        BY <1>1 DEF StartRun
    <2>2. tries' \in 0..MAX_RETRY_TIMES /\ runs' \in 0..MaxRuns
        BY <1>0, <2>1
    <2>3. Disk'
        BY <1>e, <2>1
    <2> QED
        BY <2>1, <2>2, <2>3
<1>2. CASE DinfoCreate
    <2>1. Rest'
        BY <1>2, <1>f DEF DinfoCreate
    <2>2. CASE CreateFile \/ (LoadFile /\ tmd # "blank")
        <3>1. /\ hd' = hd /\ UNCHANGED <<server, file>>
              /\ src' = None /\ fresh' = {} /\ late' = None
              /\ tmd' \in {"empty", tmd}
            BY <1>2, <2>2 DEF DinfoCreate, FreshContext, CreateFile, LoadFile
        <3> QED
            BY <1>e, <2>1, <3>1
    <2>3. CASE LoadFile /\ tmd = "blank"
        <3>1. /\ hd' = BlankHd /\ UNCHANGED <<server, file>>
              /\ src' = None /\ fresh' = {} /\ late' = None
              /\ tmd' = tmd
            BY <1>2, <2>3 DEF DinfoCreate, FreshContext, LoadFile
        <3> QED
            BY <1>g, <2>1, <3>1, BlankHeader
    <2> QED
        BY <1>2, <2>1, <2>2, <2>3 DEF DinfoCreate
<1>3. CASE FillMetadata
    <2>1. Rest'
        BY <1>3 DEF FillMetadata
    <2> QED
        BY <1>3, <1>g, <2>1, BlankHeader DEF FillMetadata
<1>4. CASE SetupProxy
    <2>1. Disk'
        BY <1>4, <1>e DEF SetupProxy
    <2>2. CASE NoConnection
        BY <1>0, <1>4, <2>1, <2>2 DEF SetupProxy, NoConnection, Fault, Errors
    <2>3. CASE StartDirectly
        <3>1. (hd.size # 0) \in BOOLEAN
            OBVIOUS
        <3> QED
            BY <1>4, <2>1, <2>3, <3>1 DEF SetupProxy, StartDirectly
    <2>4. CASE StartProbe
        BY <1>4, <2>1, <2>4 DEF SetupProxy, StartProbe
    <2> QED
        BY <1>4, <2>2, <2>3, <2>4 DEF SetupProxy
<1>5. CASE Probe
    <2>1. Disk'
        BY <1>5, <1>e
           DEF Probe, NoAnswer, Redirected, UrlInfoCopy, Refused, Answered
    <2>2. CASE NoAnswer
        BY <1>0, <1>5, <2>1, <2>2 DEF Probe, NoAnswer, Fault, Errors
    <2>3. CASE Redirected
        BY <1>0, <1>5, <2>1, <2>3 DEF Probe, Redirected, UrlInfoCopy, Refused, Fault, Errors
    <2>4. CASE Refused /\ UNCHANGED faults
        BY <1>5, <2>1, <2>4 DEF Probe, Refused, Errors
    <2>5. CASE Answered
        <3>1. /\ split' \in BOOLEAN /\ type' \in TransferTypes
              /\ body' \in Positions \cup {FileSize, Nothing}
            BY <1>0, <2>5 DEF Answered, TransferTypes
        <3> QED
            BY <1>5, <2>1, <2>5, <3>1 DEF Probe, Answered
    <2> QED
        BY <1>5, <2>2, <2>3, <2>4, <2>5 DEF Probe
<1>6. CASE UpdateMetadata
    <2> DEFINE size == IF server \in {"range", "length"} THEN FileSize ELSE 0
    <2> DEFINE nc == IF size = 0 THEN 0 ELSE ChunkNumber
    <2> DEFINE len == LenOf(ChunkNumber)
    <2> DEFINE new == [c \in 1..nc |-> (c - 1) * len]
    <2>1. /\ pc = "update" /\ UNCHANGED <<server, tmd, file, done, run, main, faults>>
          /\ hd' = [hd EXCEPT !.size = size, !.cur = new]
        BY <1>6 DEF UpdateMetadata, LenOf
    <2>2. ChunkNumber \in Numbers \ {0}
        BY RequestAssumption DEF ChunkNumber, Numbers
    <2>3. ChunkNumber \in Nat /\ nc \in {0, ChunkNumber}
        BY <2>2, ChunksBeginInFile
    <2> HIDE DEF nc, len
    <2>4. hd'.cur = new /\ Chunks' = 1..nc /\ 1..nc \subseteq 1..Nc
        BY <1>0, <2>1, <2>2, <2>3 DEF Chunks, Numbers
    <2>5. ASSUME NEW c \in 1..nc PROVE hd'.cur[c] \in First(c)'..(Last(c)' + Overrun')
        <3>1. nc = ChunkNumber /\ nc \in Nat /\ c \in Nat
            BY <2>3, <2>5
        <3>4. Share' = len
            BY <2>4, <3>1, CountTo DEF Share, len, LenOf
        <3>2. /\ First(c)' = (c - 1) * len
              /\ Last(c)' = IF c * len < FileSize THEN c * len ELSE FileSize
            BY <3>4 DEF First, Last, Lesser
        <3>3. /\ len \in Nat /\ c * len = (c - 1) * len + len /\ (c - 1) * len \in Nat
              /\ (c - 1) * len <= (nc - 1) * len /\ (nc - 1) * len < FileSize
            BY <2>2, <3>1, ChunksBeginInFile DEF len
        <3> HIDE DEF len
        <3> DEFINE b == (c - 1) * len
        <3>5. /\ b \in Nat /\ b < FileSize /\ First(c)' = b /\ hd'.cur[c] = b
              /\ Last(c)' = IF b + len < FileSize THEN b + len ELSE FileSize
            <4>1. (nc - 1) * len \in Int
                BY <3>1, <3>3
            <4>2. b < FileSize
                BY <1>0, <3>3, <4>1
            <4> QED
                BY <2>4, <3>2, <3>3, <4>2
        <3> HIDE DEF b
        <3>6. FileSize \in Nat /\ Overrun \in Nat /\ Overrun' = Overrun /\ len \in Nat
            BY <1>0, <1>o, <3>3
        <3>7. b \in b..((IF b + len < FileSize THEN b + len ELSE FileSize) + Overrun)
            BY <3>5, <3>6, BeginsBeforeEnd
        <3> QED
            BY <3>5, <3>6, <3>7
    <2>6. src' = None /\ fresh' = {} /\ late' = None
        BY <2>1
    <2> QED
        BY <1>h, <2>1, <2>4, <2>5, <2>6 DEF None
<1>7. CASE BeginDump
    BY <1>7, <1>e DEF BeginDump
<1>8. CASE EndDump
    BY <1>8, <1>e DEF EndDump
<1>9. CASE Restart
    <2>1. Disk'
        BY <1>9, <1>e DEF Restart
    <2> QED
        BY <1>9, <2>1 DEF Restart, Errors
<1>10. CASE AskChunks
    <2>1. Rest'
        BY <1>0, <1>10 DEF AskChunks, Fault, Errors
    <2>2. CASE UNCHANGED <<src, fresh, late>>
        BY <1>10, <1>e, <2>1, <2>2 DEF AskChunks
    <2>3. CASE /\ hd' = hd /\ DOMAIN src' = Unfinished
               /\ fresh' = Unfinished /\ late' = [c \in Unfinished |-> 0]
        <3>1. UNCHANGED <<server, tmd, file>> /\ Unfinished \subseteq Chunks
            BY <1>10, <2>3 DEF AskChunks, Unfinished
        <3>2. late' \in [DOMAIN src' -> 0..FileSize]
            BY <1>0, <2>3
        <3> QED
            BY <1>h, <1>o, <2>1, <2>3, <3>1, <3>2, SameChunks
    <2> QED
        BY <1>10, <2>2, <2>3 DEF AskChunks
<1>11. ASSUME NEW c \in 1..Nc, StoreBytes(c) PROVE Rest' /\ Disk'
    <2>1. PICK n \in 1..Arriving(c) :
              /\ hd' = hd /\ src' = src /\ c \in DOMAIN src /\ hd.cur[c] < Last(c)
              /\ fresh' = fresh \ {c} /\ late' = [late EXCEPT ![c] = n]
              /\ file' = Stored(c, n)
              /\ UNCHANGED <<server, tmd>>
        BY <1>11 DEF StoreBytes
    <2>2. /\ n \in Nat /\ hd.cur[c] \in Nat /\ src[c] \in Nat /\ src[c] + n <= FileSize
          /\ n \in 0..FileSize
        <3>1. /\ n \in Nat /\ hd.cur[c] \in Nat /\ src[c] \in Nat
              /\ src[c] + n <= FileSize
            BY <2>1, BytesFit
        <3> QED
            BY <1>0, <3>1
    <2>3. file' \in [Positions -> Positions \cup {Hole}]
        BY <2>1, <2>2, StoredInFile
    <2>4. Rest'
        BY <1>11 DEF StoreBytes
    <2> QED
        BY <1>h, <1>o, <2>1, <2>2, <2>3, <2>4, SameChunks
<1>12. ASSUME NEW c \in 1..Nc, AdvanceCur(c) PROVE Rest' /\ Disk'
    <2>1. /\ c \in DOMAIN src /\ UNCHANGED <<server, tmd, file, fresh>>
          /\ late' = [late EXCEPT ![c] = 0]
          /\ hd' = [hd EXCEPT !.cur = [hd.cur EXCEPT ![c] = @ + late[c]]]
          /\ src' = [src EXCEPT ![c] = @ + late[c]]
        BY <1>12 DEF AdvanceCur
    <2>2. hd'.cur = [hd.cur EXCEPT ![c] = @ + late[c]]
        BY <2>1
    <2>3. /\ Chunks' = Chunks
          /\ \A d : First(d)' = First(d) /\ Last(d)' = Last(d)
        BY <2>2, SameBounds
    <2>4. \A d \in Chunks : hd'.cur[d] \in First(d)..(Last(d) + Overrun)
        <3>1. /\ c \in Chunks /\ First(c) \in Nat /\ Last(c) \in Nat /\ late[c] \in Nat
              /\ hd.cur[c] \in Nat /\ hd.cur[c] + late[c] <= Last(c) + Overrun
            BY <2>1, ChunkBounds, CursAreNumbers
        <3>2. hd.cur[c] \in First(c)..(Last(c) + Overrun)
            BY <3>1
        <3>3. hd'.cur[c] \in First(c)..(Last(c) + Overrun)
            <4>1. hd'.cur[c] = hd.cur[c] + late[c]
                BY <2>2, <3>1 DEF Chunks
            <4> QED
                BY <1>o, <3>1, <3>2, <4>1
        <3>4. \A d \in Chunks : d # c => hd'.cur[d] = hd.cur[d]
            BY <2>2, <3>1 DEF Chunks
        <3>5. \A d \in Chunks : hd.cur[d] \in First(d)..(Last(d) + Overrun)
            OBVIOUS
        <3>6. ASSUME NEW d \in Chunks
              PROVE  hd'.cur[d] \in First(d)..(Last(d) + Overrun)
            <4>1. CASE d = c
                BY <3>3, <4>1
            <4>2. CASE d # c
                BY <3>4, <3>5, <3>6, <4>2, Zenon
            <4> QED
                BY <4>1, <4>2
        <3> QED
            BY <3>6
    <2>5. Rest'
        BY <1>12 DEF AdvanceCur
    <2>6. late' \in [DOMAIN src' -> 0..FileSize] /\ fresh' \subseteq DOMAIN src'
        <3>1. /\ late \in [DOMAIN src -> 0..FileSize] /\ fresh \subseteq DOMAIN src
              /\ 0 \in 0..FileSize
            BY <1>0
        <3>2. DOMAIN src' = DOMAIN src
            BY <2>1
        <3>3. late' \in [DOMAIN src -> 0..FileSize]
            BY <2>1, <3>1
        <3> QED
            BY <2>1, <3>1, <3>2, <3>3
    <2>7. /\ Chunks' \subseteq 1..Nc /\ DOMAIN src' \subseteq Chunks'
          /\ \A d \in Chunks' : hd'.cur[d] \in First(d)'..(Last(d)' + Overrun')
        BY <1>o, <2>1, <2>3, <2>4
    <2>8. hd'.status \in Status /\ hd'.size \in {0, MdSize, FileSize}
        BY <1>h
    <2>9. /\ server' \in Servers /\ tmd' \in {"none", "empty", "blank", "torn", "ready"}
          /\ file' \in [Positions -> Positions \cup {Hole}]
        BY <2>1
    <2>10. Disk'
        BY <2>6, <2>7, <2>8, <2>9
    <2> HIDE DEF Rest, Disk
    <2> QED
        BY <2>5, <2>10
<1>13. CASE EndPerform
    <2>1. Disk'
        BY <1>13, <1>e DEF EndPerform
    <2>2. err' \in Errors /\ faults' \in 0..MaxFaults
        BY <1>0, <1>13 DEF EndPerform, Fault, Errors
    <2>3. Rest'
        BY <1>13, <2>2 DEF EndPerform
    <2> HIDE DEF Rest, Disk
    <2> QED
        BY <2>1, <2>3
<1>14. CASE Judge
    <2>1. Disk'
        BY <1>14, <1>e DEF Judge
    <2> QED
        BY <1>14, <2>1 DEF Judge, Errors
<1>15. CASE SingleStart
    <2>1. Disk'
        BY <1>15, <1>e DEF SingleStart
    <2>2. hd.size \in 0..FileSize
        BY <1>0
    <2> QED
        BY <1>15, <2>1, <2>2 DEF SingleStart
<1>16. CASE SingleRead
    <2>1. /\ body \in Positions /\ body' = body + 1
          /\ file' = [file EXCEPT ![body] = body]
          /\ Limited => need > 0
          /\ need' = IF Limited THEN need - 1 ELSE need
          /\ UNCHANGED <<server, tmd, hd, done, split, type, conn, puts, src, fresh, late,
                         err, eintr, main, faults>>
        BY <1>0, <1>16 DEF SingleRead, SafeWrite
    <2>2. body' \in Positions \cup {FileSize, Nothing}
        BY <1>0, <2>1
    <2>4. need' \in 0..FileSize
        <3>1. CASE Limited
            BY <1>0, <2>1, <3>1
        <3>2. CASE ~Limited
            BY <2>1, <3>2
        <3> QED
            BY <3>1, <3>2
    <2>3. Rest'
        BY <2>1, <2>2, <2>4
    <2> QED
        BY <1>h, <1>o, <2>1, <2>3, SameChunks
<1>17. CASE SingleEnd
    <2>1. Disk'
        BY <1>17, <1>e DEF SingleEnd
    <2>2. SingleResult \in {"OK", "CONN", "RES", "none"}
        BY DEF SingleResult
    <2>3. err' \in Errors /\ eintr' \in BOOLEAN
        BY <1>17, <2>2 DEF SingleEnd, Errors
    <2>4. puts' \in 0..CacheSize
        BY <1>0, <1>17 DEF SingleEnd
    <2>5. /\ conn' \in {"none", "up", "closed", "reset", "freed"}
          /\ UNCHANGED <<done, split, type, body, need, main, faults>>
        BY <1>17 DEF SingleEnd
    <2> QED
        BY <2>1, <2>3, <2>4, <2>5
<1>18. CASE DinfoDestroy
    <2>1. Rest'
        BY <1>0, <1>18, <1>f DEF DinfoDestroy
    <2>2. CASE UNCHANGED <<tmd, hd>>
        BY <1>18, <1>e, <2>1, <2>2 DEF DinfoDestroy, FreshContext
    <2>3. CASE RemoveFile
        BY <1>18, <1>g, <2>1, <2>3, BlankHeader DEF DinfoDestroy, FreshContext, RemoveFile
    <2> QED
        BY <1>18, <2>2, <2>3 DEF DinfoDestroy
<1>19. CASE Reap
    <2>1. Rest'
        BY <1>0, <1>19, <1>f DEF Reap
    <2> QED
        BY <1>19, <1>e, <2>1 DEF Reap, FreshContext
<1>20. CASE ServerClose
    <2>1. Disk'
        BY <1>20, <1>e DEF ServerClose
    <2> QED
        BY <1>20, <2>1 DEF ServerClose
<1>21. CASE ServerBreak
    <2>1. Disk'
        BY <1>21, <1>e DEF ServerBreak
    <2> QED
        BY <1>0, <1>21, <2>1 DEF ServerBreak, Fault
<1>22. CASE Interrupt
    <2>1. Disk'
        BY <1>22, <1>e DEF Interrupt
    <2> QED
        <3>1. stop' \in BOOLEAN /\ eintr' \in BOOLEAN
            BY <1>22 DEF Interrupt
        <3>2. faults' \in 0..MaxFaults
            BY <1>0, <1>22 DEF Interrupt, Fault
        <3>3. UNCHANGED <<done, split, type, conn, body, need, puts, err, tries, runs>>
            BY <1>22 DEF Interrupt
        <3> QED
            BY <2>1, <3>1, <3>2, <3>3
<1>23. CASE Crash
    <2>1. Rest'
        BY <1>0, <1>23, <1>f DEF Crash, Fault
    <2> QED
        BY <1>23, <1>e, <2>1 DEF Crash, FreshContext
<1>24. CASE UNCHANGED vars
    <2>1. Disk'
        BY <1>24, <1>e DEF vars
    <2> QED
        BY <1>24, <2>1 DEF vars
<1> HIDE DEF Rest, Disk
<1> QED
    BY <1>1, <1>2, <1>3, <1>4, <1>5, <1>6, <1>7, <1>8, <1>9, <1>10, <1>11, <1>12, <1>13,
       <1>14, <1>15, <1>16, <1>17, <1>18, <1>19, <1>20, <1>21, <1>22, <1>23, <1>24
       DEF Next, Step

\* The chunks of the new metadata begin where they should.
LEMMA NewChunks ==
    ASSUME RequestInv, UpdateMetadata, InRange
    PROVE  /\ Chunks' = 1..Nc /\ hd'.size = FileSize /\ hd'.status = "INIT"
           /\ \A c \in Chunks' : hd'.cur[c] = First(c)'
<1>1. /\ pc = "update" /\ split /\ server = "range" /\ hd.status = "INIT"
      /\ hd \in [status : Status, size : {0, MdSize, FileSize}, cur : Curs]
    BY DEF UpdateMetadata, RequestInv, ShapeOK, HeaderOK, InRange
<1>2. ChunkNumber = Nc /\ FileSize # 0
    BY <1>1, RequestAssumption DEF ChunkNumber
<1>3. /\ hd'.size = FileSize /\ hd'.status = "INIT"
      /\ hd'.cur = [c \in 1..Nc |-> (c - 1) * ChunkLen]
    BY <1>1, <1>2 DEF UpdateMetadata
<1>4. Chunks' = 1..Nc
    BY <1>3 DEF Chunks
<1>5. Share' = ChunkLen
    BY <1>4, CountTo, RequestAssumption DEF Share
<1>6. \A c : First(c)' = (c - 1) * ChunkLen
    BY <1>5 DEF First
<1> QED
    BY <1>3, <1>4, <1>6

\* The shape of the .tmd is kept.
LEMMA ShapeStep ==
    ASSUME RequestInv, [Next]_vars
    PROVE  ShapeOK'
<1> USE DEF RequestInv, ShapeOK, disk, run, main, Goto
<1> SUFFICES ASSUME InRange PROVE ShapeOK'
    BY ServerStays DEF InRange
<1>0. /\ server = "range" /\ FileSize # 0
      /\ hd \in [status : Status, size : {0, MdSize, FileSize}, cur : Curs]
    <2>1. FileSize # 0
        BY RequestAssumption
    <2> QED
        BY <2>1 DEF InRange, HeaderOK
<1>a. ASSUME UNCHANGED hd
      PROVE  /\ Chunks' = Chunks /\ Unfinished' = Unfinished
             /\ \A c : First(c)' = First(c)
    BY <1>a, SameChunks
<1>b. ASSUME NEW x, hd' = [hd EXCEPT !.status = x]
      PROVE  /\ Chunks' = Chunks /\ Unfinished' = Unfinished /\ hd'.cur = hd.cur
             /\ \A c : First(c)' = First(c)
             /\ hd'.status = x /\ hd'.size = hd.size
    BY <1>0, <1>b, SameChunks
<1>1. CASE StartRun
    BY <1>1, <1>a DEF StartRun
<1>2. CASE DinfoCreate
    <2>1. CASE CreateFile
        BY <1>2, <1>a, <2>1 DEF DinfoCreate, CreateFile, Exists
    <2>2. CASE LoadFile
        <3>1. CASE tmd = "blank"
            BY <1>2, <2>2, <3>1, BlankHeader DEF DinfoCreate, LoadFile
        <3>2. CASE tmd # "blank"
            BY <1>2, <1>a, <2>2, <3>2 DEF DinfoCreate, LoadFile
        <3> QED
            BY <3>1, <3>2
    <2> QED
        BY <1>2, <2>1, <2>2 DEF DinfoCreate
<1>3. CASE FillMetadata
    BY <1>3, BlankHeader DEF FillMetadata
<1>4. CASE SetupProxy
    BY <1>0, <1>4, <1>a DEF SetupProxy, NoConnection, StartDirectly, StartProbe, Ready
<1>5. CASE Probe
    <2>1. CASE UNCHANGED hd
        BY <1>0, <1>5, <1>a, <2>1
           DEF Probe, NoAnswer, Redirected, UrlInfoCopy, Refused, Answered
    <2>2. CASE Refused
        BY <1>0, <1>5, <1>b, <2>2 DEF Probe, Refused
    <2> QED
        BY <1>5, <2>1, <2>2 DEF Probe, NoAnswer, Redirected, UrlInfoCopy, Answered
<1>6. CASE UpdateMetadata
    BY <1>6, NewChunks DEF UpdateMetadata
<1>7. CASE BeginDump
    BY <1>7, <1>a DEF BeginDump
<1>8. CASE EndDump
    BY <1>8, <1>a DEF EndDump
<1>9. CASE Restart
    <2>1. CASE hd.status = "FINISHED"
        BY <1>9, <1>a, <2>1 DEF Restart
    <2>2. CASE hd.status # "FINISHED"
        BY <1>9, <1>b, <2>2 DEF Restart
    <2> QED
        BY <2>1, <2>2
<1>10. CASE AskChunks
    <2>1. CASE UNCHANGED hd
        BY <1>10, <1>a, <2>1 DEF AskChunks
    <2>2. CASE ~UNCHANGED hd
        BY <1>10, <1>b, <2>2 DEF AskChunks
    <2> QED
        BY <2>1, <2>2
<1>11. ASSUME NEW c \in 1..Nc, StoreBytes(c) PROVE ShapeOK'
    BY <1>11, <1>a DEF StoreBytes
<1>12. ASSUME NEW c \in 1..Nc, AdvanceCur(c) PROVE ShapeOK'
    <2>1. /\ pc = "perform" /\ UNCHANGED <<pc, tmd, split>>
          /\ hd' = [hd EXCEPT !.cur = [hd.cur EXCEPT ![c] = @ + late[c]]]
        BY <1>12 DEF AdvanceCur
    <2>2. hd'.status = hd.status /\ hd'.size = hd.size
          /\ DOMAIN hd'.cur = DOMAIN hd.cur
        BY <1>0, <2>1
    <2>3. Chunks' = Chunks
        BY <2>2, SameBounds
    <2> QED
        BY <2>1, <2>2, <2>3
<1>13. CASE EndPerform
    BY <1>13, <1>a DEF EndPerform
<1>14. CASE Judge
    <2>1. CASE UNCHANGED hd
        BY <1>14, <1>a, <2>1 DEF Judge
    <2>2. CASE ~UNCHANGED hd
        BY <1>14, <1>b, <2>2 DEF Judge
    <2> QED
        BY <2>1, <2>2
<1>15. CASE SingleStart \/ SingleRead \/ SingleEnd \/ ServerClose \/ ServerBreak
    BY <1>15 DEF SingleStart, SingleRead, SingleEnd, ServerClose, ServerBreak
<1>16. CASE DinfoDestroy
    <2>1. CASE RemoveFile
        BY <1>16, <2>1, BlankHeader DEF DinfoDestroy, RemoveFile
    <2>2. CASE UNCHANGED <<tmd, hd>>
        BY <1>16, <1>a, <2>2 DEF DinfoDestroy
    <2> QED
        BY <1>16, <2>1, <2>2 DEF DinfoDestroy
<1>17. CASE Reap \/ Crash
    BY <1>17, <1>a DEF Reap, Crash
<1>18. CASE Interrupt
    BY <1>18, <1>a DEF Interrupt
<1>19. CASE UNCHANGED vars
    BY <1>19, <1>a DEF vars
<1> QED
    BY <1>1, <1>2, <1>3, <1>4, <1>5, <1>6, <1>7, <1>8, <1>9, <1>10, <1>11, <1>12, <1>13,
       <1>14, <1>15, <1>16, <1>17, <1>18, <1>19 DEF Next, Step

\* With a server that honours ranges the bytes are stored at their places.
LEMMA BytesStep ==
    ASSUME RequestInv, [Next]_vars
    PROVE  BytesOK'
<1> USE DEF RequestInv, BytesOK, disk, run, main, Goto
<1> SUFFICES ASSUME InRange PROVE BytesOK'
    BY ServerStays DEF InRange
<1>0. /\ server = "range" /\ server' = server /\ pc \notin {"single", "receive"}
    BY ServerStays DEF InRange, ShapeOK
<1>h. /\ hd.cur \in Curs
      /\ pc # "perform" => src = None /\ fresh = {} /\ late = None
      /\ src \in [DOMAIN src -> 0..FileSize]
      /\ DOMAIN src \subseteq Chunks /\ late \in [DOMAIN src -> 0..FileSize]
      /\ \A c \in Chunks : hd.cur[c] \in First(c)..(Last(c) + Overrun)
      /\ file \in [Positions -> Positions \cup {Hole}]
    BY DEF HeaderOK, RequestTypeOK
<1>f. FileSize \in Nat /\ Overrun = 1 /\ Wanted = Covered /\ Wanted' = Covered
    BY <1>0, RequestAssumption DEF Overrun, Wanted
<1>c. ASSUME NEW x, hd' = [hd EXCEPT !.status = x] PROVE hd'.cur = hd.cur
    BY <1>c DEF HeaderOK
\* Only pc, the form and main go on.
<1>a. ASSUME hd'.cur = hd.cur, UNCHANGED <<file, done>>, tmd' = "ready" => tmd = "ready",
             \/ src' = src /\ fresh' = fresh /\ late' = late
             \/ src' = None /\ fresh' = {} /\ late' = None
      PROVE  BytesOK'
    BY <1>a, <1>f, SameChunks DEF None, Complete
\* The .tmd is gone, or has chunks that are not begun.
<1>b. ASSUME UNCHANGED file, done' => Complete, src' = None, fresh' = {}, late' = None,
             tmd' # "ready" \/ \A c \in Chunks' : First(c)' \in Nat /\ hd'.cur[c] = First(c)'
      PROVE  BytesOK'
    BY <1>b, <1>f DEF None, Complete
<1>1. CASE StartRun
    BY <1>1, <1>a DEF StartRun
<1>2. CASE DinfoCreate
    <2>1. /\ UNCHANGED <<file, done>> /\ src' = None /\ fresh' = {} /\ late' = None
        BY <1>2 DEF DinfoCreate, FreshContext
    <2>2. tmd' # "ready" \/ UNCHANGED <<tmd, hd>>
        BY <1>2 DEF DinfoCreate, CreateFile, LoadFile
    <2> QED
        BY <1>a, <1>b, <2>1, <2>2
<1>3. CASE FillMetadata
    BY <1>3, <1>b, <1>h DEF FillMetadata
<1>4. CASE SetupProxy
    BY <1>4, <1>a DEF SetupProxy, NoConnection, StartDirectly, StartProbe
<1>5. CASE Probe
    <2>1. hd'.cur = hd.cur
        BY <1>5, <1>c DEF Probe, NoAnswer, Redirected, UrlInfoCopy, Refused, Answered
    <2> QED
        BY <1>5, <1>a, <2>1 DEF Probe
<1>6. CASE UpdateMetadata
    <2>1. /\ UNCHANGED <<file, done, src, fresh, late>> /\ pc = "update"
        BY <1>6 DEF UpdateMetadata
    <2>2. hd'.cur \in Curs
        BY HeaderStep DEF HeaderOK
    <2>3. \A c \in Chunks' : First(c)' \in Nat
        <3>1. ASSUME NEW c \in Chunks' PROVE hd'.cur[c] \in Nat
            <4>1. PICK k \in Numbers : hd'.cur \in [1..k -> Nat]
                BY <2>2 DEF Curs
            <4> QED
                BY <4>1 DEF Chunks
        <3> QED
            BY <1>6, <3>1, NewChunks
    <2> QED
        BY <1>6, <1>b, <1>h, <2>1, <2>3, NewChunks
<1>7. CASE BeginDump
    BY <1>7, <1>a DEF BeginDump
<1>8. CASE EndDump
    <2>1. \A c \in Chunks : First(c) \in Nat /\ hd.cur[c] = First(c)
        BY <1>0, <1>8, <1>h, ChunkBounds DEF EndDump, ShapeOK, InRange
    <2>2. /\ UNCHANGED <<hd, file, done, src, fresh, late>> /\ pc = "dump2"
        BY <1>8 DEF EndDump
    <2>3. \A c \in Chunks' : First(c)' \in Nat /\ hd'.cur[c] = First(c)'
        BY <2>1, <2>2, SameChunks
    <2> QED
        BY <1>b, <1>h, <2>2, <2>3
<1>9. CASE Restart
    <2>1. hd'.cur = hd.cur
        BY <1>9, <1>c DEF Restart
    <2> QED
        BY <1>9, <1>a, <2>1 DEF Restart
<1>10. CASE AskChunks
    <2>1. CASE UNCHANGED <<src, fresh, late>>
        <3>1. hd'.cur = hd.cur
            BY <1>10, <1>c DEF AskChunks
        <3> QED
            BY <1>10, <1>a, <2>1, <3>1 DEF AskChunks
    <2>2. CASE hd' = hd /\ src' = [c \in Unfinished |-> hd.cur[c]]
                        /\ late' = [c \in Unfinished |-> 0]
        <3>1. \A c \in Unfinished : c \in Chunks /\ hd.cur[c] \in Nat
            BY <1>h, CursAreNumbers DEF Unfinished
        <3>2. UNCHANGED <<file, tmd, done>>
            BY <1>10 DEF AskChunks
        <3> QED
            BY <1>0, <1>f, <1>h, <2>2, <3>1, <3>2, SameChunks DEF InRange, Complete
    <2> QED
        BY <1>0, <1>10, <2>1, <2>2 DEF AskChunks
<1>11. ASSUME NEW c \in 1..Nc, StoreBytes(c) PROVE BytesOK'
    <2>1. PICK n \in 1..Arriving(c) :
              /\ UNCHANGED <<hd, src, tmd, done>> /\ c \in DOMAIN src
              /\ late' = [late EXCEPT ![c] = n] /\ file' = Stored(c, n)
        BY <1>11 DEF StoreBytes
    <2>2. /\ n \in Nat /\ hd.cur[c] \in Nat /\ src[c] = hd.cur[c]
          /\ src[c] + n <= FileSize
        BY <1>0, <1>11, <2>1, BytesFit DEF StoreBytes, InRange
    <2>3. \A p \in Positions : /\ file[p] = p => file'[p] = p
                               /\ p \in hd.cur[c]..(hd.cur[c] + n - 1) => file'[p] = p
        BY <1>h, <2>1, <2>2 DEF Stored, Positions
    <2>4. \A d \in DOMAIN src : \A p \in Positions :
              p \in hd.cur[d]..(hd.cur[d] + late'[d] - 1) => file'[p] = p
        BY <1>0, <1>h, <2>1, <2>3 DEF InRange
    <2>5. Covered \subseteq Positions
        BY DEF Covered
    <2> QED
        BY <1>0, <1>f, <1>h, <2>1, <2>3, <2>4, <2>5, SameChunks DEF InRange, Complete
<1>12. ASSUME NEW c \in 1..Nc, AdvanceCur(c) PROVE BytesOK'
    <2> DEFINE n == late[c]
    <2>1. /\ UNCHANGED <<file, tmd, done>> /\ c \in DOMAIN src
          /\ late' = [late EXCEPT ![c] = 0]
          /\ hd' = [hd EXCEPT !.cur = [hd.cur EXCEPT ![c] = @ + n]]
          /\ src' = [src EXCEPT ![c] = @ + n]
        BY <1>12 DEF AdvanceCur
    <2>2. hd'.cur = [hd.cur EXCEPT ![c] = @ + n] /\ c \in Chunks
        BY <1>h, <2>1 DEF HeaderOK
    <2>3. /\ Chunks' = Chunks
          /\ \A d : First(d)' = First(d)
        BY <2>2, SameBounds
    <2>4. /\ hd.cur[c] \in Nat /\ src[c] = hd.cur[c] /\ n \in Nat
          /\ \A p \in Positions : p \in hd.cur[c]..(hd.cur[c] + n - 1) => file[p] = p
        BY <1>0, <1>f, <1>h, <2>1, <2>2, CursAreNumbers DEF InRange
    <2> HIDE DEF n
    <2>5. \A d \in DOMAIN src' : src'[d] = hd'.cur[d]
        BY <1>0, <1>h, <2>1, <2>2, <2>4 DEF InRange, Chunks
    <2>6. ASSUME NEW d \in DOMAIN src', NEW p \in Positions,
                 p \in hd'.cur[d]..(hd'.cur[d] + late'[d] - 1)
          PROVE  file[p] = p
        <3>1. CASE d = c
            <4>1. late'[c] = 0 /\ hd'.cur[c] \in Nat
                BY <1>h, <2>1, <2>2, <2>4 DEF Chunks
            <4> QED
                BY <2>6, <3>1, <4>1
        <3>2. CASE d # c
            BY <1>0, <1>h, <2>1, <2>2, <2>6, <3>2 DEF InRange, Chunks
        <3> QED
            BY <3>1, <3>2
    <2>7. ASSUME tmd = "ready", NEW d \in Chunks, NEW p \in Positions,
                 p \in First(d)..(hd'.cur[d] - 1)
          PROVE  file[p] = p
        <3>1. CASE d = c
            <4>1. First(c) \in Nat /\ hd'.cur[c] = hd.cur[c] + n
                BY <1>h, <2>2, <2>4, ChunkBounds DEF Chunks
            <4>2. \/ p \in First(c)..(hd.cur[c] - 1)
                  \/ p \in hd.cur[c]..(hd.cur[c] + n - 1)
                BY <2>4, <2>7, <3>1, <4>1
            <4> QED
                BY <1>0, <2>2, <2>4, <2>7, <4>2 DEF InRange
        <3>2. CASE d # c
            BY <1>0, <2>2, <2>7, <3>2 DEF InRange, Chunks
        <3> QED
            BY <3>1, <3>2
    <2> QED
        BY <1>0, <1>f, <2>1, <2>3, <2>5, <2>6, <2>7 DEF InRange, Complete
<1>13. CASE EndPerform
    BY <1>13, <1>a DEF EndPerform
<1>14. CASE Judge
    <2>1. hd'.cur = hd.cur
        BY <1>14, <1>c DEF Judge
    <2> QED
        BY <1>14, <1>a, <2>1 DEF Judge
<1>15. CASE SingleStart \/ SingleRead \/ SingleEnd \/ ServerClose \/ ServerBreak
    BY <1>0, <1>15 DEF SingleStart, SingleRead, SingleEnd, ServerClose, ServerBreak
<1>16. CASE DinfoDestroy
    <2>1. ASSUME hd.status = "FINISHED" PROVE Complete
        <3>1. tmd = "ready" /\ Chunks = 1..Nc /\ Unfinished = {}
            BY <1>0, <2>1 DEF ShapeOK, InRange
        <3>2. ASSUME NEW p \in Covered PROVE file[p] = p
            <4>1. PICK c \in Chunks : p \in First(c)..(Last(c) - 1)
                BY <3>1, ChunksCoverFile
            <4>2. First(c) \in Nat /\ Last(c) \in Nat /\ hd.cur[c] \in Nat
                BY <1>h, ChunkBounds, CursAreNumbers
            <4>3. hd.cur[c] >= Last(c)
                BY <1>h, <3>1, <4>2 DEF Unfinished
            <4>4. p \in First(c)..(hd.cur[c] - 1) /\ p \in Positions
                BY <4>1, <4>2, <4>3 DEF Covered
            <4> QED
                BY <1>0, <3>1, <4>4 DEF InRange
        <3> QED
            BY <1>f, <3>2 DEF Complete
    <2>2. /\ file' = file /\ src' = None /\ fresh' = {} /\ late' = None
          /\ done' => Complete
        BY <1>0, <1>16, <2>1 DEF DinfoDestroy, FreshContext, InRange
    <2>3. CASE RemoveFile
        BY <1>b, <2>2, <2>3 DEF RemoveFile
    <2>4. CASE UNCHANGED <<tmd, hd>>
        BY <1>0, <1>f, <2>2, <2>4, SameChunks DEF InRange, Complete, None
    <2> QED
        BY <1>16, <2>3, <2>4 DEF DinfoDestroy
<1>17. CASE Reap \/ Crash
    BY <1>17, <1>a DEF Reap, Crash, FreshContext
<1>18. CASE Interrupt
    BY <1>18, <1>a DEF Interrupt
<1>19. CASE UNCHANGED vars
    BY <1>19, <1>a DEF vars
<1> QED
    BY <1>1, <1>2, <1>3, <1>4, <1>5, <1>6, <1>7, <1>8, <1>9, <1>10, <1>11, <1>12, <1>13,
       <1>14, <1>15, <1>16, <1>17, <1>18, <1>19 DEF Next, Step

-------------------------------------------------------------------------------
(* The theorems.                                                           *)

\* The invariant holds throughout every behaviour.
LEMMA RequestInvariance == Spec => []RequestInv
<1>1. RequestInv /\ [Next]_vars => RequestInv'
    BY RequestTypeStep, HeaderStep, ShapeStep, BytesStep DEF RequestInv
<1> QED
    BY <1>1, RequestInitInv, PTL DEF Spec

\* The header, the chunks and the state of the program stay within their bounds: with a
\* server that honours ranges a cur_pos is never more than one position past its chunk, in
\* any run, after any crash.
THEOREM RequestTypeCorrect == Spec => []RequestTypeOK
<1>1. RequestInv => RequestTypeOK
    BY DEF RequestInv
<1> QED
    BY <1>1, RequestInvariance, PTL

\* With a server that honours ranges, what the .tmd claims is stored at every moment at
\* which the process may die, for any number of chunks, runs and crashes.
THEOREM ClaimedStaysStored == Spec => []ClaimedIsStored
<1>1. RequestInv => ClaimedIsStored
    BY DEF RequestInv, BytesOK, InRange, ClaimedIsStored, Claimed, Ready
<1> QED
    BY <1>1, RequestInvariance, PTL

-------------------------------------------------------------------------------
(* The refinement: every step is a step of Download, or none.              *)

Kept == Claimed \cap Covered
Got == {p \in IF done THEN Covered ELSE Kept : server = "range" /\ file[p] = p}

\* What the abstract specification has got is what the .tmd claims, and a .tmd whose
\* transfer has not begun claims nothing.
Promised ==
    /\ Got = IF server # "range" THEN {} ELSE IF done THEN Covered ELSE Kept
    /\ InRange /\ (tmd # "ready" \/ hd.status \in {"INIT", "DROP"}) => Claimed = {}
    /\ InRange /\ hd.status = "FINISHED" => Kept = Covered

\* The invariant gives it.
LEMMA InvPromises == RequestInv => Promised
<1> SUFFICES ASSUME RequestInv PROVE Promised
    OBVIOUS
<1>1. Got = IF server # "range" THEN {} ELSE IF done THEN Covered ELSE Kept
    <2>1. CASE server # "range"
        BY <2>1 DEF Got
    <2>2. CASE server = "range" /\ ~done
        <3>1. \A p \in Claimed : file[p] = p
            BY <2>2 DEF RequestInv, BytesOK, InRange, Claimed, Ready
        <3> QED
            BY <2>2, <3>1 DEF Got, Kept
    <2>3. CASE server = "range" /\ done
        BY <2>3 DEF Got, RequestInv, BytesOK, InRange, Complete, Wanted
    <2> QED
        BY <2>1, <2>2, <2>3
<1>2. ASSUME InRange, tmd # "ready" \/ hd.status \in {"INIT", "DROP"} PROVE Claimed = {}
    <2>1. CASE ~Ready
        BY <2>1 DEF Claimed
    <2>2. CASE Ready
        <3>1. \A c \in Chunks : hd.cur[c] = First(c) /\ First(c) \in Nat
            BY <1>2, <2>2, ChunkBounds DEF Ready, RequestInv, ShapeOK, HeaderOK
        <3> QED
            BY <3>1 DEF Claimed
    <2> QED
        BY <2>1, <2>2
<1>3. ASSUME InRange, hd.status = "FINISHED" PROVE Kept = Covered
    <2>1. Ready /\ Chunks = 1..Nc /\ Unfinished = {} /\ hd.cur \in Curs
        BY <1>3 DEF RequestInv, ShapeOK, Ready, HeaderOK
    <2>2. ASSUME NEW p \in Covered PROVE p \in Claimed
        <3>1. PICK c \in Chunks : p \in First(c)..(Last(c) - 1)
            BY <2>1, ChunksCoverFile
        <3>2. First(c) \in Nat /\ Last(c) \in Nat /\ hd.cur[c] \in Nat
            BY <2>1, ChunkBounds, CursAreNumbers
        <3>3. hd.cur[c] >= Last(c)
            BY <2>1, <3>2 DEF Unfinished
        <3>4. p \in First(c)..(hd.cur[c] - 1) /\ p \in Positions
            BY <3>1, <3>2, <3>3 DEF Covered
        <3> QED
            BY <2>1, <3>4 DEF Claimed
    <2> QED
        BY <2>2 DEF Kept
<1> QED
    BY <1>1, <1>2, <1>3 DEF Promised

\* When cur_pos follows the stored bytes, the .tmd claims no less than before.
LEMMA AdvanceKeepsClaimed ==
    ASSUME RequestInv, InRange, NEW c \in 1..Nc, AdvanceCur(c)
    PROVE  Claimed \subseteq Claimed'
<1>1. /\ pc = "perform" /\ c \in DOMAIN src /\ tmd' = tmd
      /\ hd' = [hd EXCEPT !.cur = [hd.cur EXCEPT ![c] = @ + late[c]]]
    BY DEF AdvanceCur
<1>2. /\ hd.cur \in Curs
      /\ hd \in [status : Status, size : {0, MdSize, FileSize}, cur : Curs]
      /\ c \in Chunks /\ late[c] \in 0..FileSize /\ FileSize \in Nat
    BY <1>1, RequestAssumption DEF RequestInv, HeaderOK, RequestTypeOK
<1>3. hd'.cur = [hd.cur EXCEPT ![c] = @ + late[c]] /\ hd'.status = hd.status
    BY <1>1, <1>2
<1>4. Ready /\ Ready'
    BY <1>1, <1>3 DEF RequestInv, ShapeOK, Ready
<1>5. /\ Chunks' = Chunks
      /\ \A d : First(d)' = First(d)
    BY <1>3, SameBounds
<1>6. \A d \in Chunks : /\ First(d) \in Nat /\ hd.cur[d] \in Nat
                        /\ hd'.cur[d] \in Nat /\ hd.cur[d] <= hd'.cur[d]
    <2> SUFFICES ASSUME NEW d \in Chunks
                 PROVE  /\ First(d) \in Nat /\ hd.cur[d] \in Nat
                        /\ hd'.cur[d] \in Nat /\ hd.cur[d] <= hd'.cur[d]
        OBVIOUS
    <2>1. First(d) \in Nat /\ hd.cur[d] \in Nat
        BY <1>2, ChunkBounds, CursAreNumbers
    <2> QED
        BY <1>2, <1>3, <2>1 DEF Chunks
<1>7. ASSUME NEW p \in Positions, NEW d \in Chunks, p \in First(d)..(hd.cur[d] - 1)
      PROVE  p \in First(d)..(hd'.cur[d] - 1)
    BY <1>6, <1>7
<1>8. Claimed' = {p \in Positions : \E d \in Chunks : p \in First(d)..(hd'.cur[d] - 1)}
    BY <1>4, <1>5 DEF Claimed
<1> QED
    BY <1>4, <1>7, <1>8 DEF Claimed

\* No other step of a download that goes on changes what is claimed.
LEMMA OthersKeepClaimed ==
    ASSUME RequestInv, Promised, Promised', InRange, InRange', [Next]_vars, ~done',
           \A c \in 1..Nc : ~AdvanceCur(c)
    PROVE  Claimed' = Claimed
<1> USE DEF disk, run, main, Goto
<1>1. ASSUME hd' = hd, tmd' = tmd PROVE Claimed' = Claimed
    <2>1. /\ Chunks' = Chunks /\ hd'.cur = hd.cur /\ Ready' = Ready
          /\ \A c : First(c)' = First(c)
        BY <1>1, SameChunks DEF Ready
    <2> QED
        BY <2>1 DEF Claimed
<1>2. ASSUME tmd # "ready" \/ hd.status \in {"INIT", "DROP"},
             tmd' # "ready" \/ hd'.status \in {"INIT", "DROP"}
      PROVE  Claimed' = Claimed
    BY <1>2 DEF Promised
<1>3. ASSUME NEW x \in {"STARTED", "PAUSED", "FINISHED"}, tmd = "ready", tmd' = tmd,
             hd' = [hd EXCEPT !.status = x]
      PROVE  Claimed' = Claimed
    <2>1. hd'.cur = hd.cur /\ hd'.status = x
        BY <1>3 DEF RequestInv, HeaderOK
    <2>2. Chunks' = Chunks /\ (\A c : First(c)' = First(c)) /\ Ready'
        BY <1>3, <2>1, SameChunks DEF Ready
    <2>3. CASE Ready
        BY <2>1, <2>2, <2>3 DEF Claimed
    <2>4. CASE ~Ready
        <3>1. \A c \in Chunks : hd.cur[c] = First(c) /\ First(c) \in Nat
            BY <1>3, <2>4, ChunkBounds DEF Ready, RequestInv, ShapeOK, HeaderOK
        <3>2. Claimed' = {}
            BY <2>1, <2>2, <3>1 DEF Claimed
        <3> QED
            BY <2>4, <3>2 DEF Claimed
    <2> QED
        BY <2>3, <2>4
<1>4. CASE DinfoCreate
    <2>1. CASE tmd' = tmd /\ hd' = hd
        BY <1>1, <2>1
    <2>2. CASE tmd # "ready" /\ tmd' # "ready"
        BY <1>2, <2>2
    <2> QED
        BY <1>4, <2>1, <2>2 DEF DinfoCreate, CreateFile, LoadFile, Exists
<1>5. CASE FillMetadata
    BY <1>2, <1>5 DEF FillMetadata, RequestInv, ShapeOK
<1>6. CASE Probe
    <2>1. CASE hd' = hd
        BY <1>1, <1>6, <2>1 DEF Probe
    <2>2. CASE hd' # hd
        <3>1. hd.status = "INIT" /\ hd'.status = "DROP"
            BY <1>6, <2>2
               DEF Probe, NoAnswer, Redirected, UrlInfoCopy, Refused, Answered, RequestInv,
                   ShapeOK, HeaderOK
        <3> QED
            BY <1>2, <3>1
    <2> QED
        BY <2>1, <2>2
<1>7. CASE UpdateMetadata
    BY <1>2, <1>7, NewChunks DEF UpdateMetadata, RequestInv, ShapeOK
<1>8. CASE BeginDump \/ EndDump
    BY <1>2, <1>8 DEF BeginDump, EndDump, RequestInv, ShapeOK
<1>9. CASE Restart
    BY <1>1, <1>3, <1>9 DEF Restart, RequestInv, ShapeOK
<1>10. CASE AskChunks
    BY <1>1, <1>3, <1>10 DEF AskChunks, RequestInv, ShapeOK
<1>11. CASE Judge
    BY <1>1, <1>3, <1>11 DEF Judge, RequestInv, ShapeOK
<1>12. CASE DinfoDestroy
    <2>1. hd.status # "FINISHED"
        BY <1>12 DEF DinfoDestroy
    <2>2. CASE RemoveFile /\ hd.status = "DROP"
        BY <1>2, <2>2 DEF RemoveFile
    <2> QED
        BY <1>1, <1>12, <2>1, <2>2 DEF DinfoDestroy
<1>13. CASE UNCHANGED vars
    BY <1>1, <1>13 DEF vars
<1>14. CASE SingleStart \/ SingleRead \/ SingleEnd \/ ServerClose \/ ServerBreak
    BY <1>14
       DEF SingleStart, SingleRead, SingleEnd, ServerClose, ServerBreak, RequestInv, ShapeOK
<1>15. CASE \/ StartRun \/ SetupProxy \/ EndPerform \/ Reap \/ Interrupt \/ Crash
            \/ \E c \in 1..Nc : StoreBytes(c)
    BY <1>1, <1>15 DEF StartRun, SetupProxy, EndPerform, Reap, Interrupt, Crash, StoreBytes
<1> QED
    BY <1>4, <1>5, <1>6, <1>7, <1>8, <1>9, <1>10, <1>11, <1>12, <1>13, <1>14, <1>15
       DEF Next, Step

\* done is set in one place, by the end of a finished request, and never taken back.
LEMMA DoneOnce ==
    ASSUME done \in BOOLEAN, [Next]_vars
    PROVE  done' = done \/ (done' = TRUE /\ hd.status = "FINISHED")
<1>1. CASE DinfoDestroy
    <2>1. done' = (done \/ hd.status = "FINISHED")
        BY <1>1 DEF DinfoDestroy
    <2>2. CASE hd.status = "FINISHED"
        BY <2>1, <2>2
    <2>3. CASE hd.status # "FINISHED"
        BY <2>1, <2>3
    <2> QED
        BY <2>2, <2>3
<1> QED
    BY <1>1
       DEF Next, Step, vars, disk, StartRun, DinfoCreate, FillMetadata, SetupProxy, Probe,
           UpdateMetadata, BeginDump, EndDump, Restart, AskChunks, EndPerform, Judge,
           StoreBytes, AdvanceCur, SingleStart, SingleRead, SingleEnd, Reap, ServerClose,
           ServerBreak, Interrupt, Crash

\* Every step is a step of Download or leaves it alone.
LEMMA HttpStepIsDownload ==
    ASSUME RequestInv, RequestInv', Promised, Promised', [Next]_vars
    PROVE  [D!DownloadNext]_(D!downloadVars)
<1> DEFINE over == server = "range" /\ done
<1>1. server' = server /\ done \in BOOLEAN /\ done' \in BOOLEAN
    BY ServerStays DEF RequestInv, RequestTypeOK
<1>2. /\ Got = IF server # "range" THEN {} ELSE IF done THEN Covered ELSE Kept
      /\ Got' = IF server # "range" THEN {} ELSE IF done' THEN Covered ELSE Kept'
    BY <1>1 DEF Promised
<1>3. ASSUME Got' = Got, over' = over PROVE UNCHANGED D!downloadVars
    BY <1>3 DEF D!downloadVars, Got, Kept
<1>4. CASE server # "range"
    BY <1>1, <1>2, <1>3, <1>4
<1>5. CASE server = "range" /\ done
    <2>1. done'
        BY <1>1, <1>5, DoneOnce
    <2> QED
        BY <1>1, <1>2, <1>3, <1>5, <2>1
<1>6. CASE server = "range" /\ ~done /\ done'
    <2>1. Kept = Covered
        BY <1>1, <1>6, DoneOnce DEF Promised, InRange
    <2>2. Got = Covered /\ Got' = Covered /\ ~over /\ over'
        BY <1>1, <1>2, <1>6, <2>1
    <2>3. D!Finish
        BY <2>2 DEF D!Finish, Got, Kept
    <2> QED
        BY <2>3 DEF D!DownloadNext
<1>7. CASE server = "range" /\ ~done /\ ~done'
    <2>1. ~over /\ over' = over /\ Got = Kept /\ Got' = Kept'
        BY <1>1, <1>2, <1>7
    <2>2. ASSUME NEW c \in 1..Nc, AdvanceCur(c) PROVE D!Fetch
        <3>1. Claimed \subseteq Claimed'
            BY <1>7, <2>2, AdvanceKeepsClaimed DEF InRange
        <3>2. Got \subseteq Got' /\ Got' \subseteq Covered
            BY <2>1, <3>1 DEF Kept
        <3>3. Got' = Got \cup (Got' \ Got) /\ Got' \ Got \in SUBSET (Covered \ Got)
            BY <3>2
        <3>4. \E more \in SUBSET (Covered \ Got) : Got' = Got \cup more
            BY <3>3
        <3> QED
            BY <2>1, <3>4 DEF D!Fetch, Got, Kept
    <2>3. CASE \A c \in 1..Nc : ~AdvanceCur(c)
        <3>1. Claimed' = Claimed
            BY <1>1, <1>7, <2>3, OthersKeepClaimed DEF InRange
        <3>2. Got' = Got
            BY <2>1, <3>1 DEF Kept
        <3> QED
            BY <1>3, <2>1, <3>2
    <2> QED
        BY <2>2, <2>3 DEF D!DownloadNext
<1> QED
    BY <1>4, <1>5, <1>6, <1>7

\* A download over HTTP from a server that honours ranges keeps the promise of Download:
\* nothing that was fetched is lost or wrong, and only a file all of whose chunks are there
\* is reported finished, whatever happens on the way.  That is the whole file unless
\* chunk_split leaves its end over.
THEOREM HttpImplementsDownload == Spec => KeepsPromise
<1>1. Init => D!DownloadInit
    <2>1. ASSUME Init PROVE Got = {} /\ ~done
        BY <2>1 DEF Init, Got, Kept, Claimed, Ready
    <2> QED
        BY <2>1 DEF D!DownloadInit, Got, Kept
<1>2. RequestInv /\ RequestInv' /\ Promised /\ Promised' /\ [Next]_vars
          => [D!DownloadNext]_(D!downloadVars)
    BY HttpStepIsDownload
<1> QED
    BY <1>1, <1>2, InvPromises, RequestInvariance, PTL
       DEF Spec, KeepsPromise, D!DownloadSpec

-------------------------------------------------------------------------------
(* The single form.                                                        *)

\* Where a download over a single connection has neither been disturbed nor begun by an
\* earlier run.
Undisturbed ==
    \/ server = "length" /\ runs <= 1
    \/ server \in {"length", "chunked", "plain"} /\ faults = 0

\* The size that dinfo_update_metadata is told.
Announced == IF server = "length" THEN FileSize ELSE 0

\* How a run comes to the single form, and leaves it.
WayOK ==
    /\ pc \notin {"multi", "perform"}
    /\ runs = 0 => pc = "idle"
    /\ pc = "idle" /\ (runs = 0 \/ faults = 0) => done \/ tmd = "none"
    /\ pc = "died" => faults > 0
    /\ done => pc = "idle"
    /\ pc = "create" => tmd \in {"none", "blank"}
    /\ pc = "create2" => tmd = "empty"
    /\ pc \in {"connect", "probe", "update", "dump"} => tmd = "blank"
    /\ pc \in {"connect", "probe", "update", "dump", "dump2", "restart", "single", "receive",
               "judge"} => hd.status \in {"INIT", "STARTED"}
    /\ stop => faults > 0
    /\ eintr => stop /\ pc = "receive"
    /\ pc = "destroy" =>
          /\ err \notin DoNotRetry \cup {"OK"} => tmd = "blank"
          /\ hd.status = "FINISHED" => err = "OK"
          /\ faults = 0 => hd.status = "FINISHED"

\* What arrives on the connection of the probe is stored from the beginning on, ...
InPlace ==
    /\ split = FALSE /\ type = IF server = "chunked" THEN "chunked" ELSE "raw"
    /\ body \in 0..FileSize
    /\ \A p \in Positions : p < body => file[p] = p

\* ... and what is still to come is counted; a connection is gone when the form is tried
\* again.
StreamOK ==
    /\ pc \in {"update", "dump", "dump2", "restart", "single", "receive", "judge"} => InPlace
    /\ pc \in {"dump", "dump2", "restart", "single", "receive"} => hd.size = Announced
    /\ pc = "probe" => conn = "up"
    /\ pc \in {"update", "dump", "dump2"} => conn = "up" /\ body = 0
    /\ pc \in {"restart", "single"} =>
          \/ conn = "up" /\ body = 0
          \/ conn # "up" /\ faults > 0
    /\ pc = "receive" =>
          /\ faults = 0 => \/ conn = "up"
                           \/ server = "plain" /\ conn = "closed" /\ body = FileSize
          /\ server = "length" => \/ need + body = FileSize
                                  \/ need = FileSize /\ conn # "up"
    /\ pc = "judge" =>
          /\ err = "OK" => body = FileSize
          /\ err # "OK" => /\ err \notin DoNotRetry /\ faults > 0 /\ hd.size = Announced
                           /\ ~stop => conn # "up"
    /\ done \/ (pc = "destroy" /\ hd.status = "FINISHED") => Complete

SingleInv == Undisturbed => WayOK /\ StreamOK

\* A server that refuses the probe.
RefusedOK ==
    server = "error" =>
        /\ ~done /\ tmd \notin {"torn", "ready"} /\ hd.status # "FINISHED"
        /\ pc \in {"idle", "create", "create2", "connect", "probe", "destroy", "died"}

\* What all steps keep: the server, and the counts, which only grow.
LEMMA CountsGrow ==
    ASSUME RequestInv, RequestInv', [Next]_vars
    PROVE  /\ server' = server
           /\ runs \in Nat /\ runs' \in Nat /\ runs <= runs'
           /\ faults \in Nat /\ faults' \in Nat /\ faults <= faults'
<1>1. server' = server
    BY ServerStays
<1>2. runs \in Nat /\ runs' \in Nat /\ faults \in Nat /\ faults' \in Nat
    BY RequestAssumption DEF RequestInv, RequestTypeOK
<1>3. /\ runs' = runs \/ runs' = runs + 1
      /\ faults' = faults \/ faults' = faults + 1
    BY DEF Next, Step, vars, main, run, disk, Fault, StartRun, DinfoCreate, FillMetadata,
           SetupProxy, NoConnection, StartDirectly, StartProbe, Probe, NoAnswer, Redirected,
           Answered, UpdateMetadata, BeginDump, EndDump, Restart, AskChunks, EndPerform,
           Judge, StoreBytes, AdvanceCur, SingleStart, SingleRead, SingleEnd, DinfoDestroy,
           Reap, ServerClose, ServerBreak, Interrupt, Crash
<1> QED
    BY <1>1, <1>2, <1>3

\* What has been disturbed stays so.
LEMMA UndisturbedBefore ==
    ASSUME RequestInv, RequestInv', [Next]_vars, Undisturbed'
    PROVE  Undisturbed
<1>1. /\ server' = server
      /\ runs \in Nat /\ runs' \in Nat /\ runs <= runs'
      /\ faults \in Nat /\ faults' \in Nat /\ faults <= faults'
    BY CountsGrow
<1> QED
    BY <1>1 DEF Undisturbed

\* What the variables are, as far as the single form is concerned.
LEMMA SingleTypes ==
    ASSUME RequestInv
    PROVE  /\ hd \in [status : Status, size : {0, MdSize, FileSize}, cur : Curs]
           /\ stop \in BOOLEAN /\ eintr \in BOOLEAN /\ split \in BOOLEAN /\ done \in BOOLEAN
           /\ FileSize \in Nat \ {0} /\ Nothing = FileSize + 1 /\ MdSize = 1
           /\ Positions = 0..(FileSize - 1) /\ file \in [Positions -> Positions \cup {Hole}]
           /\ need \in Nat /\ pc \in Labels /\ body \in Nat
<1>1. FileSize \in Nat \ {0} /\ Nothing = FileSize + 1 /\ MdSize = 1
      /\ Positions = 0..(FileSize - 1)
    BY RequestAssumption DEF Nothing, MdSize, Positions
<1>2. need \in 0..FileSize /\ body \in Positions \cup {FileSize, Nothing}
    BY DEF RequestInv, RequestTypeOK
<1>3. need \in Nat /\ body \in Nat
    BY <1>1, <1>2
<1>4. /\ hd \in [status : Status, size : {0, MdSize, FileSize}, cur : Curs]
      /\ pc \in Labels
    BY DEF RequestInv, HeaderOK
<1>5. /\ stop \in BOOLEAN /\ eintr \in BOOLEAN /\ split \in BOOLEAN /\ done \in BOOLEAN
      /\ file \in [Positions -> Positions \cup {Hole}]
    BY DEF RequestInv, RequestTypeOK
<1> QED
    BY <1>1, <1>3, <1>4, <1>5

\* A run goes its way ...
LEMMA WayStep ==
    ASSUME RequestInv, RequestInv', SingleInv, [Next]_vars, Undisturbed'
    PROVE  WayOK'
<1> USE DEF WayOK, disk, run, main, Goto
<1>1. /\ server' = server
      /\ runs \in Nat /\ runs' \in Nat /\ runs <= runs'
      /\ faults \in Nat /\ faults' \in Nat /\ faults <= faults'
    BY CountsGrow
<1>2. WayOK /\ StreamOK /\ server \in {"length", "chunked", "plain"}
    BY <1>1, UndisturbedBefore DEF SingleInv, Undisturbed
<1>a. /\ hd \in [status : Status, size : {0, MdSize, FileSize}, cur : Curs]
      /\ stop \in BOOLEAN /\ eintr \in BOOLEAN /\ split \in BOOLEAN /\ done \in BOOLEAN
      /\ FileSize \in Nat \ {0} /\ MdSize = 1 /\ need \in Nat /\ body \in Nat
    BY SingleTypes
<1>b. /\ pc = "restart" => split = FALSE
      /\ pc = "single" /\ conn = "freed" => faults > 0
      /\ pc = "judge" /\ err # "OK" => err \notin DoNotRetry /\ faults > 0
    BY <1>2 DEF StreamOK, InPlace
<1> USE <1>a, <1>b
<1>3. CASE DinfoCreate
    BY <1>1, <1>2, <1>3 DEF DinfoCreate, CreateFile, LoadFile, Exists, FreshContext, BlankHd
<1>4. CASE FillMetadata
    BY <1>1, <1>2, <1>4 DEF FillMetadata, BlankHd
<1>5. CASE SetupProxy
    BY <1>1, <1>2, <1>5
       DEF SetupProxy, NoConnection, StartDirectly, StartProbe, Fault, Ready
<1>6. CASE Probe
    BY <1>1, <1>2, <1>6
       DEF Probe, NoAnswer, Redirected, UrlInfoCopy, Refused, Answered, Fault,
           DoNotRetry
<1>7. CASE UpdateMetadata
    BY <1>1, <1>2, <1>7 DEF UpdateMetadata
<1>8. CASE BeginDump
    BY <1>1, <1>2, <1>8 DEF BeginDump
<1>9. CASE EndDump
    BY <1>1, <1>2, <1>9 DEF EndDump
<1>10. CASE Restart
    BY <1>1, <1>2, <1>10 DEF Restart
<1>11. CASE AskChunks
    BY <1>1, <1>2, <1>11 DEF AskChunks
<1>12. CASE EndPerform
    BY <1>1, <1>2, <1>12 DEF EndPerform
<1>13. CASE Judge
    BY <1>1, <1>2, <1>13 DEF Judge, DoNotRetry
<1>14. CASE SingleStart
    BY <1>1, <1>2, <1>14 DEF SingleStart
<1>15. CASE SingleRead
    BY <1>1, <1>2, <1>15 DEF SingleRead
<1>16. CASE SingleEnd
    BY <1>1, <1>2, <1>16 DEF SingleEnd
<1>17. CASE DinfoDestroy
    BY <1>1, <1>2, <1>17 DEF DinfoDestroy, RemoveFile, BlankHd, FreshContext
<1>18. CASE Reap
    BY <1>1, <1>2, <1>18 DEF Reap, FreshContext
<1>19. CASE StartRun
    BY <1>1, <1>2, <1>19 DEF StartRun, Undisturbed
<1>20. CASE ServerClose
    BY <1>1, <1>2, <1>20 DEF ServerClose
<1>21. CASE ServerBreak
    BY <1>1, <1>2, <1>21 DEF ServerBreak, Fault
<1>22. CASE Interrupt
    <2>1. eintr' = FALSE \/ eintr' = (pc = "receive")
        BY <1>22, Zenon DEF Interrupt
    <2>2. eintr' => pc = "receive"
        BY <2>1, Zenon
    <2> QED
        BY <1>1, <1>2, <1>22, <2>2 DEF Interrupt, Fault
<1>23. CASE Crash
    BY <1>1, <1>2, <1>23 DEF Crash, FreshContext, Fault
<1>24. CASE UNCHANGED vars
    BY <1>2, <1>24 DEF vars
<1>25. ASSUME NEW c \in 1..Nc, StoreBytes(c) \/ AdvanceCur(c) PROVE FALSE
    BY <1>2, <1>25 DEF StoreBytes, AdvanceCur
<1> QED
    BY <1>3, <1>4, <1>5, <1>6, <1>7, <1>8, <1>9, <1>10, <1>11, <1>12, <1>13, <1>14,
       <1>15, <1>16, <1>17, <1>18, <1>19, <1>20, <1>21, <1>22, <1>23, <1>24, <1>25
       DEF Next, Step

\* ... and its bytes are stored at their places.
LEMMA StreamStep ==
    ASSUME RequestInv, RequestInv', SingleInv, [Next]_vars, Undisturbed'
    PROVE  StreamOK'
<1> USE DEF StreamOK, disk, run, main, Goto
<1>1. /\ server' = server
      /\ runs \in Nat /\ runs' \in Nat /\ runs <= runs'
      /\ faults \in Nat /\ faults' \in Nat /\ faults <= faults'
    BY CountsGrow
<1>2. WayOK /\ StreamOK /\ server \in {"length", "chunked", "plain"}
    BY <1>1, UndisturbedBefore DEF SingleInv, Undisturbed
<1>a. /\ hd \in [status : Status, size : {0, MdSize, FileSize}, cur : Curs]
      /\ stop \in BOOLEAN /\ eintr \in BOOLEAN /\ split \in BOOLEAN /\ done \in BOOLEAN
      /\ FileSize \in Nat \ {0} /\ MdSize = 1 /\ need \in Nat /\ body \in Nat
    BY SingleTypes
<1>b. UNCHANGED <<server, split, type, body, file>> => InPlace' = InPlace
    BY DEF InPlace
<1>c. /\ UNCHANGED <<server, file>> => Complete' = Complete
      /\ Wanted = Positions /\ Wanted' = Positions
    BY <1>1, <1>2 DEF Complete, Wanted
<1>d. UNCHANGED server => Announced' = Announced
    BY DEF Announced
<1> USE <1>a, <1>b, <1>c, <1>d
<1>3. CASE DinfoCreate
    BY <1>1, <1>2, <1>3
       DEF DinfoCreate, CreateFile, LoadFile, Exists, FreshContext, BlankHd, WayOK
<1>4. CASE FillMetadata
    BY <1>1, <1>2, <1>4 DEF FillMetadata, BlankHd, WayOK
<1>5. CASE SetupProxy
    BY <1>1, <1>2, <1>5
       DEF SetupProxy, NoConnection, StartDirectly, StartProbe, Fault, Ready, WayOK
<1>6. CASE Probe
    <2>1. CASE Answered
        <3>1. /\ split' = FALSE /\ pc' = "update" /\ UNCHANGED <<server, file, conn, done>>
              /\ type' = IF server = "chunked" THEN "chunked" ELSE "raw"
            <4>1. split' => server \in {"range", "unsized"}
                BY <2>1, Zenon DEF Answered
            <4>2. split' \in BOOLEAN
                BY DEF RequestInv, RequestTypeOK
            <4>3. split' = FALSE
                BY <1>2, <4>1, <4>2
            <4> QED
                BY <1>2, <1>6, <2>1, <4>3 DEF Probe, Answered
        <3>2. body' = 0
            <4>1. server # "page" /\ ~split'
                BY <1>2, <3>1
            <4> QED
                BY <2>1, <4>1 DEF Answered
        <3>3. InPlace'
            BY <3>1, <3>2 DEF InPlace, Positions
        <3> QED
            BY <1>2, <1>6, <3>1, <3>2, <3>3 DEF WayOK, Probe
    <2>2. CASE ~Answered
        <3>1. /\ pc' \in {"destroy", "probe"} /\ UNCHANGED <<server, file, conn, done>>
              /\ hd' = hd \/ hd'.status = "DROP"
            BY <1>6, <2>2
               DEF Probe, NoAnswer, Redirected, UrlInfoCopy, Refused, Answered
        <3>2. hd'.status # "FINISHED"
            BY <1>2, <1>6, <3>1 DEF WayOK, Probe
        <3> QED
            BY <1>2, <1>6, <3>1, <3>2 DEF WayOK, Probe
    <2> QED
        BY <2>1, <2>2
<1>7. CASE UpdateMetadata
    <2>1. /\ pc = "update" /\ pc' = "dump"
          /\ UNCHANGED <<server, file, done, split, type, conn, body, faults>>
        BY <1>7 DEF UpdateMetadata
    <2>2. hd'.size = Announced
        BY <1>2, <1>7 DEF UpdateMetadata, Announced
    <2> QED
        BY <1>2, <2>1, <2>2 DEF WayOK
<1>8. CASE BeginDump
    BY <1>1, <1>2, <1>8 DEF BeginDump, WayOK
<1>9. CASE EndDump
    BY <1>1, <1>2, <1>9 DEF EndDump, WayOK
<1>10. CASE Restart
    BY <1>1, <1>2, <1>10 DEF Restart, WayOK
<1>11. CASE AskChunks
    BY <1>1, <1>2, <1>11 DEF AskChunks, WayOK
<1>12. CASE EndPerform
    BY <1>1, <1>2, <1>12 DEF EndPerform, WayOK
<1>13. CASE Judge
    <2>1. /\ pc = "judge" /\ pc' \in {"restart", "destroy"} /\ UNCHANGED conn
          /\ UNCHANGED <<server, file, done, split, type, body, faults, stop>>
        BY <1>13 DEF Judge
    <2>2. CASE pc' = "restart"
        <3>1. err # "OK" /\ ~stop /\ hd' = hd
            BY <1>13, <2>2 DEF Judge
        <3> QED
            BY <1>1, <1>2, <2>1, <2>2, <3>1 DEF WayOK
    <2>3. CASE pc' = "destroy" /\ err = "OK"
        <3>1. Complete
            BY <1>2, <2>1, <2>3 DEF Complete, InPlace, Positions
        <3> QED
            BY <1>2, <2>1, <2>3, <3>1 DEF WayOK
    <2>4. CASE pc' = "destroy" /\ err # "OK"
        <3>1. hd'.status = "PAUSED"
            BY <1>13, <2>4 DEF Judge
        <3> QED
            BY <1>2, <2>1, <2>4, <3>1 DEF WayOK
    <2> QED
        BY <2>1, <2>2, <2>3, <2>4
<1>14. CASE SingleStart
    <2>1. /\ pc = "single" /\ pc' \in {"receive", "died"} /\ need' = Announced
          /\ UNCHANGED <<server, hd, file, done, split, type, conn, body, faults>>
        BY <1>2, <1>14 DEF SingleStart
    <2>2. server = "length" => need' + body' = FileSize \/ (need' = FileSize /\ conn' # "up")
        BY <1>2, <2>1 DEF Announced
    <2> QED
        BY <1>2, <2>1, <2>2 DEF WayOK
<1>15. CASE SingleRead
    <2>1. /\ pc = "receive" /\ pc' = pc /\ conn = "up" /\ body < FileSize
          /\ UNCHANGED <<server, hd, done, split, type, conn, faults>>
          /\ file' = [file EXCEPT ![body] = body] /\ body' = body + 1
        BY <1>15 DEF SingleRead, SafeWrite
    <2>2. InPlace'
        <3>1. split' = FALSE /\ type' = IF server' = "chunked" THEN "chunked" ELSE "raw"
            BY <1>2, <2>1 DEF InPlace
        <3>2. file \in [Positions -> Positions \cup {Hole}] /\ Positions = 0..(FileSize - 1)
            BY SingleTypes
        <3>3. body \in Positions /\ \A p \in Positions : p < body => file[p] = p
            BY <1>2, <2>1, <3>2 DEF InPlace
        <3>4. \A p \in Positions : p < body' => file'[p] = p
            BY <2>1, <3>2, <3>3
        <3> QED
            BY <2>1, <3>1, <3>4 DEF InPlace
    <2>3. server = "length" => need' + body' = FileSize
        <3>1. SUFFICES ASSUME server = "length" PROVE need' + body' = FileSize
            OBVIOUS
        <3>2. need + body = FileSize /\ Limited
            BY <1>2, <2>1, <3>1 DEF Limited, InPlace, Announced
        <3>3. need > 0 /\ need' = need - 1
            BY <1>15, <3>2 DEF SingleRead
        <3> QED
            BY <2>1, <3>2, <3>3
    <2> QED
        BY <1>2, <2>1, <2>2, <2>3 DEF WayOK
<1>16. CASE SingleEnd
    <2>1. /\ pc = "receive" /\ pc' = "judge" /\ err' = SingleResult
          /\ UNCHANGED <<server, file, done, split, type, body, faults, stop>>
          /\ conn' \in {conn, "freed"}
          /\ err' # "OK" => hd' = hd
        BY <1>16 DEF SingleEnd
    <2>2. /\ type = IF server = "chunked" THEN "chunked" ELSE "raw"
          /\ hd.size = IF server = "length" THEN FileSize ELSE 0
          /\ eintr => faults > 0
          /\ faults = 0 => conn = "up" \/ (server = "plain" /\ body = FileSize)
        BY <1>1, <1>2, <2>1 DEF WayOK, InPlace, Announced
    <2>3. SingleResult # "none"
        BY <1>16 DEF SingleEnd
    <2>4. ASSUME err' = "OK" PROVE body = FileSize
        <3>1. CASE server = "length"
            <4>1. need = 0
                BY <2>1, <2>2, <2>4, <3>1 DEF SingleResult, Limited
            <4> QED
                BY <1>2, <2>1, <3>1, <4>1
        <3>2. CASE server # "length" /\ faults = 0
            BY <1>1, <1>2, <2>1, <2>2, <2>4, <3>2 DEF SingleResult, Limited, WayOK
        <3> QED
            BY <1>1, <3>1, <3>2 DEF Undisturbed
    <2>5. ASSUME err' # "OK"
          PROVE  /\ err' \notin DoNotRetry /\ faults > 0
                 /\ ~stop => conn' # "up"
        <3>1. CASE server = "length"
            <4>1. /\ SingleResult = "CONN" /\ (conn \in {"closed", "reset"} \/ eintr)
                BY <2>1, <2>2, <2>3, <2>5, <3>1 DEF SingleResult, Limited
            <4>2. faults > 0
                BY <1>1, <2>2, <3>1, <4>1
            <4>3. ~stop => conn' # "up"
                BY <1>2, <2>1, <4>1 DEF WayOK
            <4> QED
                BY <2>1, <4>1, <4>2, <4>3 DEF DoNotRetry
        <3>2. CASE server # "length" /\ faults = 0
            <4>1. ~eintr /\ conn \in {"up", "closed"} /\ server \in {"chunked", "plain"}
                BY <1>1, <1>2, <2>1, <2>2, <3>2
            <4>2. SingleResult \in {"OK", "none"}
                BY <2>2, <4>1 DEF SingleResult, Limited
            <4> QED
                BY <2>1, <2>3, <2>5, <4>2
        <3> QED
            BY <1>1, <3>1, <3>2 DEF Undisturbed
    <2> QED
        BY <1>2, <2>1, <2>4, <2>5 DEF WayOK
<1>17. CASE DinfoDestroy
    BY <1>1, <1>2, <1>17 DEF DinfoDestroy, RemoveFile, BlankHd, FreshContext, WayOK
<1>18. CASE Reap
    BY <1>1, <1>2, <1>18 DEF Reap, FreshContext, WayOK
<1>19. CASE StartRun
    BY <1>1, <1>2, <1>19 DEF StartRun, WayOK
<1>20. CASE ServerClose
    <2>1. /\ pc = "receive" /\ pc' = pc /\ conn = "up" /\ conn' = "closed"
          /\ body = Nothing \/ (server = "plain" /\ body = FileSize)
          /\ UNCHANGED <<server, hd, file, done, split, type, body, need, faults>>
        BY <1>20 DEF ServerClose
    <2>2. body # Nothing
        BY <1>2, <2>1, SingleTypes DEF InPlace
    <2> QED
        BY <1>2, <2>1, <2>2 DEF WayOK
<1>21. CASE ServerBreak
    BY <1>1, <1>2, <1>21 DEF ServerBreak, Fault, WayOK
<1>22. CASE Interrupt
    BY <1>1, <1>2, <1>22 DEF Interrupt, Fault, WayOK
<1>23. CASE Crash
    BY <1>1, <1>2, <1>23 DEF Crash, FreshContext, Fault, WayOK
<1>24. CASE UNCHANGED vars
    BY <1>2, <1>24 DEF vars, WayOK
<1>25. ASSUME NEW c \in 1..Nc, StoreBytes(c) \/ AdvanceCur(c) PROVE FALSE
    BY <1>2, <1>25 DEF StoreBytes, AdvanceCur, WayOK
<1> QED
    BY <1>3, <1>4, <1>5, <1>6, <1>7, <1>8, <1>9, <1>10, <1>11, <1>12, <1>13, <1>14,
       <1>15, <1>16, <1>17, <1>18, <1>19, <1>20, <1>21, <1>22, <1>23, <1>24, <1>25
       DEF Next, Step

\* The first run begins with an undisturbed download.
LEMMA SingleInitInv == Init => SingleInv /\ RefusedOK
<1> SUFFICES ASSUME Init PROVE SingleInv /\ RefusedOK
    OBVIOUS
<1>1. /\ pc = "idle" /\ runs = 0 /\ faults = 0 /\ tmd = "none" /\ done = FALSE
      /\ stop = FALSE /\ eintr = FALSE /\ hd.status = "INIT"
    BY DEF Init, BlankHd
<1>2. WayOK
    BY <1>1 DEF WayOK
<1>3. StreamOK
    BY <1>1 DEF StreamOK
<1>4. RefusedOK
    BY <1>1 DEF RefusedOK
<1> QED
    BY <1>2, <1>3, <1>4 DEF SingleInv

\* A server that refuses every probe is never taken for one that does not.
LEMMA RefusedStep ==
    ASSUME RequestInv, RefusedOK, [Next]_vars
    PROVE  RefusedOK'
<1> SUFFICES ASSUME server = "error" PROVE RefusedOK'
    BY ServerStays DEF RefusedOK
<1> USE DEF RefusedOK, disk, run, main, Goto
<1>a. /\ hd \in [status : Status, size : {0, MdSize, FileSize}, cur : Curs]
      /\ done \in BOOLEAN
    BY SingleTypes
<1>1. CASE DinfoCreate \/ FillMetadata
    BY <1>1 DEF DinfoCreate, CreateFile, LoadFile, FillMetadata, BlankHd
<1>2. CASE SetupProxy
    BY <1>2 DEF SetupProxy, NoConnection, StartDirectly, StartProbe, Ready
<1>3. CASE Probe
    BY <1>a, <1>3 DEF Probe, NoAnswer, Redirected, UrlInfoCopy, Refused
<1>4. CASE DinfoDestroy
    <2>1. done' = FALSE
        BY <1>a, <1>4 DEF DinfoDestroy
    <2> QED
        BY <1>4, <2>1 DEF DinfoDestroy, RemoveFile, BlankHd
<1>5. CASE StartRun \/ Reap \/ Interrupt \/ Crash \/ UNCHANGED vars
    BY <1>5 DEF StartRun, Reap, Interrupt, Crash, vars
<1> QED
    BY <1>1, <1>2, <1>3, <1>4, <1>5
       DEF Next, Step, UpdateMetadata, BeginDump, EndDump, Restart, AskChunks, EndPerform,
           Judge, StoreBytes, AdvanceCur, SingleStart, SingleRead, SingleEnd, ServerClose,
           ServerBreak

LEMMA SingleInvariance == Spec => [](SingleInv /\ RefusedOK)
<1>1. RequestInv /\ RequestInv' /\ SingleInv /\ RefusedOK /\ [Next]_vars
          => SingleInv' /\ RefusedOK'
    <2> SUFFICES ASSUME RequestInv, RequestInv', SingleInv, RefusedOK, [Next]_vars
                 PROVE  SingleInv' /\ RefusedOK'
        OBVIOUS
    <2>1. Undisturbed' => WayOK' /\ StreamOK'
        BY WayStep, StreamStep
    <2>2. RefusedOK'
        BY RefusedStep
    <2> QED
        BY <2>1, <2>2 DEF SingleInv
<1> QED
    BY <1>1, SingleInitInv, RequestInvariance, PTL DEF Spec

\* A download that nothing disturbs is complete when it is reported finished, in whatever
\* form the server sends it: the three loops of process_request_single_form stop only at
\* the end of the body, and over several connections all that the chunks cover is there.
THEOREM FaultlessRunsComplete == Spec => []FaultlessIsComplete
<1>1. RequestInv /\ SingleInv /\ RefusedOK => FaultlessIsComplete
    <2> SUFFICES ASSUME RequestInv, SingleInv, RefusedOK, done, faults = 0,
                        server \notin {"unsized", "page"}
                 PROVE  Complete
        BY DEF FaultlessIsComplete
    <2>1. server \in {"range", "length", "chunked", "plain", "error"}
        BY RequestAssumption DEF RequestInv, RequestTypeOK, Kinds
    <2>2. CASE server = "range"
        BY <2>2 DEF RequestInv, BytesOK, InRange
    <2>3. CASE server = "error"
        BY <2>3 DEF RefusedOK
    <2>4. CASE server \in {"length", "chunked", "plain"}
        BY <2>4 DEF SingleInv, Undisturbed, StreamOK
    <2> QED
        BY <2>1, <2>2, <2>3, <2>4
<1> QED
    BY <1>1, RequestInvariance, SingleInvariance, PTL

\* A download of a stated size that its first run reports finished is complete, whatever
\* connection broke and whenever the user pressed Ctrl-C: receive_limited_data counts
\* what is still to come, and the restart loop finds no connection to begin anew on.
THEOREM SizedRunsComplete == Spec => []SizedIsComplete
<1>1. SingleInv => SizedIsComplete
    BY DEF SingleInv, SizedIsComplete, Undisturbed, StreamOK
<1> QED
    BY <1>1, SingleInvariance, PTL
===============================================================================
