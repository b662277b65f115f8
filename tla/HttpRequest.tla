----------------------------- MODULE HttpRequest ------------------------------
(***************************************************************************)
(* A download over HTTP from the command line to the last run of the       *)
(* program: main's retry loop (src/src/mget.c), start_request, dinfo_create*)
(* and dinfo_destroy with the .tmd file next to the download, and          *)
(* process_http_request with its probe, its restart loop, the              *)
(* multi-connection form and the single-connection form.                   *)
(*                                                                         *)
(* The .tmd file and the downloaded file are shared mappings: every store  *)
(* of the program survives the death of the process, which may come        *)
(* between any two steps.  The next run finds them as they were left.      *)
(* A connection of the multi form is reduced to what HttpPerform shows of  *)
(* it: bytes are stored at cur_pos, cur_pos follows, and it may end early. *)
(* The chunks are those of chunk_split (ChunkSplit), which leaves the end  *)
(* of some files out.                                                      *)
(***************************************************************************)
EXTENDS Integers, FiniteSets

CONSTANTS
    Nc,         \* chunks of a download over several connections
    ChunkLen,   \* chunk_size, the positions of each of them but a shorter last one
    FileSize,   \* positions of the file
    Servers,    \* the kinds of server there may be
    CacheSize,  \* connections that the cache of a host holds
    MaxRuns,    \* bound: runs of the program
    MaxFaults   \* bound: crashes, interrupts, broken or refused connections, redirections

\* What a server says in its answer to the probe: "unsized" honours ranges, but does not
\* tell the size of the file in a form that sscanf can read, and "page" answers 206 without
\* a range, or 3xx without a new location, with a body that is not the file.
Kinds == {"range", "unsized", "length", "chunked", "plain", "page", "error"}

\* The chunks of chunk_split: none is empty, and positions are left over only when the
\* even share is the least chunk size, less of them than there are chunks.
ASSUME RequestAssumption ==
    /\ Nc \in Nat \ {0} /\ ChunkLen \in Nat \ {0} /\ FileSize \in Nat \ {0}
    /\ (Nc - 1) * ChunkLen < FileSize /\ FileSize < Nc * (ChunkLen + 1)
    /\ Servers \subseteq Kinds
    /\ CacheSize \in Nat /\ MaxRuns \in Nat /\ MaxFaults \in Nat

MAX_RETRY_TIMES == 3
Positions == 0..(FileSize - 1)
Hole == FileSize
Nothing == FileSize + 1   \* the server sends no body
MdSize == 1               \* size of the .tmd file: only that it is not zero counts

VARIABLES
    server, \* the kind of the server
    tmd,    \* .tmd: "none" | "empty" (no byte) | "blank" | "torn" | "ready" (hash table there)
    hd,     \* its header and chunks: status, package_size, cur_pos of each chunk
    file,   \* for each position, the position of the body stored there, or Hole
    done,   \* the download was finished and its .tmd removed
    pc,     \* where the program is; "idle" between two runs
    split,  \* context.can_split
    type,   \* context.type
    conn,   \* context.conn: "none" | "up" | "closed" | "reset" | "freed"
    body,   \* next position of the body on context.conn, or Nothing
    need,   \* pending of receive_limited_data
    puts,   \* times context.conn was put into the cache
    src,    \* for each chunk being fetched, the position of the next byte, or Nothing
    fresh,  \* chunks of whose answer no byte has come
    late,   \* for each chunk being fetched, the stored bytes that cur_pos does not count
    err,    \* the mget_err of the current form
    stop,   \* control_byte
    eintr,  \* the read in progress was interrupted
    tries,  \* retry_time
    runs, faults

disk == <<tmd, hd, file, done>>
run == <<split, type, conn, body, need, puts, src, fresh, late, err, eintr>>
main == <<stop, tries, runs>>
vars == <<server, disk, pc, run, main, faults>>

Status == {"INIT", "STARTED", "PAUSED", "FINISHED", "DROP"}
TransferTypes == {"raw", "chunked"}
Errors == {"OK", "CONN", "GENERIC", "RES"}
DoNotRetry == {"RES"}   \* those above ME_DO_NOT_RETRY

Chunks == DOMAIN hd.cur
Lesser(a, b) == IF a < b THEN a ELSE b

\* chunk_size: a single chunk holds the whole file.
Share == IF Cardinality(Chunks) = Nc THEN ChunkLen ELSE FileSize
First(c) == (c - 1) * Share
Last(c) == Lesser(c * Share, FileSize)
Unfinished == {c \in Chunks : hd.cur[c] < Last(c)}
None == [x \in {} |-> 0]

\* A .tmd file as dinfo_create fills it: no size, no chunk, RS_INIT.
BlankHd == [status |-> "INIT", size |-> 0, cur |-> None]

Fault == faults < MaxFaults /\ faults' = faults + 1
Goto(l) == pc' = l

Init ==
    /\ server \in Servers
    /\ tmd = "none" /\ hd = BlankHd /\ done = FALSE
    /\ file = [p \in Positions |-> Hole]
    /\ pc = "idle"
    /\ split = FALSE /\ type = "raw" /\ conn = "none" /\ body = Nothing
    /\ need = 0 /\ puts = 0 /\ src = None /\ fresh = {} /\ late = None
    /\ err = "OK" /\ eintr = FALSE
    /\ stop = FALSE /\ tries = 0 /\ runs = 0 /\ faults = 0

-------------------------------------------------------------------------------
(* main, start_request and dinfo_create.                                   *)

\* main takes the url from the command line.
StartRun ==
    /\ pc = "idle" /\ ~done /\ runs < MaxRuns
    /\ runs' = runs + 1
    /\ stop' = FALSE /\ tries' = 1
    /\ Goto("create")
    /\ UNCHANGED <<server, disk, run, faults>>

\* What a new call of process_http_request starts with.
FreshContext ==
    /\ split' = FALSE /\ type' = "raw" /\ conn' = "none" /\ body' = Nothing
    /\ need' = 0 /\ puts' = 0 /\ src' = None /\ fresh' = {} /\ late' = None
    /\ err' = "OK" /\ eintr' = FALSE

\* Mutant: a .tmd that is there is not read.
CreateAlwaysFresh ==
    /\ pc = "create"
    /\ FreshContext
    /\ tmd' = "blank" /\ hd' = BlankHd /\ Goto("connect")
    /\ UNCHANGED <<server, file, done, main, faults>>

\* file_existp: there is a .tmd.
Exists == tmd # "none"

\* fhandle_create opens a new .tmd, which has no byte yet.
CreateFile == ~Exists /\ tmd' = "empty" /\ Goto("create2") /\ UNCHANGED hd

\* metadata_create_from_file.  A .tmd without a byte cannot be mapped, and one whose
\* table is half written has no url: the program dies of both.  One whose table was
\* never written does not load, and the download starts anew.
LoadFile ==
    \/ tmd \in {"empty", "torn"} /\ Goto("died") /\ UNCHANGED <<tmd, hd>>
    \/ tmd = "blank" /\ hd' = BlankHd /\ Goto("connect") /\ UNCHANGED tmd
    \/ tmd = "ready" /\ Goto("connect") /\ UNCHANGED <<tmd, hd>>

DinfoCreate ==
    /\ pc = "create"
    /\ FreshContext
    /\ CreateFile \/ LoadFile
    /\ UNCHANGED <<server, file, done, main, faults>>

\* fm_create has opened the new .tmd and gives it its length; it is then filled.
FillMetadata ==
    /\ pc = "create2"
    /\ tmd' = "blank" /\ hd' = BlankHd
    /\ Goto("connect")
    /\ UNCHANGED <<server, file, done, run, main, faults>>

-------------------------------------------------------------------------------
(* process_http_request: from its entry to the label start.                *)

\* dinfo_ready: the file was mapped by dinfo_create and a transfer had begun.
Ready == tmd = "ready" /\ hd.status # "INIT"

\* No connection: the only end of process_http_request that main may retry after.
NoConnection == Fault /\ err' = "CONN" /\ Goto("destroy") /\ UNCHANGED <<conn, split>>

\* A download with metadata needs no probe, and is taken to be splittable when its size
\* is known.
StartDirectly ==
    /\ Ready
    /\ conn' = "up" /\ split' = (hd.size # 0)
    /\ Goto("restart")
    /\ UNCHANGED <<err, faults>>

StartProbe == ~Ready /\ conn' = "up" /\ Goto("probe") /\ UNCHANGED <<split, err, faults>>

\* setup_proxy gets a connection.
SetupProxy ==
    /\ pc = "connect"
    /\ NoConnection \/ StartDirectly \/ StartProbe
    /\ UNCHANGED <<server, disk, type, body, need, puts, src, fresh, late, eintr, main>>

\* The answer to the probe does not come.
NoAnswer ==
    /\ Fault
    /\ err' = "RES" /\ Goto("destroy")
    /\ UNCHANGED <<split, type, hd, body>>

\* An error also drops the metadata.
Refused ==
    /\ hd' = [hd EXCEPT !.status = "DROP"]
    /\ err' = "RES" /\ Goto("destroy")
    /\ UNCHANGED <<split, type, body>>

\* url_info_copy frees the uri that context.uri goes on pointing to, so that the next
\* probe asks for whatever is there then: the new file (the old one is left out), or
\* nothing that the server has.
UrlInfoCopy == Refused \/ (Goto("probe") /\ UNCHANGED <<split, type, hd, body, err>>)

\* 301, 302, 303 or 307: the url is exchanged, and the connection for one to its host;
\* if there is none, the old one is asked again.  Nothing counts the redirections.
Redirected == Fault /\ UrlInfoCopy

\* A server that ignores the range begins to send the whole body on this connection.
Answered ==
    /\ split' = (server \in {"range", "unsized"})
    /\ type' = IF server = "chunked" THEN "chunked" ELSE "raw"
    /\ body' = IF split' \/ server = "page" THEN Nothing ELSE 0
    /\ Goto("update")
    /\ UNCHANGED <<hd, err, faults>>

\* get_remote_file_size asks for the first two bytes.
Probe ==
    /\ pc = "probe"
    /\ \/ NoAnswer
       \/ Redirected
       \/ server = "error" /\ Refused /\ UNCHANGED faults
       \/ server # "error" /\ Answered
    /\ UNCHANGED <<server, tmd, file, done, conn, need, puts, src, fresh, late, eintr,
                   main>>

\* nr_user: one connection for a file that cannot be split.
ChunkNumber == IF split THEN Nc ELSE 1

\* dinfo_update_metadata: the chunks of chunk_split, the size and their number.  The
\* chunks of a file without a size are empty, and written as none.
UpdateMetadata ==
    /\ pc = "update"
    /\ LET size == IF server \in {"range", "length"} THEN FileSize ELSE 0
           len == IF ChunkNumber = Nc THEN ChunkLen ELSE FileSize
           nc == IF size = 0 THEN 0 ELSE ChunkNumber
       IN  hd' = [hd EXCEPT !.size = size, !.cur = [c \in 1..nc |-> (c - 1) * len]]
    /\ Goto("dump")
    /\ UNCHANGED <<server, tmd, file, done, run, main, faults>>

\* The hash table is written into the .tmd, its version first ...
BeginDump ==
    /\ pc = "dump" /\ Goto("dump2")
    /\ tmd' = IF tmd = "blank" THEN "torn" ELSE tmd
    /\ UNCHANGED <<server, hd, file, done, run, main, faults>>

\* ... until its last entry; then the file of the download is mapped.
EndDump ==
    /\ pc = "dump2" /\ Goto("restart")
    /\ tmd' = "ready"
    /\ UNCHANGED <<server, hd, file, done, run, main, faults>>

-------------------------------------------------------------------------------
(* process_http_request: from restart to its end.                          *)

Restart ==
    /\ pc = "restart"
    /\ IF hd.status = "FINISHED"
         THEN err' = "OK" /\ Goto("destroy") /\ UNCHANGED hd
         ELSE /\ hd' = [hd EXCEPT !.status = "STARTED"]
              /\ Goto(IF split THEN "multi" ELSE "single")
              /\ UNCHANGED err
    /\ UNCHANGED <<server, tmd, file, done, split, type, conn, body, need, puts, src,
                   fresh, late, eintr, main, faults>>

\* process_request_multi_form, up to connection_perform: a connection and a request
\* for each chunk that is not complete.  A server without ranges sends all from 0.
AskChunks ==
    /\ pc = "multi"
    /\ \/ /\ Unfinished = {}
          /\ hd' = [hd EXCEPT !.status = "FINISHED"] /\ err' = "OK" /\ Goto("judge")
          /\ UNCHANGED <<src, fresh, late, faults>>
       \/ /\ Unfinished # {}
          /\ src' = [c \in Unfinished |-> IF server = "range" THEN hd.cur[c] ELSE 0]
          /\ fresh' = Unfinished /\ late' = [c \in Unfinished |-> 0]
          /\ Goto("perform") /\ UNCHANGED <<hd, err, faults>>
       \/ /\ Unfinished # {} /\ Fault
          /\ err' = "RES" /\ Goto("judge") /\ UNCHANGED <<hd, src, fresh, late>>
    /\ UNCHANGED <<server, tmd, file, done, split, type, conn, body, need, puts, eintr,
                   main>>

\* The bytes that may come at once.  get_response copies all that comes along with the
\* header, whatever the chunk has room for; the range asked for ends one position past the
\* chunk, and a server that ignores it sends the whole file.  Later reads ask for the rest.
Arriving(c) ==
    CASE c \notin fresh -> Last(c) - hd.cur[c]
      [] c \in fresh /\ server = "range" -> Lesser(Last(c) + 1, FileSize) - src[c]
      [] OTHER -> FileSize - src[c]

\* The file with the next n bytes of c at its cur_pos; past its end they go nowhere.
Stored(c, n) ==
    [p \in Positions |-> IF p - hd.cur[c] \in 0..(n - 1) THEN src[c] + (p - hd.cur[c])
                                                       ELSE file[p]]

\* Mutant: cur_pos is advanced while the bytes are not there yet.
StoreLate(c) ==
    /\ pc = "perform" /\ c \in DOMAIN src /\ late[c] = 0
    /\ hd.cur[c] < Last(c)
    /\ \E n \in 1..Arriving(c) :
           /\ hd' = [hd EXCEPT !.cur[c] = @ + n]
           /\ late' = [late EXCEPT ![c] = n]
    /\ fresh' = fresh \ {c}
    /\ UNCHANGED <<server, tmd, file, done, pc, split, type, conn, body, need, puts, src,
                   err, eintr, main, faults>>

\* Mutant: nothing ends the transfer of a chunk at its end.
StorePast(c) ==
    /\ pc = "perform" /\ c \in DOMAIN src /\ late[c] = 0 /\ src[c] < FileSize
    /\ file' = Stored(c, 1)
    /\ late' = [late EXCEPT ![c] = 1]
    /\ fresh' = fresh \ {c}
    /\ UNCHANGED <<server, tmd, hd, done, pc, split, type, conn, body, need, puts, src,
                   err, eintr, main, faults>>

\* http_read_sock stores what comes at cur_pos ...
StoreBytes(c) ==
    /\ pc = "perform" /\ c \in DOMAIN src /\ late[c] = 0
    /\ hd.cur[c] < Last(c)
    /\ \E n \in 1..Arriving(c) :
           /\ file' = Stored(c, n)
           /\ late' = [late EXCEPT ![c] = n]
    /\ fresh' = fresh \ {c}
    /\ UNCHANGED <<server, tmd, hd, done, pc, split, type, conn, body, need, puts, src,
                   err, eintr, main, faults>>

\* ... and then advances cur_pos.
AdvanceCur(c) ==
    /\ pc = "perform" /\ c \in DOMAIN src /\ late[c] > 0
    /\ hd' = [hd EXCEPT !.cur[c] = @ + late[c]]
    /\ src' = [src EXCEPT ![c] = @ + late[c]]
    /\ late' = [late EXCEPT ![c] = 0]
    /\ UNCHANGED <<server, tmd, file, done, pc, split, type, conn, body, need, puts, fresh,
                   err, eintr, main, faults>>

\* connection_perform returns when all is fetched, when the user stops it or when
\* connections fail.  process_request_multi_form then looks at every chunk.
EndPerform ==
    /\ pc = "perform" /\ \A c \in DOMAIN src : late[c] = 0
    /\ \/ (stop \/ Unfinished = {}) /\ UNCHANGED faults
       \/ Unfinished # {} /\ Fault
    /\ err' = IF Unfinished = {} THEN "OK" ELSE "GENERIC"
    /\ src' = None /\ fresh' = {} /\ late' = None
    /\ Goto("judge")
    /\ UNCHANGED <<server, disk, split, type, conn, body, need, puts, eintr, main>>

\* Mutant: the transfer is restarted although the user has stopped it.
JudgeStubborn ==
    /\ pc = "judge"
    /\ IF err # "OK"
         THEN Goto("restart") /\ UNCHANGED <<hd, err>>
         ELSE /\ hd' = [hd EXCEPT !.status = "FINISHED"]
              /\ Goto("destroy") /\ UNCHANGED err
    /\ UNCHANGED <<server, tmd, file, done, split, type, conn, body, need, puts, src,
                   fresh, late, eintr, main, faults>>

\* The verdict on a form: again, finished or paused.  Whatever it is, the request
\* returns ME_OK.
Judge ==
    /\ pc = "judge"
    /\ IF err \notin DoNotRetry \cup {"OK"} /\ ~stop
         THEN Goto("restart") /\ UNCHANGED <<hd, err>>
         ELSE /\ hd' = [hd EXCEPT !.status = IF err = "OK" THEN "FINISHED" ELSE "PAUSED"]
              /\ err' = "OK" /\ Goto("destroy")
    /\ UNCHANGED <<server, tmd, file, done, split, type, conn, body, need, puts, src,
                   fresh, late, eintr, main, faults>>

-------------------------------------------------------------------------------
(* process_request_single_form.  context.conn is never NULL here, so that  *)
(* no request is sent: what arrives is the rest of the probe's answer.     *)

\* receive_limited_data is for a known size; a freed connection ends the program.
SingleStart ==
    /\ pc = "single"
    /\ need' = hd.size
    /\ Goto(IF conn = "freed" THEN "died" ELSE "receive")
    /\ UNCHANGED <<server, disk, split, type, conn, body, puts, src, fresh, late, err, eintr,
                   main, faults>>

Limited == type = "raw" /\ hd.size # 0

\* safe_write, at the offset of the file, which moves along with what is written.
SafeWrite == file' = [file EXCEPT ![body] = body] /\ body' = body + 1

\* Mutant: the limit is not the size that was announced.
SingleReadShort ==
    /\ pc = "receive" /\ ~eintr /\ conn = "up" /\ body < FileSize
    /\ SafeWrite
    /\ need' = IF need > 1 THEN need - 2 ELSE 0
    /\ UNCHANGED <<server, tmd, hd, done, pc, split, type, conn, puts, src, fresh, late, err,
                   eintr, main, faults>>

\* What arrives is written.
SingleRead ==
    /\ pc = "receive" /\ ~eintr /\ conn = "up" /\ body < FileSize
    /\ Limited => need > 0
    /\ SafeWrite
    /\ need' = IF Limited THEN need - 1 ELSE need
    /\ UNCHANGED <<server, tmd, hd, done, pc, split, type, conn, puts, src, fresh, late, err,
                   eintr, main, faults>>

\* Mutant: the end of the connection is taken for the end of the body.
ResultClosedIsEnd ==
    IF body = FileSize \/ conn \in {"closed", "reset"} \/ eintr THEN "OK" ELSE "none"

\* How the three loops end.  The end of the connection and an interrupted read are
\* the same to them; get_chunk_data returns ME_CONN_ERR where -1 is expected.
SingleResult ==
    LET lost == conn = "closed" \/ eintr IN
    CASE type = "chunked" /\ (body = FileSize \/ lost \/ conn = "reset") -> "OK"
      [] Limited /\ need = 0 -> "OK"
      [] Limited /\ need > 0 /\ (lost \/ conn = "reset") -> "CONN"
      [] type = "raw" /\ hd.size = 0 /\ lost -> "OK"
      [] type = "raw" /\ hd.size = 0 /\ ~lost /\ conn = "reset" -> "RES"
      [] OTHER -> "none"

\* A finished transfer takes the size of the .tmd for its own.  The connection is
\* put into the cache, again if it was put there before, and freed if that is full.
SingleEnd ==
    /\ pc = "receive" /\ SingleResult # "none"
    /\ err' = SingleResult
    /\ hd' = IF SingleResult = "OK" THEN [hd EXCEPT !.size = MdSize] ELSE hd
    /\ puts' = IF puts < CacheSize THEN puts + 1 ELSE puts
    /\ conn' = IF puts < CacheSize THEN conn ELSE "freed"
    /\ eintr' = FALSE
    /\ Goto("judge")
    /\ UNCHANGED <<server, tmd, file, done, split, type, body, need, src, fresh, late, main,
                   faults>>

\* The server closes a connection that it has nothing more to send on ...
ServerClose ==
    /\ pc = "receive" /\ conn = "up"
    /\ body = Nothing \/ (server = "plain" /\ body = FileSize)
    /\ conn' = "closed"
    /\ UNCHANGED <<server, disk, pc, split, type, body, need, puts, src, fresh, late, err,
                   eintr, main, faults>>

\* ... or it breaks in the middle of the body.
ServerBreak ==
    /\ pc = "receive" /\ conn = "up" /\ body < FileSize /\ Fault
    /\ conn' \in {"closed", "reset"}
    /\ UNCHANGED <<server, disk, pc, split, type, body, need, puts, src, fresh, late, err,
                   eintr, main>>

-------------------------------------------------------------------------------
(* The end of a request and of a run.                                      *)

RemoveFile == tmd' = "none" /\ hd' = BlankHd

\* dinfo_destroy removes the .tmd of a download that is finished or was refused;
\* main tries again after an error below ME_DO_NOT_RETRY.
DinfoDestroy ==
    /\ pc = "destroy"
    /\ IF hd.status \in {"FINISHED", "DROP"} THEN RemoveFile ELSE UNCHANGED <<tmd, hd>>
    /\ done' = (done \/ hd.status = "FINISHED")
    /\ IF err \notin DoNotRetry \cup {"OK"} /\ tries < MAX_RETRY_TIMES /\ ~stop
         THEN Goto("create") /\ tries' = tries + 1
         ELSE Goto("idle") /\ tries' = 0
    /\ FreshContext
    /\ UNCHANGED <<server, file, stop, runs, faults>>

\* Ctrl-C, at any time; a read that was waiting is interrupted.
Interrupt ==
    /\ pc \notin {"idle", "died"} /\ ~stop /\ Fault
    /\ stop' = TRUE
    /\ eintr' \in {FALSE, pc = "receive"}
    /\ UNCHANGED <<server, disk, pc, split, type, conn, body, need, puts, src, fresh, late,
                   err, tries, runs>>

\* The process is killed, at any time, or exit(1) is called in a callback.
Crash ==
    /\ pc \notin {"idle", "died"} /\ Fault
    /\ Goto("idle") /\ tries' = 0
    /\ FreshContext
    /\ UNCHANGED <<server, disk, stop, runs>>

\* The program has died by its own fault and may be called again.
Reap ==
    /\ pc = "died"
    /\ Goto("idle") /\ tries' = 0
    /\ FreshContext
    /\ UNCHANGED <<server, disk, stop, runs, faults>>

Step ==
    \/ DinfoCreate \/ FillMetadata
    \/ SetupProxy \/ Probe \/ UpdateMetadata \/ BeginDump \/ EndDump
    \/ Restart \/ AskChunks \/ EndPerform \/ Judge
    \/ \E c \in 1..Nc : StoreBytes(c) \/ AdvanceCur(c)
    \/ SingleStart \/ SingleRead \/ SingleEnd
    \/ DinfoDestroy \/ Reap

Next == Step \/ StartRun \/ ServerClose \/ ServerBreak \/ Interrupt \/ Crash

Spec == Init /\ [][Next]_vars

\* The program goes on while it can, and the server closes idle connections.
FairSpec == Spec /\ WF_vars(Step) /\ WF_vars(ServerClose)

-------------------------------------------------------------------------------
(* Properties.                                                             *)

\* How far cur_pos may be past the end of a chunk: by the one position that is asked for
\* too much, or by the file that a server without ranges sends (http_read_sock).
Overrun == IF server = "range" THEN 1 ELSE FileSize

\* The type invariant.
RequestTypeOK ==
    /\ server \in Servers
    /\ tmd \in {"none", "empty", "blank", "torn", "ready"}
    /\ hd.status \in Status /\ hd.size \in {0, MdSize, FileSize}
    /\ Chunks \subseteq 1..Nc
    /\ \A c \in Chunks : hd.cur[c] \in First(c)..(Last(c) + Overrun)
    /\ file \in [Positions -> Positions \cup {Hole}]
    /\ done \in BOOLEAN /\ split \in BOOLEAN /\ stop \in BOOLEAN /\ eintr \in BOOLEAN
    /\ type \in TransferTypes
    /\ conn \in {"none", "up", "closed", "reset", "freed"}
    /\ body \in Positions \cup {FileSize, Nothing}
    /\ need \in 0..FileSize /\ puts \in 0..CacheSize
    /\ DOMAIN src \subseteq Chunks /\ fresh \subseteq DOMAIN src
    /\ late \in [DOMAIN src -> 0..FileSize]
    /\ err \in Errors
    /\ tries \in 0..MAX_RETRY_TIMES /\ runs \in 0..MaxRuns /\ faults \in 0..MaxFaults

\* What the chunks of a download in the multi form cover, which is the whole file but for
\* the positions that chunk_split leaves over.
Covered == {p \in Positions : p < Nc * ChunkLen}

\* What a download fetches: what the chunks cover, or the file over a single connection.
Wanted == IF server = "range" THEN Covered ELSE Positions

Complete == \A p \in Wanted : file[p] = p

\* The positions that the .tmd says are there.
Claimed ==
    IF Ready THEN {p \in Positions : \E c \in Chunks : p \in First(c)..(hd.cur[c] - 1)}
             ELSE {}

\* With a server that honours ranges, each position that the .tmd claims holds its
\* byte, whenever the process dies: memcpy comes before cur_pos (http_read_sock).
ClaimedIsStored == server = "range" => \A p \in Claimed : file[p] = p

\* A download that nothing disturbs has all that it wants when it is reported finished,
\* for every server that tells what it sends (the three loops of the single form): the
\* whole file, or what its chunks cover.  From the others nothing of it is fetched.
FaultlessIsComplete == done /\ faults = 0 /\ server \notin {"unsized", "page"} => Complete

\* A download of a stated size that its first run reports finished is complete,
\* whatever broke on the way (receive_limited_data).
SizedIsComplete == done /\ server = "length" /\ runs = 1 => Complete

D == INSTANCE Download WITH
         Positions <- Covered,
         got <- {p \in IF done THEN Covered ELSE Claimed \cap Covered :
                        server = "range" /\ file[p] = p},
         done <- server = "range" /\ done

\* With a server that honours ranges, nothing fetched is ever forgotten and only a file
\* with all its chunks is finished, over crashes, Ctrl-C and broken connections
\* (process_http_request, dinfo_create, dinfo_destroy).  What chunk_split leaves over is
\* not promised: such a file is finished without its end.
KeepsPromise == D!DownloadSpec

\* Against such a server every run comes to its end once connections stop breaking
\* (the restart loop of process_http_request).
RunEnds == (server = "range" /\ pc # "idle") ~> pc = "idle"
===============================================================================
