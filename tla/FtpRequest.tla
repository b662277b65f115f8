------------------------------ MODULE FtpRequest ------------------------------
(***************************************************************************)
(* A download over FTP from the first run of the program to the last:      *)
(* process_ftp_request (src/src/lib/protocols/ftp/ftp.c) with a thread for *)
(* each chunk that is not complete, the loop that joins them, and the      *)
(* transfer over the data connections that they have opened.  A thread's   *)
(* session is one step here; FtpControl takes it apart.  So is the writing *)
(* of the .tmd file and a store into the mapped file: HttpRequest does.    *)
(* The loop of connection_perform is reduced to what SelectLoop shows of a *)
(* group without write_data.  The chunks are those of chunk_split, which   *)
(* leaves the end of some files out (ChunkSplit).                          *)
(***************************************************************************)
EXTENDS Integers, FiniteSets

CONSTANTS
    Nc,         \* chunks of the download
    ChunkLen,   \* chunk_size, the positions of each of them but a shorter last one
    FileSize,   \* positions of the file
    Servers,    \* "rest": honours REST; "norest": refuses it, and sends from 0
    MaxRuns,    \* bound: runs of the program
    MaxFaults   \* bound: crashes, interrupts and broken or refused connections

\* None of the chunks of chunk_split is empty, and fewer positions than there are chunks
\* are left over.
ASSUME FtpAssumption ==
    /\ Nc \in Nat \ {0} /\ ChunkLen \in Nat \ {0} /\ FileSize \in Nat \ {0}
    /\ (Nc - 1) * ChunkLen < FileSize /\ FileSize < Nc * (ChunkLen + 1)
    /\ Servers \subseteq {"rest", "norest"}
    /\ MaxRuns \in Nat /\ MaxFaults \in Nat

MAX_RETRY_TIMES == 3
Chunks == 1..Nc
Positions == 0..(FileSize - 1)
Hole == FileSize
First(c) == (c - 1) * ChunkLen
Last(c) == IF c * ChunkLen < FileSize THEN c * ChunkLen ELSE FileSize

VARIABLES
    server,
    status,  \* of the .tmd: "none" (no file) | "INIT" | "STARTED" | "PAUSED" | "FINISHED"
    cur,     \* its cur_pos of each chunk, once there are chunks
    file,    \* for each position, the position of the body stored there, or Hole
    done,    \* the download was finished and its .tmd removed
    pc,      \* where the program is; "idle" between two runs
    thr,     \* thread of each chunk: "off" | "run" | "up" (data_conn set) | "down"
    n,       \* thread_number
    j,       \* the parameters that the join loop looks at next
    grp,     \* chunks whose data connection is in the group and not at its end
    armed,   \* those of them that are polled for writing, too
    stale,   \* a descriptor that was closed is still polled
    src,     \* position of the next byte on each data connection
    err, stop, tries, runs, faults,
    whole,   \* history: this run began with no chunk complete
    clean,   \* history: nothing has disturbed this run from outside
    lived    \* history: it has not died of itself

disk == <<status, cur, file, done>>
run == <<thr, n, j, grp, armed, stale, src, err>>
main == <<stop, tries, runs, whole, lived>>
vars == <<server, disk, pc, run, main, clean, faults>>

Fault == faults < MaxFaults /\ faults' = faults + 1 /\ clean' = FALSE
Goto(l) == pc' = l
Unfinished == {c \in Chunks : cur[c] < Last(c)}

\* dinfo_ready: a transfer had begun.
Ready == status \notin {"none", "INIT"}

NoThreads ==
    /\ thr' = [c \in Chunks |-> "off"] /\ n' = 0 /\ j' = 1
    /\ grp' = {} /\ armed' = {} /\ stale' = FALSE
    /\ src' = [c \in Chunks |-> FileSize] /\ err' = "OK"

\* The process ends by exit(), abort() or a null pointer, and its threads with it.
Die == NoThreads /\ Goto("died")

Init ==
    /\ server \in Servers
    /\ status = "none" /\ cur = [c \in Chunks |-> First(c)] /\ done = FALSE
    /\ file = [p \in Positions |-> Hole]
    /\ pc = "idle" /\ thr = [c \in Chunks |-> "off"] /\ n = 0 /\ j = 1
    /\ grp = {} /\ armed = {} /\ stale = FALSE
    /\ src = [c \in Chunks |-> FileSize] /\ err = "OK"
    /\ stop = FALSE /\ tries = 0 /\ runs = 0 /\ faults = 0
    /\ whole = TRUE /\ clean = TRUE /\ lived = TRUE

-------------------------------------------------------------------------------
(* main, and process_ftp_request up to its threads.                        *)

StartRun ==
    /\ pc = "idle" /\ ~done /\ runs < MaxRuns
    /\ runs' = runs + 1 /\ tries' = 1 /\ stop' = FALSE
    /\ clean' = TRUE /\ lived' = TRUE
    /\ whole' = (Unfinished = Chunks)
    /\ Goto("create")
    /\ UNCHANGED <<server, disk, run, faults>>

\* Mutant: a .tmd that is there is not read.
CreateAnew ==
    /\ pc = "create"
    /\ status' = "INIT" /\ Goto("probe")
    /\ UNCHANGED <<server, cur, file, done, run, main, clean, faults>>

\* dinfo_create: the .tmd that is there, or a new one.
DinfoCreate ==
    /\ pc = "create"
    /\ status' = IF status = "none" THEN "INIT" ELSE status
    /\ Goto(IF Ready THEN "start" ELSE "probe")
    /\ UNCHANGED <<server, cur, file, done, run, main, clean, faults>>

\* The control connection, get_remote_file_size_ftp, of which only the size counts,
\* and dinfo_update_metadata.
Probe ==
    /\ pc = "probe"
    /\ \/ /\ cur' = [c \in Chunks |-> First(c)] /\ Goto("start")
          /\ UNCHANGED <<err, clean, faults>>
       \/ /\ Fault /\ err' \in {"CONN", "RES"} /\ Goto("destroy") /\ UNCHANGED cur
    /\ UNCHANGED <<server, status, file, done, thr, n, j, grp, armed, stale, src, main>>

\* The label start: a thread for each chunk that is not complete.
StartThreads ==
    /\ pc = "start"
    /\ IF status = "FINISHED"
         THEN Goto("destroy") /\ UNCHANGED <<status, thr, n>>
         ELSE /\ status' = "STARTED"
              /\ thr' = [c \in Chunks |-> IF c \in Unfinished THEN "run" ELSE "off"]
              /\ n' = Cardinality(Unfinished)
              /\ Goto("join")
    /\ UNCHANGED <<server, cur, file, done, j, grp, armed, stale, src, err, main, clean,
                   faults>>

-------------------------------------------------------------------------------
(* The threads: get_data_connection and ftp_retr.                          *)

\* Mutant: what is already there of the chunk is not counted.
OffsetOfChunk(c) == (c - 1) * ChunkLen

\* What get_data_connection asks for with REST.
Offset(c) == (c - 1) * ChunkLen + cur[c] - First(c)

\* The session succeeds.  A server that refuses REST sends the file from its start.
ThreadOpens(c) ==
    /\ thr[c] = "run"
    /\ thr' = [thr EXCEPT ![c] = "up"]
    /\ src' = [src EXCEPT ![c] = IF server = "rest" THEN Offset(c) ELSE 0]
    /\ UNCHANGED <<server, disk, pc, n, j, grp, armed, stale, err, main, clean, faults>>

\* The session fails and there is no data connection; or RETR finds no file, and there
\* is one on which nothing comes.
ThreadFails(c) ==
    /\ thr[c] = "run" /\ Fault
    /\ thr' \in {[thr EXCEPT ![c] = "down"], [thr EXCEPT ![c] = "up"]}
    /\ UNCHANGED <<server, disk, pc, n, j, grp, armed, stale, src, err, main>>

\* abort(): SYST could not be written, or the server tells another size than it told the
\* probe.
ThreadAborts(c) ==
    /\ thr[c] = "run"
    /\ Die
    /\ UNCHANGED <<server, disk, main, clean, faults>>

-------------------------------------------------------------------------------
(* The transfer.                                                           *)

\* The join loop counts threads but walks over the parameters of all chunks: it waits
\* for the thread of chunk j, if there is one, and takes its data connection.
Join ==
    /\ pc = "join" /\ j <= n
    /\ thr[j] # "run"
    /\ grp' = IF thr[j] = "up" THEN grp \cup {j} ELSE grp
    /\ j' = j + 1
    /\ UNCHANGED <<server, disk, pc, thr, n, armed, stale, src, err, main, clean, faults>>

\* connection_perform is called with what the loop has put together.
Perform ==
    /\ pc = "join" /\ j > n
    /\ Goto("perform")
    /\ UNCHANGED <<server, disk, run, main, clean, faults>>

\* Connection c is read in a pass of the loop: the others that are not ready in it are
\* armed again for writing as well, as expt says.
Serve(c) ==
    /\ pc = "perform" /\ c \in grp \ armed
    /\ \E D \in SUBSET (grp \ {c}) : armed' = armed \cup D

\* Mutant: a chunk that is complete is read on.
ReadSockPast(c) ==
    /\ Serve(c)
    /\ cur[c] <= Last(c) /\ cur[c] < FileSize /\ src[c] < FileSize
    /\ file' = [file EXCEPT ![cur[c]] = src[c]]
    /\ cur' = [cur EXCEPT ![c] = @ + 1]
    /\ src' = [src EXCEPT ![c] = @ + 1]
    /\ UNCHANGED <<server, status, done, pc, thr, n, j, grp, stale, err, main, clean, faults>>

\* ftp_read_sock stores at cur_pos what comes, and never past the end of the chunk.
ReadSock(c) ==
    /\ Serve(c)
    /\ cur[c] < Last(c) /\ src[c] < FileSize
    /\ file' = [file EXCEPT ![cur[c]] = src[c]]
    /\ cur' = [cur EXCEPT ![c] = @ + 1]
    /\ src' = [src EXCEPT ![c] = @ + 1]
    /\ UNCHANGED <<server, status, done, pc, thr, n, j, grp, stale, err, main, clean, faults>>

\* Mutant: the last position of the chunk is not waited for.
ReadEndsEarly(c) ==
    /\ Serve(c)
    /\ cur[c] >= Last(c) - 1 \/ src[c] = FileSize
    /\ grp' = grp \ {c}
    /\ stale' = (stale \/ cur[c] < Last(c) - 1)
    /\ UNCHANGED <<server, disk, pc, thr, n, j, src, err, main, clean, faults>>

\* COF_FINISHED; or COF_CLOSED at the end of what the server sends, and the descriptor
\* is closed, but stays in the set that select() is given next.
ReadEnds(c) ==
    /\ Serve(c)
    /\ cur[c] = Last(c) \/ src[c] = FileSize
    /\ grp' = grp \ {c}
    /\ stale' = (stale \/ cur[c] < Last(c))
    /\ UNCHANGED <<server, disk, pc, thr, n, j, src, err, main, clean, faults>>

\* The server closes a data connection before its time.
ReadClosed(c) ==
    /\ Serve(c) /\ Fault
    /\ grp' = grp \ {c} /\ stale' = TRUE
    /\ UNCHANGED <<server, disk, pc, thr, n, j, src, err, main>>

\* Nothing comes for TIME_OUT seconds.  That pass clears the sets.
ReadSilent(c) ==
    /\ pc = "perform" /\ c \in grp /\ grp \cap armed = {} /\ ~stale /\ Fault
    /\ grp' = grp \ {c}
    /\ UNCHANGED <<server, disk, pc, thr, n, j, armed, stale, src, err, main>>

\* A connection is reset: COF_ABORT, on which the loop calls exit(1).
ReadAborts(c) ==
    /\ pc = "perform" /\ c \in grp \ armed /\ Fault
    /\ Die
    /\ UNCHANGED <<server, disk, main>>

\* A connection armed for writing can be written to: the loop calls write_data, which the
\* group does not have (ScanWriteNull of SelectLoop).
NullWrite(c) ==
    /\ pc = "perform" /\ c \in grp \cap armed
    /\ Die
    /\ UNCHANGED <<server, disk, main, clean, faults>>

\* Mutant: the chunks are counted, not the connections.
PerformCountsChunks ==
    /\ pc = "perform" /\ (Unfinished = {} \/ stop)
    /\ Goto("judge")
    /\ UNCHANGED <<server, disk, run, main, clean, faults>>

\* It returns when no connection is left to read, when the user stops it, or when select()
\* fails with EBADF, whatever connections are left.
PerformReturns ==
    /\ pc = "perform" /\ (grp = {} \/ stop \/ stale)
    /\ Goto("judge")
    /\ UNCHANGED <<server, disk, run, main, clean, faults>>

\* The verdict.  A transfer that failed leaves the status at RS_STARTED; whatever the
\* verdict is, the request returns ME_OK.
Judge ==
    /\ pc = "judge"
    /\ status' = CASE Unfinished = {} -> "FINISHED"
                   [] Unfinished # {} /\ stop -> "PAUSED"
                   [] OTHER -> status
    /\ Goto("destroy")
    /\ UNCHANGED <<server, cur, file, done, run, main, clean, faults>>

\* dinfo_destroy and the retry loop of main.  Threads that are still running end with
\* the process.
DinfoDestroy ==
    /\ pc = "destroy"
    /\ status' = IF status = "FINISHED" THEN "none" ELSE status
    /\ done' = (done \/ status = "FINISHED")
    /\ IF err = "CONN" /\ tries < MAX_RETRY_TIMES /\ ~stop
         THEN Goto("create") /\ tries' = tries + 1
         ELSE Goto("idle") /\ tries' = 0
    /\ NoThreads
    /\ UNCHANGED <<server, cur, file, stop, runs, whole, lived, clean, faults>>

Interrupt ==
    /\ pc \notin {"idle", "died"} /\ ~stop /\ Fault
    /\ stop' = TRUE
    /\ UNCHANGED <<server, disk, pc, run, tries, runs, whole, lived>>

\* The process is killed.
Crash ==
    /\ pc \notin {"idle", "died"} /\ Fault
    /\ Goto("idle") /\ tries' = 0
    /\ NoThreads
    /\ UNCHANGED <<server, disk, stop, runs, whole, lived>>

\* The program has died of itself and may be called again.
Reap ==
    /\ pc = "died"
    /\ Goto("idle") /\ tries' = 0 /\ lived' = FALSE
    /\ UNCHANGED <<server, disk, run, stop, runs, whole, clean, faults>>

Step ==
    \/ DinfoCreate \/ Probe \/ StartThreads
    \/ Join \/ Perform \/ PerformReturns \/ Judge \/ DinfoDestroy \/ Reap
    \/ \E c \in Chunks : ThreadOpens(c) \/ ReadSock(c) \/ ReadEnds(c) \/ NullWrite(c)

Next ==
    \/ Step \/ StartRun
    \/ \E c \in Chunks : ThreadFails(c) \/ ThreadAborts(c)
    \/ \E c \in Chunks : ReadClosed(c) \/ ReadSilent(c) \/ ReadAborts(c)
    \/ Interrupt \/ Crash

Spec == Init /\ [][Next]_vars

\* The program goes on, and the server answers, sends and closes (FtpControl).
FairSpec == Spec /\ WF_vars(Step)

-------------------------------------------------------------------------------
(* Properties.                                                             *)

\* The type invariant.
FtpTypeOK ==
    /\ server \in Servers
    /\ status \in {"none", "INIT", "STARTED", "PAUSED", "FINISHED"}
    /\ \A c \in Chunks : cur[c] \in First(c)..Last(c)
    /\ file \in [Positions -> Positions \cup {Hole}] /\ done \in BOOLEAN
    /\ thr \in [Chunks -> {"off", "run", "up", "down"}]
    /\ n \in 0..Nc /\ j \in 1..(Nc + 1)
    /\ grp \subseteq Chunks /\ armed \subseteq Chunks /\ stale \in BOOLEAN
    /\ src \in [Chunks -> 0..FileSize] /\ err \in {"OK", "CONN", "RES"}
    /\ stop \in BOOLEAN /\ tries \in 0..MAX_RETRY_TIMES
    /\ runs \in 0..MaxRuns /\ faults \in 0..MaxFaults

\* A run that begins with no chunk complete, against a server that honours REST, is
\* not disturbed from outside, and does not die of itself (a thread's abort(), the null
\* write_data), finishes the download: when it returns, no thread has been left out.
WholeRunCompletes ==
    pc = "idle" /\ runs > 0 /\ whole /\ clean /\ lived /\ server = "rest" => done

\* "Resume a previous download using stored metadata" (mget.c:108, -r): so does every
\* run, whatever chunks earlier ones completed.
ResumeCompletes ==
    pc = "idle" /\ runs > 0 /\ clean /\ lived /\ server = "rest" => done

\* What the chunks cover: the whole file, but for what chunk_split leaves over.
Covered == {p \in Positions : p < Nc * ChunkLen}

Claimed == {p \in Positions : \E c \in Chunks : Ready /\ p \in First(c)..(cur[c] - 1)}

D == INSTANCE Download WITH
         Positions <- Covered,
         got <- {p \in IF done THEN Covered ELSE Claimed :
                        server = "rest" /\ file[p] = p},
         done <- server = "rest" /\ done

\* With a server that honours REST, nothing fetched is ever forgotten or wrong, and only
\* a file with all its chunks is finished, over crashes, Ctrl-C and threads that fail.
\* What chunk_split leaves over is not promised: such a file is finished without its end.
FtpKeepsPromise == D!DownloadSpec

\* What is counted as received is right: the transfer goes on where the last run, or
\* the last connection, stopped (the offset of get_data_connection).
FtpReceivedIsRight ==
    server = "rest" =>
        \A c \in Chunks : \A p \in First(c)..(cur[c] - 1) : file[p] = p

\* Every run comes to its end, however few threads the join loop finds.
FtpRunEnds == pc # "idle" ~> pc = "idle"
===============================================================================
