# mget in TLA+

mget downloads one file over several connections.  It splits the file into
chunks, gives every chunk a connection, drives the connections from one
`select()` loop (and from threads, for FTP control connections), stores what it
receives in memory-mapped files, and can be interrupted and resumed.  This
directory holds a TLA+ model of that program, the TLC configurations that check
it on small instances, and theorems about it checked by TLAPS.

Paths below are relative to `src/src/lib/` unless they start with `src/`.

## 1. The system

| Component | State it keeps | Operations | Hard behaviour |
|---|---|---|---|
| Connection group, select loop (`connection.c:470-517, 770-932`) | three descriptor sets, `cnt`, and per connection `sock`, `active`, `expt`, `last_access` | `connection_group_create`, `connection_add_to_group`, `connection_perform` | any order of readiness, silence, failure and Ctrl-C; sets that `select()` overwrites; a count decremented in three places |
| HTTP multi-connection transfer (`protocols/http/http.c:128-237, 976-1047`) | `cur_pos` and `end_pos` of each chunk, `header_finished`, the mapped file | `http_read_sock`, `http_write_sock`, `process_request_multi_form` | callbacks that block inside the loop; body bytes that come with the header; resumed chunks; broken connections |
| Chunk splitting (`metadata.c:150-190`) | the array of chunks | `chunk_split` | rounding at the least chunk size |
| HTTP request life cycle (`protocols/http/http.c:239-404, 599-708`) | `can_split`, `md->hd.status`, `context.conn` | probe, redirections, restart loop, final status | retries that reuse a dead connection; resuming without probing |
| HTTP single-connection transfer (`protocols/http/http.c:757-974`) | position, what is still to be received | `receive_limited_data`, `receive_unlimited_data`, `receive_chunked_data` | short reads, interrupted reads, partial answers |
| Download information (`download_info.c`, `fileutils.c`) | the `.tmd` file: header, chunks, name, URL | `dinfo_create`, `dinfo_update_metadata`, `dinfo_destroy` | a crash between two writes, resume |
| Connection cache (`connection.c:209-467, 741-768`) | a list of idle connections for each host | `connection_get`, `connection_put`, `connection_group_destroy` | reuse of ended connections, the bound of the list, one link field for two lists |
| Shared address cache (`connection.c:100-207, 340-365`) | a table in shared memory and its `busy` flag | look-up, update, dump, load | several processes test and set `busy` without atomicity |
| Hash table, byte queue (`data_utlis.c`) | slots, chain of bytes | insert, update, get, dump, reload | probing past the end, eviction |
| FTP request (`protocols/ftp/ftp.c`) | one control connection and thread per chunk, one data connection per chunk | `process_ftp_request`, `ftp_download_thread` | threads that fail or are not started leave holes in the array the join loop walks |
| FTP control protocol (`protocols/ftp/wftp-basic.c`, `ftp.c:90-524`) | a reply buffer, what each command gave | login, SYST, PWD, TYPE, SIZE, REST, PASV, RETR | replies of several lines that TCP cuts anywhere |
| Command line and retry loop (`src/src/mget.c`, `libmget.c`) | `control_byte`, the retry count | `main`, the signal handler, `start_request` | Ctrl-C between two attempts |
| Secure sockets (`plugin/ssl/openssl/`) | a byte queue of decrypted data | handshake, `secure_socket_read`, `secure_socket_write` | bytes that `select()` does not see |

How they interact: `main` calls `start_request` up to three times; that hands the
request to the handler of its protocol; the handler opens the download
information (resuming from a `.tmd` file if there is one), asks the server for
the size, splits, obtains a connection for every chunk from the connection
cache (which asks the shared address cache for the address), adds them to a
group and calls `connection_perform`.  From there on everything happens in
callbacks of the select loop, which write into the mapped file and the mapped
metadata.  The signal handler shares one flag with all of this.

What makes each part correct:

- *Select loop.*  Its count is exact; it never waits for a connection it does
  not poll; a request that was sent is not polled for again; Ctrl-C ends it.
- *HTTP transfer.*  What counts as received is right, byte for byte; a
  connection that is kept has its whole chunk; the call ends.
- *Chunk splitting.*  The chunks follow one another without overlap or gap, and
  are the package, unless the even share is exactly the least chunk size: then
  the remainder of the division is left over.
- *Life cycle, download information.*  What the `.tmd` claims is stored whenever
  the process dies; nothing fetched is forgotten; a download reported finished
  has all its chunks (what `chunk_split` leaves over is never fetched, and the
  file is reported finished without it); runs end.
- *Caches, table.*  A connection is in one list, a descriptor in one connection,
  an entry in one slot; what is loaded is what was dumped, and a host is connected
  to at its own address, if nobody else was dumping.  (If somebody was, it may not
  be: section 4.)
- *FTP.*  Replies answer the command they are taken for; every thread that a
  whole download needs is joined, so that a run that neither is disturbed nor dies
  of itself finishes it; runs end.
- *Secure sockets.*  The caller gets the stream in order; nothing waits where
  `select()` does not see it, while what is left of a chunk fits into the length
  of a read.

## 2. The plan

Done, in the order of importance to what the program promises:

1. `SelectLoop`: the loop, with callbacks that may return anything.
2. `HttpPerform`: the loop with the HTTP callbacks, the network and the server;
   an implementation of `SelectLoop`.
3. `ChunkSplit`: splitting.
4. `Download`: what mget promises of a download, in four lines of behaviour.
   `HttpRequest` and `FtpRequest` are shown to implement it.
5. `HttpRequest`: runs of the program with probe, redirections, `.tmd` file, both
   forms, restart, retry, Ctrl-C and crashes.
6. `FtpRequest` and `FtpControl`: the same for FTP, and one control session.
7. `ConnCache`: the connections of a host between cache, groups and requests.
8. `HashTable`, `AddrCache`: the table, and several processes that share one.
9. `SecureRead`: the byte queue between `SSL_read` and the callers.

Left:

- two hosts in `ConnCache`, whose caches meet only in the address cache, and FTP's
  threads on one cache without a lock, which is a data race on every field of it;
- the chunk headers of the chunked coding, of which `HttpRequest` has the end only;
- the algorithms on strings (`parse_url`, `get_suggested_name`).

## 3. The modules

### SelectLoop

`do_perform_select`, one action per branch:

| Action | Code |
|---|---|
| `StopAtTop`, `SelectFails` | `connection.c:820-827` |
| `SelectTimeout` | `828-843`, the pass made when `select()` returns 0 |
| `SelectReady` | `820-846`, `select()` overwrites the sets and a pass begins |
| `ScanSkip` | `849-851`, an inactive connection |
| `ScanWrite`, `ScanWriteNull` | `852-869`, `write_data` |
| `ScanRead` | `870-901`, `recv_data` |
| `ScanExcept` | `902-905` |
| `ScanRearm` | `906-912` |
| `ScanEnd` | `913-931` |
| `Interrupt` | `src/src/mget.c:43-46` |

`rfds`, `wfds` and `efds` are the sets of connections whose descriptor has its
bit set.  The loop opens no descriptor, so a bit belongs to the same connection
throughout; `select()` fails with EBADF when a bit names a connection that was
closed (`Polled \subseteq open` is false).  `idle` is the time since
`last_access` of a connection the loop waits for, cut off one past `TIME_OUT`.  The callbacks return any code the
loop distinguishes.  `GroupWrites` says which kind of group it is: `cg_all` with
a `write_data` (HTTP), or `cg_read` without one (the FTP data connections).

Left out: logging, and the loop at the start over connections with `has_more`:
every transfer makes a new queue before it (`Handshake` and `Again` of
`SecureRead`), so that it never finds anything.

### HttpPerform

Extends `SelectLoop` and replaces "the callback returns anything" by
`http_write_sock` and `http_read_sock`.  The two reads of `http_read_sock`
(header, then body) are separate actions, because `tcp_connection_read` blocks
in each; the pass over the list stands still in between, as it does in the code.

| Action | Code |
|---|---|
| `HttpSelect`, `HttpLoop` | the loop, with readiness taken from the sockets |
| `HttpWrite` | `http.c:219-237` |
| `HeadPart`, `HeadLost` | `get_response` `http.c:548-595` and its failure `141-145` |
| `HeadAccepted` | `147-184`, the header is complete; body bytes in the same buffer are copied |
| `HeadRefused` | `153-167` |
| `BodyRead`, `BodyEnd`, `BodyFails` | `186-216` |
| `HttpInterrupt` | Ctrl-C, which also ends a blocked read (`connection.c:629-634`) |
| `Connect`, `Drop`, `Reply`, `ReplyHead`, `ReplyBody`, `HangUp` | the network and the server |

A byte is the position it has in the file, so `file[p] = p` says that the right
byte is stored at `p`.  A header has two parts.  `HeadRoom` is how many body
bytes can come in the buffer that holds the end of the header.  `Reply` gives a
range one byte more than the chunk needs unless the file ends there, which is
what the request asks for (`http.c:227-232` passes the exclusive `end_pos`,
`470` prints it as the inclusive end).  `Answers` and `Drops` choose what the
server and the network may do.

Abstractions: plain sockets (`SecureRead` has the others); the length of a read is
not cut to 32 bits, which on a plain socket only makes a read shorter; a connection that
breaks while the header is read is closed whether it ended or was reset, as in
the code; no exceptional condition arises on a TCP socket without urgent data;
after the process ends nothing moves.

### ChunkSplit

`chunk_split` as a loop of `SplitChunk` steps over a package of any size and any
number of chunks asked for.  `RoundUp` is the rounding of `metadata.c:165-166`
(the `log2` expression) to the next larger power of two, stated by what it does.

### Download

The abstract specification: `got`, the positions stored for good, only grows;
`done` comes once, when `got` is all of `Positions`, and nothing changes
afterwards.  `HttpRequest` and `FtpRequest` instantiate it with the positions that
their chunks cover.

### HttpRequest

One download over several runs of the program.

| Action | Code |
|---|---|
| `StartRun`, `DinfoDestroy` | `main` `src/src/mget.c:134-314`, `start_request` `libmget.c`, `dinfo_destroy` |
| `DinfoCreate`, `FillMetadata` | `dinfo_create` and `metadata_create_from_file`: a new `.tmd`, or the one that is there |
| `SetupProxy`, `Probe` | `setup_proxy` `http.c:1079-1133`, `get_remote_file_size` `599-708` with its redirections |
| `UpdateMetadata`, `BeginDump`, `EndDump` | `dinfo_update_metadata`, with the writing of the table in two steps |
| `Restart`, `Judge` | the label `restart` and what follows the forms, `http.c:337-404` |
| `AskChunks`, `StoreBytes`, `AdvanceCur`, `EndPerform` | `process_request_multi_form`; `memcpy` and `cur_pos` apart |
| `SingleStart`, `SingleRead`, `SingleEnd` | `process_request_single_form` and its three loops |
| `Interrupt`, `Crash`, `Reap` | Ctrl-C, a kill at any point, death by the program's own fault |
| `ServerClose`, `ServerBreak` | the other end |

The `.tmd` and the download are shared mappings, so each store survives the
process: the variables `tmd`, `hd`, `file` and `done` are the disk, everything
else is reset by `FreshContext`.  A `.tmd` is "none", "empty" (created, without a
byte), "blank" (its length, no table), "torn" (half of its table) or "ready".
The kinds of server are those that the probe tells apart; "unsized" answers 206
without a size that `sscanf` can read, "page" with a body that is not the file.  A
connection of the multi form is reduced to what `HttpPerform` shows of it: bytes
are stored at `cur_pos`, `cur_pos` follows, and it may end early.  All that comes
along with the header is copied (`Arriving`), so that `cur_pos` may pass the end of
its chunk: by one with a server that honours ranges (`Overrun`).

The chunks are those of `chunk_split`: `Nc` of `ChunkLen` positions, the last one
possibly shorter, and `FileSize` may exceed what they cover by less than `Nc`
positions, the remainder that `metadata.c:162` loses when the even share is the
least chunk size.  `Covered` is what the chunks cover.

### FtpRequest, FtpControl

`FtpRequest` is `process_ftp_request`: `StartThreads`, `ThreadOpens` and
`ThreadFails` (`ftp_download_thread`), `Join` (the loop of `ftp.c:654-664`, which
counts threads and indexes chunks), `Perform`, `ReadSock`, `ReadEnds`,
`ReadClosed`, `ReadSilent`, `PerformReturns`, `Judge`.  The writing of the `.tmd`
is one step here, because `HttpRequest` has it in full.  Chunks and `FileSize` are
as there; `ftp_read_sock` does not pass the end of a chunk.

The program also dies of itself, and the model keeps this apart from what comes
from outside (`Crash`, `Interrupt`, and the failures counted by `Fault`):
`ThreadAborts` is the `abort()` of a thread, `ReadAborts` the `exit(1)` of the loop
on `COF_ABORT` (`connection.c:890-894`), and `NullWrite` the call of the `write_data`
that the group does not have.  The last needs no failure at all: while one
connection is served, another that is not ready is polled for writing again
(`Serve` puts it into `armed`, `connection.c:906-912`), and the next pass calls
the null pointer (`852-854`).  `stale` is a closed descriptor left in a set, with
which `select()` fails and the loop ends.  `lived` and `clean` are history: the run
has not died of itself, and nothing disturbed it from outside.

`FtpControl` is the session that a thread, or the probe, leads on its control
connection.  A reply has lines, a line two parts, and TCP hands over any prefix
of what is under way.  `ReadMore` is `fd_read_line`, `SkipLine` and `TakeReply`
are `ftp_response`; `Uerr` is what the commands of `wftp-basic.c` return for a
reply, `After` what the switches of `ftp.c` make of it, with `abort()` where a
switch has no case.  `accepted` is history: the commands that the server accepted
(`Accepts`: 2xx, for REST 3xx, for RETR 1xx; 3xx to USER lets nobody in), in order.

### ConnCache

One host.  Cache and group are lists through the same field `next`; memory is a
set `live`, so that the use of a freed connection can be seen (`Dies`).
`Reuse`, `Make`, `GetFails` are the branches of `connection_get`; `Put` is
`connection_put`; `GroupDestroy` a turn of `connection_group_destroy`; `Finished`
and `CloseConnection` what the loop does to a connection; `SetupProxy`,
`FillGroup`, `SingleForm` the callers.  `Cleanup` is `connection_cleanup`, which also
destroys the address table and dies there if an entry was freed before.

### HashTable, AddrCache

`HashTable` is the table as operators on a value: `Insert`, `Update`, `EntryGet`.
A key is probed for from its hash to the last slot.  `AddrCache` gives every
process such a table and one region to load it from and dump it to.  An entry
takes two or three units of the region, one or two for its name and one for its
address, as `dump_hash_table` copies them apart, so that a dump can be overtaken
in the middle of an entry; `TestBusy` and `SetBusy` are two steps, as in
`connection.c:359-360`.  A loader takes what it finds: a whole name and the address
behind it, of whatever dump (`LoadEntry`); anything else is passed with the lengths
it seems to have, or reading goes astray (`LoadJunk`).  An update of a table that is full for the key frees a
key twice; the process ends there.  Two variables are history: `torn`, that the
region may hold anything but one whole table (dumps overlapped, a process was
killed in one, or what was dumped had itself been loaded while others wrote), and
`mixed`, the processes whose table was loaded from such a region.

### SecureRead

`secure_socket_read` of the OpenSSL plugin under `http_read_sock` ("multi"),
`receive_limited_data` ("limited") and the probe that brings a redirection
("probe").  A length is passed as `uint32` (`connection.h:54`) and tested as `int`
(`openssl.c:70`); `Half` stands for 2^31, so that `Asked` is what the conversion
makes of the rest of a chunk and `ReadRejected` what the test refuses.  The server cuts its answer into records;
`SslRead` gives one record, or as much of it as the caller has room for, and
`SslMore` takes the rest into the queue, whose block grows by `Enlarged`
(`bq_enlarge`).  Where the code writes behind the block the model ends as
"undefined".  `Again` is the use of a connection that is still connected for the
next request, with a second handshake on its socket: the one of a redirected probe
(`http.c:656`).  A connection that brought a chunk is not connected any more
(`connection.c:886`) and is given a new socket.

### Proof and TLC modules

`...Proofs` modules hold the theorems about the module they are named after
(`HttpPerformProofs` those about `SelectLoop` too, which it builds on), `MC...`
modules are what the configurations run.

## 4. The runs

| Run | What it shows | Bounds |
|---|---|---|
| `loop_http` | `LoopTypeOK`, `CntIsActive`, `ActiveIsWatched`, `WrittenIsNotPolled` of the loop with arbitrary callbacks | 3 connections: one that fails, one that finishes and one that waits |
| `loop_ftp` | in a read-only group a raised flag ends the loop (`InterruptIsObeyed`) | 2 connections |
| `http` | `HttpTypeOK`, `ReceivedIsRight`, `KeptIsComplete`, `WaitedIsIncomplete`; every transfer ends (`PerformEnds`) | 2 chunks of 2 bytes, fresh or resumed; a server that honours ranges, redirects or refuses; connections that end or are reset at any point; 2 body bytes with the header (882,779 states) |
| `split` | `SplitTypeOK`, `ChunksAreDisjoint`, `OnlyRemainderIsLost` | packages of up to 80 bytes, up to 9 chunks, least chunk 4 |
| `request` | `HttpRequest` implements `Download` (`KeepsPromise`); `ClaimedIsStored`; finished has all that was wanted (`FaultlessIsComplete`, `SizedIsComplete`); `RunEnds` | a file of 7 in 3 chunks of 2, the last position left over; all kinds of server, 4 runs, 3 faults (257,265 states) |
| `ftp` | `FtpRequest` implements `Download` (`FtpKeepsPromise`); `FtpReceivedIsRight`; `WholeRunCompletes`; `FtpRunEnds` | the same file and chunks, 3 runs, 3 faults (568,602 states) |
| `ftp_control` | `InStep`, `HandedOverInOrder`, `SessionEnds` | both sessions, replies of up to 2 lines, 2 faults (60,034 states) |
| `cache` | `ListsAreSound`, `NoSharedDescriptor`, `DiesOfKnownCauses` | 5 connections, 5 descriptors, a cache and groups of 2, 2 requests, 2 faults (668,840 states) |
| `table` | `TablesAreSound`, `AddressIsOfHost`, `LoadsWhatWasDumped` | 2 processes, 3 hosts that collide in 3 slots, 3 starts, 3 look-ups, 1 kill (2,090,232 states) |
| `secure` | `StreamInOrder`, `NothingIsHidden`, `SecureEnds` | pages of 2, headers of 2 or 3, records of up to 7, 2^31 reduced to 10: chunks of 1 to 22, on both sides of 10 and of 20; a body of 10 for the other callers (1,574,594 states) |

Two runs expect a violation.

`ftp_resume`: the join loop of `ftp.c:654` runs to the number of threads but
indexes the parameters of all chunks.  When the first chunk is complete, the last thread is neither joined nor its data connection
read; the run ends without an error and without the last chunk
(`ResumeCompletes`, from the help text of `-r` in `src/src/mget.c:108`).  A later
run can do no better as long as that chunk stays complete, while a run that
begins with no chunk complete, is not disturbed and does not die of itself
finishes (`WholeRunCompletes`, which is proved).

`table_mixed`: a process dumps over an older dump while another loads; a loader
does not look at `busy` (`connection.c:278-280`).  Between the copying of a name and
that of its address (`data_utlis.c:263-272`) the new name stands before an old
address.  The loader accepts it (`data_utlis.c:330-353`), because addresses have one
length, and connects that host to the address of another (`AddressIsAlwaysOfHost`),
where the comment at `connection.c:356-358` expects that at most an entry is missing.
Two processes that find the region not busy, set `busy` one after the other
(`connection.c:359-360`) and dump over each other, and one that is killed in its
dump, leave such entries too.

Why the bounds are enough: the loop distinguishes only whether a silence is
longer than `TIME_OUT`, so `TimeOut = 1` has both cases; connections interact
only through `cnt`, the sets and the failing `select()`, for which two suffice
and three leave a bystander; two bytes are the shortest chunk that can be
resumed in its middle; two chunks have a boundary, three an inner chunk and,
for the join loop, a hole with threads on both sides.  `HeadRoom = 2` lets a
whole chunk come with its header.  For `split` the least chunk of 4 gives shares
below, at and above it and three steps of rounding.  Four runs with three faults
allow a crash in the writing of the `.tmd`, one in the transfer, and an interrupt
or a connection that fails, in any order, before a run that succeeds.  In
`secure` a record is shorter than the room, equal to it, or longer by more than
a block of the queue, and a chunk is shorter than 2^31, between that and 2^32, at
2^32 and just above it.  In `cache` two requests with restarts fill the cache,
empty it and let the kernel give a number out again.  In `table` the third host
finds no slot.

That `ReceivedIsRight` holds in `http` even though one byte too many is
asked for deserves a word: the byte lands on the first byte of the next chunk,
and it is the right byte for that place, so it does no harm to what the
neighbour has received or will receive.

Deadlock is not checked in these runs: a call returns, a session or a run ends,
the bound on runs or starts is reached, and then nothing is left to happen.

### Fairness

`loop_ftp` (`FairLoopSpec`): the process keeps running.  Its `select()` has a
timeout of one second and the callbacks return, so it always has a next step.

`http` (`FairHttpSpec`): the process keeps running *unless blocked*; the
server goes on with each answer it has begun; and it closes a connection some
time after the answer.  The last is what HTTP servers do (keep-alive limits), and
`PerformEnds` depends on it: a callback waits in `timed_wait(sock, -1)`,
`TIME_OUT` does not reach it there, and the byte too many of a finished chunk
keeps its connection readable so that the silence of others goes unnoticed.

`request`: weak fairness of the program's own steps and of the server's closing
of a connection on which it has nothing more to send.  `ftp`: of the program's
own steps, which stand for sessions and transfers that end by `FtpControl` and
the server.  `ftp_control`: of the client, and of a server that is not cut off
(`Reply`).  `secure`: of the process, of a server that sends what was asked for,
and of its hanging up after that or when nothing is asked.

No fairness is assumed of Ctrl-C, crashes, connections that break, further runs,
or between ready descriptors.  `cache`, `table` and the safety runs assume none.

## 5. What is proved

All theorems hold for every value of the constants that the `ASSUME`s allow.

- **HttpPerformProofs**, the loop: `LoopTypeCorrect`, `CountIsExact`,
  `NoClosedDescriptorIsServed`, `NoConnectionIsForgotten`,
  `FinishedWriteStaysFinished`.  None of these invariants is inductive alone.
  `LoopInv` adds that an active connection still has its `eor` bit
  (`ActiveExpectsRead`; otherwise `ScanRearm` could re-arm nothing) and that
  during a pass the connections already visited are in `rfds` or `wfds`
  (`VisitedIsWatched`; at the end of the pass this is `ActiveIsWatched`).  The
  proof that steps keep `LoopInv` is divided by what is preserved: types, the
  count (which needs the cardinalities of sets of connections), the bits.
- **HttpPerformProofs**, the transfer: `HttpImplementsLoop`, each step of the HTTP
  transfer is a step of the loop or leaves the loop's variables alone; hence
  `HttpLoopIsSound`, the invariants above for the transfer, for any number and
  length of chunks, any server and any failure.  Then `HttpTypeCorrect`,
  `HttpReceivesRight`, `KeptConnectionsAreDone` and `NoWaitForComplete`, for a
  server that honours ranges (`HonoursRanges`; one that answers 200 stores the
  start of the file in the middle, section 6).  `BytesInv` is inductive together
  with `LoopInv`, from which it takes that a request is written once.  `WireOK`:
  the next byte of a socket belongs at `cur_pos`, and what is in the socket and
  still to be sent ends at the end of the range, one byte past the chunk; this is
  why a store past the end of a chunk leaves the neighbour right.  `EndOK`: a
  connection whose header brought more than its chunk is still being read, so the
  loop cannot enter `select()` with it.
- **ChunkSplitProofs**: `SplitTypeCorrect`, `ChunksNeverOverlap`,
  `CoverageOfPackage`.  `SplitInv` adds that the chunks cut so far end where the
  next begins; that the chunks reach the end of the package rests on the chunk
  size times the number asked for being at least the size, which is
  `ChunkSizeBounds`.  `CoverageOfPackage` says exactly which bytes are lost when
  the even share is the least chunk size, and that there is no other such case.
- **HttpRequestProofs**: `RequestTypeCorrect`, `ClaimedStaysStored`, and
  `HttpImplementsDownload`: over any number of runs, crashes, interrupts, broken
  connections and redirections a download from a server that honours ranges is a
  `Download`.  The inductive invariant `RequestInv` has three parts besides the
  types (in which `cur_pos` is one position past its chunk at most with such a
  server).  `HeaderOK`: a transfer is under way only in `perform`, and bytes that are
  stored and not counted yet take a `cur_pos` no further than it may go.  `ShapeOK`, the part that
  crashes need: a `.tmd` with a table has all chunks, and none of them begun
  while its status is `RS_INIT` or dropped; `RS_FINISHED` means that no chunk is
  unfinished.  `BytesOK`: what lies below each `cur_pos` is right, so is what is
  stored from there on and not counted, and each connection is at the byte that
  belongs there.  The refinement is then divided into what `AdvanceCur` adds
  (`AdvanceFetches`), that nothing else changes what is claimed
  (`OthersKeepClaimed`), and that `done` comes with every chunk (`InvPromises`).  What is promised
  is what the chunks cover, which is the whole file unless `chunk_split` leaves a
  remainder.
  `FaultlessRunsComplete` and `SizedRunsComplete` say what the single form
  promises, the first also what several connections do, for servers that tell what
  they send (neither "unsized" nor "page", section 6).  Their invariant `SingleInv` holds as long as the download is
  `Undisturbed` (no fault yet; or, when the length is announced, the first run).
  `WayOK` is how a run comes to the single form and in which state of the `.tmd`
  each step finds it; `StreamOK` that what is stored and what is still needed add
  up to the file, unless the connection is gone and the form begins anew, and
  that a gone connection needs a fault.  `RefusedOK` keeps a run that the server
  refuses from ever having a table.
- **FtpRequestProofs**: `FtpTypeCorrect`, `FtpReceivesRight`,
  `FtpImplementsDownload`, along the same lines, and `WholeRunsComplete`: for any
  number of chunks, a run that begins with none complete, that nothing disturbs
  from outside and that does not die of itself finishes the download.  Dying of
  itself is no rare case: two data connections that are not always ready together
  are enough for the null `write_data`.  Its invariant `Undisturbed` says where every
  thread is while the join loop walks: the loop has met exactly the chunks
  below its index, and all of them have a data connection.
- **FtpControlProofs**: `ControlTypeCorrect`, `CommandsStayInStep`,
  `HandsOverInOrder`, for replies of any number of lines, any way TCP cuts them
  and any number of failures.  `ReplyInv`: the parts under way, in the network or
  read in advance, belong to the command under way; nothing follows the end of a
  last line, so that when `ftp_response` has taken it nothing is left over for the
  next command.  `OrderInv` is what each command that is over has brought, up to
  the data connection that only the last has.  `HandsOverInOrder` is about the
  history of what the server accepted: `AcceptedInv` says that each command the
  thread goes by is in it, with USER or PASS for the login, and `HistoryInv` that
  it is in the order of the script, since a command is sent once.
- **AddrCacheProofs**: `AddrTypeCorrect`, `TablesStaySound`, `AddressesAreRight`,
  for any number of processes, hosts, slots and kills and every hash function.
  The lemmas about the table come first: `UpdateSound` and `InsertSound`, that
  an entry put where the search for its key ends leaves every other search as it
  was, because the slots that searches pass stay occupied.  `AddrInv` adds
  that a process without its table yet connects to nothing, and how far a dump has
  written.  (A set of naturals has a first element by
  `WFMin`; no induction is needed.)  `LoadsAreExact`: a process that loads
  undisturbed gets exactly what was dumped last, whatever the order of the slots;
  and `AddressesAreRight`: it gives no host the address of another.  Both are about
  processes that did not load from a mixed region; of the others `table_mixed` shows
  that they may.  `LoadInv` says which tables count their entries right and have the
  right address in each (`CountInv`), that
  unless `torn` one process at most writes and has written its table so far
  (`WriterInv`, with a layout of the slots' places in the region), that nobody
  loads unmixed while one writes (`ApartInv`), and that the region and each
  loader hold a sound table and its first slots (`HoldsInv`).  The lemma it rests
  on is `InsertAgain`: entries inserted anew in the order of their slots go to
  the slots they had.  The first attempt at this proof failed because `torn` left
  out one case, which TLC then found with more starts and look-ups than the run
  has (section 6).
- **ConnCacheProofs**: `CacheTypeCorrect`, `DescriptorsNeverShared`.  `SocketsInv`
  adds to the second that every descriptor a connection holds, live or freed, is
  open in the kernel, so that `socket()` does not give it out again.
  `ListsStaySound`: cache and group are lists without cycles or a common member,
  and the count is the length, as long as no connection was put twice.
  `DeathsHaveKnownCauses`: freed memory is used only after that, or after the
  address that failed was freed.  `ListsInv`
  states a list as a numbering of its members from its end along the links
  (`Linked`), so that adding, taking away and comparing lists need no induction;
  `WalkIsList` shows that the walk of the property gives these members.
- **SecureReadProofs**: `SecureTypeCorrect` (`BoundsInv`: the block of the queue
  never exceeds a page and the longest record, because it grows only for the rest
  of one record; what the queue holds lies in its block, unless the model has ended
  as "undefined", past the block, which it can), `StreamStaysInOrder`,
  `NothingStaysHidden`, for every
  length of header, chunk, page and record, and however the server cuts its
  answer.  `PlacesInv` says where bytes may be at each point of a read, and
  `RoomInv` that a read of the body asks for exactly the rest of the chunk, so
  that a record that fills the caller's buffer completes the chunk and the loop
  does not go to `select()` with the rest of it in the queue (`QueueInv`).  A length
  is an `uint32`, so this is so while less than 4 GiB of the chunk are left; 2 GiB
  and more are refused by `openssl.c:70`, and just above 4 GiB the loop does wait
  with bytes in the queue.  The sequences need
  no induction: a record is cut in two and put together again (`CutSeq`).

Every invariant and action property of the passing runs is stated by one of
these theorems, under the assumptions named above.  Only model-checked is
liveness (`InterruptIsObeyed`, `PerformEnds`, `RunEnds`, `FtpRunEnds`,
`SessionEnds`, `SecureEnds`), which depends on fairness and is beyond the prover:
see section 4 for what each run assumes.

## 6. Observations made while modelling

The model does what the code does, including what looks unintended.  These are
places where a property had to be stated with care, or where a state that
should not occur does.

*Select loop.*

- A connection closed in a pass can leave its bit in a set; the next `select()`
  fails with EBADF and the others are abandoned, with a result above 0 although
  nobody stopped the loop (`connection.h:95-97` says otherwise).
- After a second of silence a connection whose request is not sent is no longer
  polled for writing (`connection.c:840`).
- A read-only group is polled for writing after `connection.c:909`, and the next
  step calls the `write_data` it does not have.  Two FTP data connections of which
  one is not ready when the other is served are enough: no failure is needed.
- 0, "finished successfully" in `connection.h:95`, is also returned after
  connections were closed for silence.

*HTTP.*

- When the even share of a file is exactly the least chunk size, the remainder of
  the division is in no chunk (`metadata.c:162`): an undisturbed download is
  reported finished, its `.tmd` removed, and the end of the file is missing.  So it
  is over FTP.
- The range asked for is one byte too long (`http.c:227, 470`); arriving with the
  header of an almost complete chunk it takes `cur_pos` past `end_pos`
  (`http.c:173`).
- A server that answers 200 to a range has the start of the file stored in the
  middle (`http.c:150`).
- Ctrl-C during a read of the single form is taken for the end of the body: the
  download is finished and its `.tmd` removed, where `src/src/mget.c:45` prints
  that temporary data is saved.
- A `.tmd` without a byte or with half of its table makes every later run die.
- A crash after `RS_FINISHED` and before the `.tmd` is removed, followed by a
  connection that fails, removes it without another look at the file.
- The restart of the single form reads on from a connection that may have
  ended, and puts it into the cache once more (`http.c:366`).
- `receive_chunked_data` is given `ME_CONN_ERR` where it expects -1.
- A redirection frees the uri that the next probe sends, keeps the old `Host`,
  and is not limited in number (`http.c:649`).
- A 206 that does not tell the size is a finished, empty download.
- `mget -r name` without a URL never enters the loop of `main`.

*Connections and caches.*

- An answer that is still owed to an earlier request can be read as the answer
  to the next (`connection.c:737-740` calls it leftover).
- A connection that finds the cache full is freed with its descriptor open.
- The address that failed is freed and stays in its table (`connection.c:411`).
- A look-up in a table that is full for a host returns the address in the last
  slot; an update there frees a key twice (`data_utlis.c:191`).
- A table loaded from overlapping dumps may count more or fewer entries than it
  has, and passes the wrong count on with its next dump (`data_utlis.c:335-358`).
  One dump is enough: a process that loads while another writes can read an entry
  twice; its own dump, though nobody disturbs it, then announces more entries than
  it writes, and the next load takes what an earlier dump left behind them.  The
  proof of `LoadsAreExact` showed this; the run of `table` is too short for it.
- The dump of the table does not look at the size of the region, and a process
  killed in it leaves the region busy for good.
- Dumps that overlap, are loaded while they are written, or are cut short give a
  host the address of another (`table_mixed`, section 4).

*FTP.*

- Besides the finding above: `COF_FAILED` moves the end of the reply buffer by
  4 GiB, and the line is copied without its terminator (`wftp-basic.c:58-62`).
- A switch without a case for a failed write calls `abort()`.

*Secure sockets.*

- After a read into the queue the room is reduced by what the caller got
  (`openssl.c:140`), so that a long record is written behind the block.
- A read of -1 is taken for a length (`http.c:566`); a stale `EAGAIN` makes a
  truncated stream a finished one; a second handshake on the connection of a
  redirected probe makes the program exit; the result 0 of a write stopped by Ctrl-C is ignored.
- With 2 GiB or more left of a chunk a read over TLS is refused (`openssl.c:70`); with
  4 GiB and a little more it asks for the little, the rest of the record stays in the
  queue, and the loop waits in `select()` without it (`http.c:189`,
  `connection.h:54`).

## 7. What is not modelled

`PROJECT.json` gives each component its status and what is left out of it.  Not
modelled at all: progress bars, logging, argument parsing and the vendored MD5
(output or pure functions), and the code taken over from wget that nothing in a
download calls (listings, one-time passwords, character classes, its own log).
The GnuTLS variant is not what the build takes by default.  `parse_url` and the
choice of a file name work on strings character by character and keep no state.
A data race of FTP's threads on the connection cache is undefined in every
field and is listed as a hazard instead.

## 8. Running it

    tlc -workers 2 -config loop_http.cfg MCSelectLoop
    tlapm HttpRequestProofs.tla

`PROJECT.json` lists the runs, the source lines each definition stands for, the
hazards with the properties that watch them, and for every property a mutated
definition that it catches.
