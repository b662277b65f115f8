------------------------------ MODULE FtpControl ------------------------------
(***************************************************************************)
(* One FTP control session: get_remote_file_size_ftp, which asks for the   *)
(* size before a download, or get_data_connection and ftp_retr, with which *)
(* each thread opens the data connection of its chunk (src/src/lib/        *)
(* protocols/ftp/ftp.c), over the commands of wftp-basic.c.                *)
(*                                                                         *)
(* A reply is one or more lines, of which only the last begins with three  *)
(* digits and a space.  Each line is two parts, and the second holds its   *)
(* end: TCP delivers the parts as it likes, and fd_read_line reads once.   *)
(***************************************************************************)
EXTENDS Integers, Sequences

CONSTANTS
    Roles,     \* which of the two sessions there may be
    MaxMore,   \* bound: lines of a reply before its last
    MaxFaults  \* bound: failures of the network

ASSUME ControlAssumption ==
    /\ Roles \subseteq {"probe", "thread"}
    /\ MaxMore \in Nat /\ MaxFaults \in Nat

Script(role) ==
    IF role = "probe"
      THEN <<"greeting", "USER", "PASS", "SYST", "PWD", "TYPE", "SIZE", "REST">>
      ELSE <<"greeting", "USER", "PASS", "SYST", "TYPE", "SIZE", "REST", "PASV", "RETR">>

Digits == 1..5   \* the first digit of a reply

VARIABLES
    role,
    step,    \* the command of Script(role) that is next or under way
    pc,      \* "send" | "read" | "dial" | "end" | "died" (abort, or memory overrun)
    asked,   \* the command has been sent and the server has not replied yet
    wire,    \* parts of lines in the socket
    q,       \* parts of lines in conn->bq
    link,    \* "up" | "closed" | "reset"
    res,     \* the uerr_t the session ends with, or "none"
    size,    \* what SIZE gave: "none" | "zero" | "same" as before | "other"
    range,   \* what REST gave: "none" | "ok" | "fail"
    port,    \* what PASV gave: "none" | "ok" | "unset"
    data,    \* param->data_conn: "none" | "server" | "stray" (another port)
    accepted, \* history: the commands that the server accepted, in the order it did
    faults

vars == <<role, step, pc, asked, wire, q, link, res, size, range, port, data, accepted,
          faults>>

Cmd == Script(role)[step]
Fault == faults < MaxFaults /\ faults' = faults + 1

Init ==
    /\ role \in Roles
    /\ step = 1 /\ pc = "read" /\ asked = TRUE
    /\ wire = <<>> /\ q = <<>> /\ link = "up"
    /\ res = "none" /\ size = "none" /\ range = "none" /\ port = "none" /\ data = "none"
    /\ accepted = <<>> /\ faults = 0

-------------------------------------------------------------------------------
(* wftp-basic.c: the uerr_t of a command whose reply begins with digit d;  *)
(* good says whether the rest of the reply can be parsed.                  *)

ftp_login(c, d) ==
    CASE c = "greeting" -> IF d = 2 THEN "FTPOK" ELSE "FTPSRVERR"
      [] c = "USER" -> IF d \in {2, 3} THEN "FTPOK" ELSE "FTPLOGREFUSED"
      [] c = "PASS" -> IF d = 2 THEN "FTPOK" ELSE "FTPLOGINC"

ftp_syst(d) == IF d = 5 THEN "FTPSRVERR" ELSE "FTPOK"
ftp_pwd(d, good) == IF d = 5 \/ ~good THEN "FTPSRVERR" ELSE "FTPOK"

\* Mutant: only a permanent refusal counts.
ftp_type_lenient(d) == IF d # 5 THEN "FTPOK" ELSE "FTPUNKNOWNTYPE"

ftp_type(d) == IF d = 2 THEN "FTPOK" ELSE "FTPUNKNOWNTYPE"
ftp_rest(d) == IF d = 3 THEN "FTPOK" ELSE "FTPRESTFAIL"

ftp_pasv(d, good) ==
    CASE d # 2 -> "FTPNOPASV" [] d = 2 /\ ~good -> "FTPINVPASV" [] OTHER -> "FTPOK"

ftp_retr(d) == CASE d = 5 -> "FTPNSFOD" [] d = 1 -> "FTPOK" [] OTHER -> "FTPRERR"

\* SIZE does not fail: without a number there is a size of zero.
ftp_size(d, good) == IF d = 5 \/ ~good THEN {"zero"} ELSE {"same", "other"}

Uerr(c, d, good) ==
    CASE c \in {"greeting", "USER", "PASS"} -> ftp_login(c, d)
      [] c = "SYST" -> ftp_syst(d)
      [] c = "PWD" -> ftp_pwd(d, good)
      [] c = "TYPE" -> ftp_type(d)
      [] c = "SIZE" -> "FTPOK"
      [] c = "REST" -> ftp_rest(d)
      [] c = "PASV" -> ftp_pasv(d, good)
      [] c = "RETR" -> ftp_retr(d)

-------------------------------------------------------------------------------
(* ftp.c: what the switch after each command makes of its uerr_t.          *)

Tolerated(c) ==
    CASE c \in {"SYST", "PWD"} -> {"FTPOK", "FTPSRVERR"}
      [] c = "REST" -> {"FTPOK", "FTPRESTFAIL"}
      [] c = "PASV" -> {"FTPOK", "FTPNOPASV", "FTPINVPASV"}
      [] c = "RETR" -> {"FTPOK", "FTPNSFOD"}
      [] OTHER -> {"FTPOK"}

\* What a switch has no case for is abort().
Aborts(c, e) == c \in {"SYST", "PWD", "SIZE"} /\ e = "WRITEFAILED"

\* Mutant: the session does not end with its last command.
AfterPastLast(c, e, n) ==
    CASE Aborts(c, e) -> pc' = "died" /\ UNCHANGED <<step, res, data>>
      [] ~Aborts(c, e) /\ e \notin Tolerated(c) ->
           pc' = "end" /\ res' = e /\ data' = "none" /\ UNCHANGED step
      [] OTHER ->
           /\ UNCHANGED <<data, res>>
           /\ step' = step + n
           /\ pc' = IF c = "PASV" THEN "dial" ELSE "send"

\* The command c came out as e: abort, return e, or go on with the n-th command from
\* here.  When RETR fails the data connection is put.
After(c, e, n) ==
    CASE Aborts(c, e) -> pc' = "died" /\ UNCHANGED <<step, res, data>>
      [] ~Aborts(c, e) /\ e \notin Tolerated(c) ->
           pc' = "end" /\ res' = e /\ data' = "none" /\ UNCHANGED step
      [] OTHER ->
           /\ UNCHANGED data
           /\ IF step + n > Len(Script(role))
                THEN pc' = "end" /\ res' = "FTPOK" /\ UNCHANGED step
                ELSE /\ step' = step + n /\ UNCHANGED res
                     /\ pc' = IF c = "PASV" THEN "dial" ELSE "send"

-------------------------------------------------------------------------------
(* The client.                                                             *)

\* How a write may come out: on a connection that the other end has closed, either way.
Writes == {w \in {"sent", "failed"} :
              (w = "sent" => link # "reset") /\ (w = "failed" => link # "up")}

\* A command is written.
Send ==
    /\ pc = "send"
    /\ \/ "sent" \in Writes /\ pc' = "read" /\ asked' = TRUE
          /\ UNCHANGED <<step, res, data>>
       \/ "failed" \in Writes /\ After(Cmd, "WRITEFAILED", 1) /\ UNCHANGED asked
    /\ UNCHANGED <<role, wire, q, link, size, range, port, accepted, faults>>

Ended(parts) == \E i \in DOMAIN parts : parts[i].end

\* fd_read_line finds no line in bq and reads once.  What comes may not hold the end
\* of a line, and then there is no line.
ReadMore ==
    /\ pc = "read" /\ ~Ended(q) /\ wire # <<>>
    /\ \E n \in 1..Len(wire) :
          /\ q' = q \o SubSeq(wire, 1, n)
          /\ wire' = SubSeq(wire, n + 1, Len(wire))
          /\ IF Ended(q') THEN UNCHANGED <<pc, step, res, data>>
                          ELSE After(Cmd, "FTPRERR", 1)
    /\ UNCHANGED <<role, asked, link, size, range, port, accepted, faults>>

\* Mutant: the end of the connection is not told from a read that gave nothing yet.
ReadEndAwaitsMore ==
    /\ pc = "read" /\ ~Ended(q) /\ wire = <<>> /\ link = "reset"
    /\ pc' = "died"
    /\ UNCHANGED <<role, step, asked, wire, q, link, res, size, range, port, data, accepted,
                   faults>>

\* The connection is closed, and the read gives nothing.  On one that was reset it
\* fails, COF_FAILED is taken for a length, and bq->w points out of the queue.
ReadEnd ==
    /\ pc = "read" /\ ~Ended(q) /\ wire = <<>>
    /\ \/ link = "closed" /\ After(Cmd, "FTPRERR", 1)
       \/ link = "reset" /\ pc' = "died" /\ UNCHANGED <<step, res, data>>
    /\ UNCHANGED <<role, asked, wire, q, link, size, range, port, accepted, faults>>

\* A signal interrupts the wait for the server, and the read gives nothing.
Interrupted ==
    /\ pc = "read" /\ ~Ended(q) /\ Fault
    /\ After(Cmd, "FTPRERR", 1)
    /\ UNCHANGED <<role, asked, wire, q, link, size, range, port, accepted>>

First == CHOOSE i \in DOMAIN q : q[i].end /\ \A j \in 1..(i - 1) : ~q[j].end
Rest == SubSeq(q, First + 1, Len(q))

\* ftp_response: a line that is not the last one is skipped.
SkipLine ==
    /\ pc = "read" /\ Ended(q) /\ ~q[First].last
    /\ q' = Rest
    /\ UNCHANGED <<role, step, pc, asked, wire, link, res, size, range, port, data, accepted,
                   faults>>

\* What is made of the line that ends a reply.  A user may be let in without a
\* password, and a thread aborts when the size is not the one of the download.
Take(line) ==
    LET d == line.digit
        e == Uerr(Cmd, d, line.good)
    IN  /\ size' \in IF Cmd = "SIZE" THEN ftp_size(d, line.good) ELSE {size}
        /\ range' = IF Cmd # "REST" THEN range ELSE IF e = "FTPOK" THEN "ok" ELSE "fail"
        /\ port' = IF Cmd # "PASV" THEN port ELSE IF e = "FTPOK" THEN "ok" ELSE "unset"
        /\ IF role = "thread" /\ Cmd = "SIZE" /\ size' # "same"
             THEN pc' = "died" /\ UNCHANGED <<step, res, data>>
             ELSE After(Cmd, e, IF Cmd = "USER" /\ d = 2 THEN 2 ELSE 1)

\* Mutant: the first line is the reply.
TakeFirstLine ==
    /\ pc = "read" /\ Ended(q)
    /\ q' = Rest
    /\ Take(q[First])
    /\ UNCHANGED <<role, asked, wire, link, accepted, faults>>

\* ftp_response: the last line is the reply.
TakeReply ==
    /\ pc = "read" /\ Ended(q) /\ q[First].last
    /\ q' = Rest
    /\ Take(q[First])
    /\ UNCHANGED <<role, asked, wire, link, accepted, faults>>

\* connection_get for the data connection.  When PASV gave no port, one is tried that
\* was never set.
Dial ==
    /\ pc = "dial"
    /\ \/ /\ data' = IF port = "ok" THEN "server" ELSE "stray"
          /\ pc' = "send" /\ UNCHANGED <<res, faults>>
       \/ /\ (port = "unset" /\ UNCHANGED faults) \/ Fault
          /\ pc' = "end" /\ res' = "FTPRERR" /\ UNCHANGED data
    /\ UNCHANGED <<role, step, asked, wire, q, link, size, range, port, accepted>>

Client == Send \/ ReadMore \/ ReadEnd \/ SkipLine \/ TakeReply \/ Dial

-------------------------------------------------------------------------------
(* The server and the network.                                             *)

Line(c, d, good, last) ==
    LET part(end) == [cmd |-> c, digit |-> d, good |-> good, last |-> last, end |-> end]
    IN  <<part(FALSE), part(TRUE)>>

\* The reply with which a server accepts a command, as the protocol has it: 3xx for REST,
\* 1xx for RETR, of which the transfer is still to come, else 2xx.  A user whom it wants a
\* password from, by 3xx, it has not let in.
Accepts(c, d) == d = CASE c = "REST" -> 3 [] c = "RETR" -> 1 [] OTHER -> 2

\* The server accepts or refuses the command in a reply of one or more lines.
Reply ==
    /\ asked /\ link = "up"
    /\ asked' = FALSE
    /\ \E d \in Digits, good \in BOOLEAN, m \in 0..MaxMore :
          /\ wire' = wire \o (IF m = 0 THEN <<>> ELSE Line(Cmd, d, good, FALSE))
                          \o Line(Cmd, d, good, TRUE)
          /\ accepted' = IF Accepts(Cmd, d) THEN Append(accepted, Cmd) ELSE accepted
    /\ UNCHANGED <<role, step, pc, q, link, res, size, range, port, data, faults>>

Break ==
    /\ link = "up" /\ pc \notin {"end", "died"} /\ Fault
    /\ link' \in {"closed", "reset"}
    /\ UNCHANGED <<role, step, pc, asked, wire, q, res, size, range, port, data, accepted>>

Next == Client \/ Interrupted \/ Reply \/ Break

Spec == Init /\ [][Next]_vars

\* The thread runs, and a server that is not cut off replies.
FairSpec == Spec /\ WF_vars(Client) /\ WF_vars(Reply)

-------------------------------------------------------------------------------
(* Properties.                                                             *)

\* The type invariant.
ControlTypeOK ==
    /\ role \in Roles /\ step \in 1..Len(Script(role))
    /\ pc \in {"send", "read", "dial", "end", "died"}
    /\ asked \in BOOLEAN /\ link \in {"up", "closed", "reset"}
    /\ size \in {"none", "zero", "same", "other"}
    /\ range \in {"none", "ok", "fail"} /\ port \in {"none", "ok", "unset"}
    /\ data \in {"none", "server", "stray"}
    /\ faults \in 0..MaxFaults
    /\ res \in {"none", "FTPOK", "FTPRERR", "FTPSRVERR", "FTPLOGREFUSED", "FTPLOGINC",
                "FTPUNKNOWNTYPE", "WRITEFAILED"}
    /\ \A parts \in {wire, q} : \A i \in DOMAIN parts :
          parts[i].cmd \in {Script(role)[j] : j \in 1..step}

\* Replies and commands stay in step, whatever way TCP cuts the lines: when a command
\* is sent nothing of an earlier reply is left to be taken for its answer
\* (fd_read_line, ftp_response).
InStep ==
    /\ pc \in {"send", "dial"} => wire = <<>> /\ q = <<>>
    /\ pc = "read" => \A parts \in {wire, q} : \A i \in DOMAIN parts : parts[i].cmd = Cmd

\* The server accepted a, and later b.
Precedes(a, b) ==
    \E i, j \in DOMAIN accepted : i < j /\ accepted[i] = a /\ accepted[j] = b

\* A data connection is handed to the transfer only when the server has greeted, then let
\* the user in, by USER or by PASS, then set the type, then, if the thread goes on as if it
\* had, gone to the offset of the chunk, and after all this opened the port, if the
\* connection is one to that port (get_data_connection).  RETR itself may have been refused.
HandedOverInOrder ==
    pc = "end" /\ data # "none" =>
        /\ res = "FTPOK" /\ size = "same"
        /\ \E l \in {"USER", "PASS"} : Precedes("greeting", l) /\ Precedes(l, "TYPE")
        /\ range = "ok" => Precedes("TYPE", "REST")
        /\ data = "server" => Precedes("TYPE", "PASV")
        /\ range = "ok" /\ data = "server" => Precedes("REST", "PASV")

\* Every session ends, also when the connection breaks or a line never comes.
SessionEnds == <>(pc \in {"end", "died"})
===============================================================================
