--------------------------- MODULE FtpControlProofs ---------------------------
(***************************************************************************)
(* One FTP control session keeps commands and replies in step and hands    *)
(* over its data connection in order, for any number of lines in a reply,  *)
(* any way TCP delivers them and any number of failures.                   *)
(***************************************************************************)
EXTENDS FtpControl, SequenceTheorems, WellFoundedInduction, TLAPS

Names == {"greeting", "USER", "PASS", "SYST", "PWD", "TYPE", "SIZE", "REST", "PASV", "RETR"}
Part == [cmd : Names, digit : Digits, good : BOOLEAN, last : BOOLEAN, end : BOOLEAN]

-------------------------------------------------------------------------------
(* The inductive invariant.                                                *)

StateInv ==
    /\ role \in Roles /\ step \in 1..Len(Script(role))
    /\ pc \in {"send", "read", "dial", "end", "died"}
    /\ asked \in BOOLEAN /\ link \in {"up", "closed", "reset"}
    /\ size \in {"none", "zero", "same", "other"}
    /\ range \in {"none", "ok", "fail"} /\ port \in {"none", "ok", "unset"}
    /\ data \in {"none", "server", "stray"}
    /\ faults \in 0..MaxFaults
    /\ res \in {"none", "FTPOK", "FTPRERR", "FTPSRVERR", "FTPLOGREFUSED", "FTPLOGINC",
                "FTPUNKNOWNTYPE", "WRITEFAILED"}
    /\ wire \in Seq(Part) /\ q \in Seq(Part)
    /\ accepted \in Seq(Names)

\* The server accepted the command c.
Has(c) == \E i \in DOMAIN accepted : accepted[i] = c

\* The parts that are under way belong to the command under way, and say what the server
\* made of it.
Answers(parts) ==
    \A i \in DOMAIN parts :
        parts[i].cmd = Cmd /\ (Accepts(Cmd, parts[i].digit) => Has(Cmd))

\* Nothing follows the end of the last line of a reply.
EndsReply(parts) ==
    \A i \in DOMAIN parts : parts[i].end /\ parts[i].last => i = Len(parts)

ReplyInv ==
    /\ Answers(wire) /\ Answers(q) /\ EndsReply(wire) /\ EndsReply(q)
    /\ (\E i \in DOMAIN q : q[i].end /\ q[i].last) => wire = <<>>
    /\ asked => wire = <<>> /\ q = <<>>
    /\ pc \in {"send", "dial"} => ~asked /\ wire = <<>> /\ q = <<>>

\* What the commands of a thread that are over have brought.
OrderInv ==
    /\ data # "none" => role = "thread" /\ step = 9
    /\ pc = "dial" => role = "thread" /\ step = 9 /\ data = "none"
    /\ pc = "end" /\ data # "none" => res = "FTPOK"
    /\ role = "thread" /\ step > 6 => size = "same"
    /\ data = "server" => port = "ok"

\* What a thread goes by was accepted.
AcceptedInv ==
    /\ role = "thread" =>
         /\ step > 1 => Has("greeting")
         /\ step > 3 => Has("USER") \/ Has("PASS")
         /\ step > 5 => Has("TYPE")
    /\ range = "ok" => Has("REST")
    /\ port = "ok" => Has("PASV")

\* A thread's commands were accepted in the order in which it sends them.
HistoryInv ==
    role = "thread" =>
      /\ Has("USER") => Precedes("greeting", "USER")
      /\ Has("PASS") => Precedes("greeting", "PASS")
      /\ Has("TYPE") => Precedes("USER", "TYPE") \/ Precedes("PASS", "TYPE")
      /\ Has("REST") => Precedes("TYPE", "REST")
      /\ Has("PASV") => step >= 8 /\ Precedes("TYPE", "PASV")
      /\ Has("PASV") /\ range = "ok" => Precedes("REST", "PASV")

ControlInv == StateInv /\ ReplyInv /\ OrderInv /\ AcceptedInv /\ HistoryInv

-------------------------------------------------------------------------------
(* The two sessions.                                                       *)

LEMMA ThreadScript ==
    LET s == Script("thread") IN
    /\ Len(s) = 9
    /\ s[1] = "greeting" /\ s[2] = "USER" /\ s[3] = "PASS" /\ s[4] = "SYST" /\ s[5] = "TYPE"
    /\ s[6] = "SIZE" /\ s[7] = "REST" /\ s[8] = "PASV" /\ s[9] = "RETR"
BY DEF Script

LEMMA ProbeScript ==
    LET s == Script("probe") IN
    /\ Len(s) = 8
    /\ s[1] = "greeting" /\ s[2] = "USER" /\ s[3] = "PASS" /\ s[4] = "SYST" /\ s[5] = "PWD"
    /\ s[6] = "TYPE" /\ s[7] = "SIZE" /\ s[8] = "REST"
BY DEF Script

\* What is known of a command from its place, and of its place from a command.
LEMMA Commands ==
    ASSUME StateInv
    PROVE  /\ Cmd \in Names /\ step \in Nat /\ Len(Script(role)) \in {8, 9}
           /\ role \in {"probe", "thread"}
           /\ role = "thread" => Len(Script(role)) = 9
           /\ Cmd = "greeting" <=> step = 1
           /\ Cmd = "USER" <=> step = 2
           /\ Cmd = "RETR" => role = "thread" /\ step = 9
           /\ Cmd = "PASV" => role = "thread" /\ step = 8
           /\ role = "thread" =>
                 /\ Cmd = "PASS" <=> step = 3
                 /\ Cmd = "TYPE" <=> step = 5
                 /\ Cmd = "SIZE" <=> step = 6
                 /\ Cmd = "REST" <=> step = 7
                 /\ Cmd = "PASV" <=> step = 8
                 /\ Cmd = "RETR" <=> step = 9
<1>1. role \in {"probe", "thread"}
    BY ControlAssumption DEF StateInv
<1>2. CASE role = "probe"
    <2>1. step \in 1..8 /\ Len(Script(role)) = 8
        BY <1>2, ProbeScript DEF StateInv
    <2>2. step = 1 \/ step = 2 \/ step = 3 \/ step = 4 \/ step = 5 \/ step = 6 \/ step = 7
          \/ step = 8
        BY <2>1
    <2> QED
        BY <1>2, <2>1, <2>2, ProbeScript DEF Cmd, Names
<1>3. CASE role = "thread"
    <2>1. step \in 1..9 /\ Len(Script(role)) = 9
        BY <1>3, ThreadScript DEF StateInv
    <2>2. step = 1 \/ step = 2 \/ step = 3 \/ step = 4 \/ step = 5 \/ step = 6 \/ step = 7
          \/ step = 8 \/ step = 9
        BY <2>1
    <2> QED
        BY <1>3, <2>1, <2>2, ThreadScript DEF Cmd, Names
<1> QED
    BY <1>1, <1>2, <1>3

\* What a reply must have begun with for the session to go on.
LEMMA Replies ==
    ASSUME NEW c \in Names, NEW d \in Digits, NEW good \in BOOLEAN
    PROVE  LET e == Uerr(c, d, good) IN
           /\ e \in Tolerated(c) /\ c \in {"greeting", "PASS", "TYPE"} => Accepts(c, d)
           /\ c = "USER" /\ d = 2 => Accepts(c, d)
           /\ c \in {"REST", "PASV"} /\ e = "FTPOK" => Accepts(c, d)
           /\ ~Aborts(c, e)
           /\ e \notin Tolerated(c) =>
                 e \in {"FTPRERR", "FTPSRVERR", "FTPLOGREFUSED", "FTPLOGINC", "FTPUNKNOWNTYPE"}
BY DEF Names, Digits, Uerr, Tolerated, Aborts, Accepts, ftp_login, ftp_syst, ftp_pwd, ftp_type,
       ftp_rest, ftp_pasv, ftp_retr

\* No switch lets a command go on that failed to be written or answered.
LEMMA Failures ==
    ASSUME NEW c \in Names, NEW e \in {"FTPRERR", "WRITEFAILED"}
    PROVE  e \notin Tolerated(c) /\ (e = "FTPRERR" => ~Aborts(c, e))
BY DEF Names, Tolerated, Aborts

\* A failed command ends the session, without a data connection.
LEMMA FailedEnds ==
    ASSUME NEW c \in Names, NEW e \in {"FTPRERR", "WRITEFAILED"}, After(c, e, 1)
    PROVE  /\ UNCHANGED step
           /\ \/ pc' = "died" /\ UNCHANGED <<res, data>>
              \/ pc' = "end" /\ res' = e /\ data' = "none"
BY Failures DEF After

-------------------------------------------------------------------------------
(* Lines.                                                                  *)

\* The first parts of w are put behind those of s.
LEMMA Moved ==
    ASSUME NEW s \in Seq(Part), NEW w \in Seq(Part), NEW n \in 1..Len(w)
    PROVE  LET t == s \o SubSeq(w, 1, n)
               u == SubSeq(w, n + 1, Len(w))
           IN  /\ t \in Seq(Part) /\ u \in Seq(Part)
               /\ Len(t) = Len(s) + n /\ Len(u) = Len(w) - n
               /\ \A i \in DOMAIN t :
                     \/ i \in DOMAIN s /\ t[i] = s[i]
                     \/ i - Len(s) \in DOMAIN w /\ i - Len(s) <= n /\ t[i] = w[i - Len(s)]
               /\ \A i \in DOMAIN u : i + n \in DOMAIN w /\ u[i] = w[i + n]
<1> DEFINE a == SubSeq(w, 1, n)
           t == s \o a
           u == SubSeq(w, n + 1, Len(w))
<1>1. Len(w) \in Nat /\ Len(s) \in Nat /\ n \in Nat /\ 1 <= n /\ n <= Len(w)
      /\ DOMAIN s = 1..Len(s) /\ DOMAIN w = 1..Len(w)
    OBVIOUS
<1>2. /\ a \in Seq(Part) /\ Len(a) = n
      /\ \A i \in 1..n : a[i] = w[i]
    <2>1. \A i \in 1..n : w[i] \in Part
        BY <1>1
    <2>2. /\ a \in Seq(Part) /\ Len(a) = (IF 1 <= n THEN n - 1 + 1 ELSE 0)
          /\ \A i \in 1..(n - 1 + 1) : a[i] = w[1 + i - 1]
        BY <1>1, <2>1, SubSeqProperties
    <2> QED
        BY <1>1, <2>2
<1>3. /\ u \in Seq(Part) /\ Len(u) = Len(w) - n
      /\ \A i \in 1..Len(u) : u[i] = w[i + n]
    <2>1. \A i \in (n + 1)..Len(w) : w[i] \in Part
        BY <1>1
    <2>2. /\ u \in Seq(Part)
          /\ Len(u) = (IF n + 1 <= Len(w) THEN Len(w) - (n + 1) + 1 ELSE 0)
          /\ \A i \in 1..(Len(w) - (n + 1) + 1) : u[i] = w[(n + 1) + i - 1]
        BY <1>1, <2>1, SubSeqProperties
    <2> QED
        BY <1>1, <2>2
<1> HIDE DEF a, u
<1>4. /\ t \in Seq(Part) /\ Len(t) = Len(s) + Len(a)
      /\ \A i \in 1..(Len(s) + Len(a)) : t[i] = IF i <= Len(s) THEN s[i] ELSE a[i - Len(s)]
    BY <1>1, <1>2, ConcatProperties
<1> HIDE DEF t
<1>5. ASSUME NEW i \in DOMAIN t
      PROVE  \/ i \in DOMAIN s /\ t[i] = s[i]
             \/ i - Len(s) \in DOMAIN w /\ i - Len(s) <= n /\ t[i] = w[i - Len(s)]
    <2>1. i \in 1..(Len(s) + n)
        BY <1>2, <1>4
    <2> QED
        BY <1>1, <1>2, <1>4, <2>1
<1>6. ASSUME NEW i \in DOMAIN u PROVE i + n \in DOMAIN w /\ u[i] = w[i + n]
    BY <1>1, <1>3
<1> QED
    BY <1>2, <1>3, <1>4, <1>5, <1>6 DEF t, u, a

\* The first line of the queue ends where it should.
LEMMA FirstLine ==
    ASSUME q \in Seq(Part), Ended(q)
    PROVE  First \in 1..Len(q) /\ First \in DOMAIN q /\ q[First].end
<1> DEFINE R == {ss \in Nat \X Nat : ss[1] < ss[2]}
           E == {i \in 1..Len(q) : q[i].end}
<1>1. IsWellFoundedOn(R, Nat)
    BY NatLessThanWellFounded DEF OpToRel
<1>2. E \subseteq Nat /\ E # {} /\ DOMAIN q = 1..Len(q)
    BY DEF Ended
<1>3. PICK x \in E : \A y \in E : ~(<<y, x>> \in R)
    <2> HIDE DEF R, E
    <2> QED BY <1>1, <1>2, WFMin
<1>4. \A j \in 1..(x - 1) : ~q[j].end
    <2> TAKE j \in 1..(x - 1)
    <2>1. j \in Nat /\ j < x /\ j \in 1..Len(q) /\ x \in Nat
        BY <1>2
    <2>2. ~(j \in E)
        BY <1>3, <2>1
    <2> QED
        BY <2>1, <2>2
<1>5. First \in DOMAIN q /\ q[First].end
    BY <1>2, <1>4 DEF First
<1> QED
    BY <1>2, <1>5

\* The parts of a reply, of one line or of more.
ReplyOf(w, c, d) ==
    /\ w \in Seq(Part)
    /\ \A i \in DOMAIN w : w[i].cmd = c /\ w[i].digit = d
    /\ EndsReply(w)

LEMMA ReplyParts ==
    ASSUME NEW c \in Names, NEW d \in Digits, NEW good \in BOOLEAN,
           NEW more, more = <<>> \/ more = Line(c, d, good, FALSE),
           NEW w, w = <<>> \o more \o Line(c, d, good, TRUE)
    PROVE  ReplyOf(w, c, d)
<1> USE DEF ReplyOf
<1> DEFINE l == Line(c, d, good, TRUE)
           k == Line(c, d, good, FALSE)
<1>1. /\ l \in Seq(Part) /\ Len(l) = 2
      /\ l[1].cmd = c /\ l[1].digit = d /\ ~l[1].end
      /\ l[2].cmd = c /\ l[2].digit = d
    BY DEF Line, Part
<1>2. /\ k \in Seq(Part) /\ Len(k) = 2
      /\ k[1].cmd = c /\ k[1].digit = d /\ ~k[1].last
      /\ k[2].cmd = c /\ k[2].digit = d /\ ~k[2].last
    BY DEF Line, Part
<1> HIDE DEF l, k
<1>3. CASE more = <<>>
    <2>1. w = l
        <3>1. w = (<<>> \o <<>>) \o l /\ <<>> \o <<>> = <<>> /\ <<>> \o l = l
            BY <1>1, <1>3, ConcatEmptySeq DEF l
        <3> QED
            BY <3>1
    <2>2. \A i \in DOMAIN w : i = 1 \/ i = 2
        <3> TAKE i \in DOMAIN w
        <3>1. i \in 1..2
            BY <1>1, <2>1, LenProperties
        <3> QED
            BY <3>1
    <2> QED
        BY <1>1, <2>1, <2>2 DEF EndsReply
<1>4. CASE more = k
    <2>1. w = k \o l
        <3>1. w = (<<>> \o k) \o l /\ <<>> \o k = k
            BY <1>2, <1>4, ConcatEmptySeq DEF l, k
        <3> QED
            BY <3>1
    <2>2. /\ w \in Seq(Part) /\ Len(w) = 4
          /\ w[1] = k[1] /\ w[2] = k[2] /\ w[3] = l[1] /\ w[4] = l[2]
        <3> DEFINE v == k \o l
        <3>1. /\ v \in Seq(Part) /\ Len(v) = Len(k) + Len(l)
              /\ \A i \in 1..(Len(k) + Len(l)) :
                    v[i] = IF i <= Len(k) THEN k[i] ELSE l[i - Len(k)]
            BY <1>1, <1>2, ConcatProperties
        <3> HIDE DEF v
        <3>2. Len(v) = 4 /\ \A i \in 1..4 : v[i] = IF i <= 2 THEN k[i] ELSE l[i - 2]
            BY <1>1, <1>2, <3>1
        <3>3. v[1] = k[1] /\ v[2] = k[2] /\ v[3] = l[1] /\ v[4] = l[2]
            BY <3>2
        <3> QED
            BY <2>1, <3>1, <3>2, <3>3 DEF v
    <2>3. \A i \in DOMAIN w : i = 1 \/ i = 2 \/ i = 3 \/ i = 4
        <3> TAKE i \in DOMAIN w
        <3>1. i \in 1..4
            BY <2>2, LenProperties
        <3> QED
            BY <3>1
    <2> QED
        BY <1>1, <1>2, <2>2, <2>3 DEF EndsReply
<1> QED
    BY <1>3, <1>4 DEF k

-------------------------------------------------------------------------------
(* The steps keep the invariant.                                           *)

LEMMA InitControl == Init => ControlInv
<1> SUFFICES ASSUME Init PROVE ControlInv
    OBVIOUS
<1>1. Len(Script(role)) >= 1
    BY ControlAssumption, ThreadScript, ProbeScript DEF Init
<1>2. Len(Script(role)) \in Nat
    BY ControlAssumption, ThreadScript, ProbeScript DEF Init
<1>3. StateInv
    BY <1>1, <1>2, ControlAssumption DEF Init, StateInv
<1>4. ReplyInv
    BY DEF Init, ReplyInv, Answers, EndsReply
<1>5. OrderInv /\ AcceptedInv /\ HistoryInv
    <2>1. \A c \in Names : ~Has(c)
        BY DEF Init, Has
    <2> QED
        BY <2>1 DEF Init, OrderInv, AcceptedInv, HistoryInv, Names
<1> QED
    BY <1>3, <1>4, <1>5 DEF ControlInv

\* What was accepted, and in what order.
LEMMA SameAccepted ==
    ASSUME UNCHANGED accepted
    PROVE  /\ \A c \in Names : Has(c)' <=> Has(c)
           /\ \A a, b \in Names : Precedes(a, b)' <=> Precedes(a, b)
BY DEF Has, Precedes

LEMMA MoreAccepted ==
    ASSUME accepted \in Seq(Names), NEW c \in Names, accepted' = Append(accepted, c)
    PROVE  /\ accepted' \in Seq(Names)
           /\ \A a \in Names : Has(a)' <=> Has(a) \/ a = c
           /\ \A a, b \in Names : Precedes(a, b) => Precedes(a, b)'
           /\ \A a \in Names : Has(a) => Precedes(a, c)'
<1>1. /\ accepted' \in Seq(Names) /\ Len(accepted') = Len(accepted) + 1
      /\ \A i \in DOMAIN accepted : i \in DOMAIN accepted' /\ accepted'[i] = accepted[i]
      /\ accepted'[Len(accepted')] = c /\ Len(accepted') \in DOMAIN accepted'
      /\ \A i \in DOMAIN accepted' : i \in DOMAIN accepted \/ i = Len(accepted')
      /\ \A i \in DOMAIN accepted : i < Len(accepted')
    OBVIOUS
<1>2. \A a \in Names : Has(a)' <=> Has(a) \/ a = c
    BY <1>1 DEF Has
<1>3. \A a, b \in Names : Precedes(a, b) => Precedes(a, b)'
    BY <1>1 DEF Precedes
<1>4. \A a \in Names : Has(a) => Precedes(a, c)'
    BY <1>1 DEF Has, Precedes
<1> QED
    BY <1>1, <1>2, <1>3, <1>4

\* A step that takes no reply and makes none leaves them alone.
LEMMA SameHistory ==
    ASSUME ControlInv, UNCHANGED <<role, step, range, port, accepted>>
    PROVE  AcceptedInv' /\ HistoryInv'
<1>1. Names = {"greeting", "USER", "PASS", "SYST", "PWD", "TYPE", "SIZE", "REST", "PASV", "RETR"}
    BY DEF Names
<1>2. AcceptedInv'
    BY <1>1, SameAccepted DEF ControlInv, AcceptedInv
<1>3. HistoryInv'
    BY <1>1, SameAccepted DEF ControlInv, HistoryInv
<1> QED
    BY <1>2, <1>3

\* A step that ends the session and leaves the rest of it alone keeps the order.
LEMMA OverKeepsOrder ==
    ASSUME ControlInv, UNCHANGED <<role, step, size, range, port, accepted>>,
           \/ pc' = "died" /\ UNCHANGED <<res, data>>
           \/ pc' = "end" /\ data' = "none"
    PROVE  OrderInv'
BY DEF ControlInv, OrderInv

\* A command is written.
LEMMA SendKeeps == ControlInv /\ Send => ControlInv'
<1> SUFFICES ASSUME ControlInv, Send PROVE ControlInv'
    OBVIOUS
<1>1. /\ pc = "send" /\ UNCHANGED <<role, wire, q, link, size, range, port, accepted, faults>>
      /\ wire = <<>> /\ q = <<>> /\ Cmd \in Names
    BY Commands DEF Send, ControlInv, ReplyInv
<1>2. CASE pc' = "read" /\ asked' = TRUE /\ UNCHANGED <<step, res, data>>
    <2>1. StateInv'
        BY <1>1, <1>2 DEF ControlInv, StateInv
    <2>2. ReplyInv'
        BY <1>1, <1>2 DEF ReplyInv, Answers, EndsReply
    <2>3. OrderInv'
        BY <1>1, <1>2 DEF ControlInv, OrderInv
    <2> QED
        BY <1>1, <1>2, <2>1, <2>2, <2>3, SameHistory DEF ControlInv
<1>3. CASE After(Cmd, "WRITEFAILED", 1) /\ UNCHANGED asked
    <2>1. /\ UNCHANGED step
          /\ \/ pc' = "died" /\ UNCHANGED <<res, data>>
             \/ pc' = "end" /\ res' = "WRITEFAILED" /\ data' = "none"
        BY <1>1, <1>3, FailedEnds
    <2>2. StateInv'
        BY <1>1, <1>3, <2>1 DEF ControlInv, StateInv
    <2>3. ReplyInv'
        BY <1>1, <1>3, <2>1 DEF ReplyInv, Answers, EndsReply
    <2>4. OrderInv'
        BY <1>1, <2>1, OverKeepsOrder
    <2> QED
        BY <1>1, <2>1, <2>2, <2>3, <2>4, SameHistory DEF ControlInv
<1> QED
    BY <1>2, <1>3 DEF Send

\* More of the reply is read, with the end of a line or without.
LEMMA ReadMoreKeeps == ControlInv /\ ReadMore => ControlInv'
<1> SUFFICES ASSUME ControlInv, ReadMore PROVE ControlInv'
    OBVIOUS
<1>1. /\ pc = "read" /\ wire # <<>>
      /\ UNCHANGED <<role, asked, link, size, range, port, accepted, faults>>
      /\ wire \in Seq(Part) /\ q \in Seq(Part) /\ Cmd \in Names
    BY Commands DEF ReadMore, ControlInv, StateInv
<1>2. PICK n \in 1..Len(wire) :
          /\ q' = q \o SubSeq(wire, 1, n)
          /\ wire' = SubSeq(wire, n + 1, Len(wire))
          /\ IF Ended(q') THEN UNCHANGED <<pc, step, res, data>>
                          ELSE After(Cmd, "FTPRERR", 1)
    BY DEF ReadMore
<1>3. /\ q' \in Seq(Part) /\ wire' \in Seq(Part)
      /\ Len(q') = Len(q) + n /\ Len(wire') = Len(wire) - n
      /\ \A i \in DOMAIN q' :
            \/ i \in DOMAIN q /\ q'[i] = q[i]
            \/ i - Len(q) \in DOMAIN wire /\ i - Len(q) <= n /\ q'[i] = wire[i - Len(q)]
      /\ \A i \in DOMAIN wire' : i + n \in DOMAIN wire /\ wire'[i] = wire[i + n]
    <2> DEFINE t == q \o SubSeq(wire, 1, n)
               u == SubSeq(wire, n + 1, Len(wire))
    <2>1. /\ t \in Seq(Part) /\ u \in Seq(Part)
          /\ Len(t) = Len(q) + n /\ Len(u) = Len(wire) - n
          /\ \A i \in DOMAIN t :
                \/ i \in DOMAIN q /\ t[i] = q[i]
                \/ i - Len(q) \in DOMAIN wire /\ i - Len(q) <= n /\ t[i] = wire[i - Len(q)]
          /\ \A i \in DOMAIN u : i + n \in DOMAIN wire /\ u[i] = wire[i + n]
        BY <1>1, Moved
    <2>2. q' = t /\ wire' = u
        BY <1>2
    <2> HIDE DEF t, u
    <2> QED
        BY <2>1, <2>2
<1>4. \/ UNCHANGED <<pc, step, res, data>>
      \/ UNCHANGED step /\ pc' = "died" /\ UNCHANGED <<res, data>>
      \/ UNCHANGED step /\ pc' = "end" /\ res' = "FTPRERR" /\ data' = "none"
    BY <1>1, <1>2, FailedEnds
<1>5. step' = step /\ Cmd' = Cmd
    BY <1>1, <1>4 DEF Cmd
<1>6. StateInv'
    BY <1>1, <1>3, <1>4, <1>5 DEF ControlInv, StateInv
<1>7. ReplyInv'
    <2>1. Answers(wire)' /\ Answers(q)'
        <3>1. /\ \A i \in DOMAIN q : q[i].cmd = Cmd /\ (Accepts(Cmd, q[i].digit) => Has(Cmd))
              /\ \A i \in DOMAIN wire :
                    wire[i].cmd = Cmd /\ (Accepts(Cmd, wire[i].digit) => Has(Cmd))
            BY DEF ControlInv, ReplyInv, Answers
        <3>2. ASSUME NEW i \in DOMAIN q'
              PROVE  q'[i].cmd = Cmd /\ (Accepts(Cmd, q'[i].digit) => Has(Cmd))
            BY <1>3, <3>1
        <3>3. ASSUME NEW i \in DOMAIN wire'
              PROVE  wire'[i].cmd = Cmd /\ (Accepts(Cmd, wire'[i].digit) => Has(Cmd))
            BY <1>3, <3>1
        <3>4. Has(Cmd)' <=> Has(Cmd)
            BY <1>1, <1>5 DEF Has
        <3> QED
            BY <1>5, <3>2, <3>3, <3>4 DEF Answers
    <2>2. ~asked /\ ~asked'
        BY <1>1 DEF ControlInv, ReplyInv
    <2>3. /\ n \in Nat /\ Len(wire) \in Nat /\ Len(q) \in Nat /\ 1 <= n /\ n <= Len(wire)
          /\ \A i \in DOMAIN wire : i \in Nat /\ i <= Len(wire)
          /\ \A i \in DOMAIN wire' : i \in Nat
          /\ \A i \in DOMAIN q' : i \in Nat
        BY <1>1, <1>3
    <2>4. EndsReply(wire)'
        BY <1>3, <2>3 DEF ControlInv, ReplyInv, EndsReply
    <2>5. ASSUME NEW i \in DOMAIN q', q'[i].end, q'[i].last
          PROVE  i = Len(q') /\ wire' = <<>>
        <3>1. ~(i \in DOMAIN q /\ q'[i] = q[i])
            BY <1>1, <2>5 DEF ControlInv, ReplyInv
        <3>2. i - Len(q) \in DOMAIN wire /\ i - Len(q) <= n /\ q'[i] = wire[i - Len(q)]
            BY <1>3, <3>1
        <3>3. i - Len(q) = Len(wire)
            BY <2>5, <3>2 DEF ControlInv, ReplyInv, EndsReply
        <3>4. n = Len(wire) /\ i = Len(q') /\ Len(wire') = 0
            BY <1>3, <2>3, <3>2, <3>3
        <3> QED
            BY <1>3, <3>4, EmptySeq
    <2>6. pc' \notin {"send", "dial"}
        BY <1>1, <1>4
    <2> QED
        BY <2>1, <2>2, <2>4, <2>5, <2>6 DEF ReplyInv, EndsReply
<1>8. OrderInv'
    <2>1. CASE UNCHANGED <<pc, step, res, data>>
        BY <1>1, <2>1 DEF ControlInv, OrderInv
    <2>2. CASE ~UNCHANGED <<pc, step, res, data>>
        BY <1>1, <1>4, <1>5, <2>2, OverKeepsOrder
    <2> QED
        BY <2>1, <2>2
<1> QED
    BY <1>1, <1>5, <1>6, <1>7, <1>8, SameHistory DEF ControlInv

\* The connection ends, or the wait is interrupted.
LEMMA LostKeeps == ControlInv /\ (ReadEnd \/ Interrupted) => ControlInv'
<1> SUFFICES ASSUME ControlInv, ReadEnd \/ Interrupted PROVE ControlInv'
    OBVIOUS
<1>1. /\ UNCHANGED <<role, asked, wire, q, link, size, range, port, accepted>>
      /\ Cmd \in Names /\ faults' \in 0..MaxFaults
    BY Commands, ControlAssumption DEF ReadEnd, Interrupted, Fault, ControlInv, StateInv
<1>2. After(Cmd, "FTPRERR", 1) \/ (pc' = "died" /\ UNCHANGED <<step, res, data>>)
    BY DEF ReadEnd, Interrupted
<1>3. /\ UNCHANGED step
      /\ \/ pc' = "died" /\ UNCHANGED <<res, data>>
         \/ pc' = "end" /\ res' = "FTPRERR" /\ data' = "none"
    BY <1>1, <1>2, FailedEnds
<1>4. StateInv'
    BY <1>1, <1>3 DEF ControlInv, StateInv
<1>5. ReplyInv'
    BY <1>1, <1>3 DEF ControlInv, ReplyInv, Answers, EndsReply, Cmd, Has
<1>6. OrderInv'
    BY <1>1, <1>3, OverKeepsOrder
<1> QED
    BY <1>1, <1>3, <1>4, <1>5, <1>6, SameHistory DEF ControlInv

\* What is left of the queue when its first line is taken out.
LEMMA RestOfQueue ==
    ASSUME ControlInv, Ended(q)
    PROVE  /\ q[First] \in Part /\ q[First].end /\ q[First].cmd = Cmd
           /\ Accepts(Cmd, q[First].digit) => Has(Cmd)
           /\ Rest \in Seq(Part) /\ Answers(Rest) /\ EndsReply(Rest) /\ ~asked
           /\ (\E i \in DOMAIN Rest : Rest[i].end /\ Rest[i].last) => wire = <<>>
           /\ q[First].last => Rest = <<>> /\ wire = <<>>
<1>1. First \in 1..Len(q) /\ First \in DOMAIN q /\ q[First].end /\ q \in Seq(Part)
    BY FirstLine DEF ControlInv, StateInv
<1>2. /\ Rest \in Seq(Part) /\ Len(Rest) = Len(q) - First
      /\ \A i \in DOMAIN Rest : i + First \in DOMAIN q /\ Rest[i] = q[i + First]
    <2>1. <<>> \in Seq(Part)
        OBVIOUS
    <2> QED
        BY <1>1, <2>1, Moved DEF Rest
<1>3. /\ Answers(q) /\ EndsReply(q)
      /\ (\E i \in DOMAIN q : q[i].end /\ q[i].last) => wire = <<>>
    BY DEF ControlInv, ReplyInv
<1>4. q[First] \in Part /\ q[First].cmd = Cmd /\ (Accepts(Cmd, q[First].digit) => Has(Cmd))
    BY <1>1, <1>3 DEF Answers
<1>5. ~asked
    <2>1. q # <<>>
        BY <1>1
    <2> QED
        BY <2>1 DEF ControlInv, ReplyInv
<1>6. Answers(Rest)
    BY <1>2, <1>3 DEF Answers
<1>7. EndsReply(Rest)
    <2> SUFFICES ASSUME NEW i \in DOMAIN Rest, Rest[i].end, Rest[i].last PROVE i = Len(Rest)
        BY DEF EndsReply
    <2>1. i + First = Len(q)
        BY <1>2, <1>3 DEF EndsReply
    <2>2. i \in Nat /\ First \in Nat /\ Len(q) \in Nat
        BY <1>1, <1>2
    <2> QED
        BY <1>2, <2>1, <2>2
<1>8. (\E i \in DOMAIN Rest : Rest[i].end /\ Rest[i].last) => wire = <<>>
    BY <1>2, <1>3
<1>9. q[First].last => Rest = <<>> /\ wire = <<>>
    <2> SUFFICES ASSUME q[First].last PROVE Rest = <<>> /\ wire = <<>>
        OBVIOUS
    <2>1. First = Len(q)
        BY <1>1, <1>3 DEF EndsReply
    <2>2. Len(Rest) = 0
        BY <1>1, <1>2, <2>1
    <2> QED
        BY <1>1, <1>2, <1>3, <2>2, EmptySeq
<1> QED
    BY <1>1, <1>2, <1>4, <1>5, <1>6, <1>7, <1>8, <1>9

LEMMA SkipLineKeeps == ControlInv /\ SkipLine => ControlInv'
<1> SUFFICES ASSUME ControlInv, SkipLine PROVE ControlInv'
    OBVIOUS
<1>1. /\ UNCHANGED <<role, step, pc, asked, wire, link, res, size, range, port, data, accepted,
                   faults>>
      /\ q' = Rest /\ Ended(q) /\ pc = "read" /\ Cmd' = Cmd
    BY DEF SkipLine, Cmd
<1>2. /\ Rest \in Seq(Part) /\ Answers(Rest) /\ EndsReply(Rest) /\ ~asked
      /\ (\E i \in DOMAIN Rest : Rest[i].end /\ Rest[i].last) => wire = <<>>
    BY <1>1, RestOfQueue
<1>3. StateInv'
    BY <1>1, <1>2 DEF ControlInv, StateInv
<1>4. ReplyInv'
    BY <1>1, <1>2 DEF ControlInv, ReplyInv, Answers, EndsReply, Has
<1>5. OrderInv'
    BY <1>1 DEF ControlInv, OrderInv
<1> QED
    BY <1>1, <1>3, <1>4, <1>5, SameHistory DEF ControlInv

\* A reply is taken: the session dies, ends, or goes on with a later command.
LEMMA TakeReplyKeeps == ControlInv /\ TakeReply => ControlInv'
<1> SUFFICES ASSUME ControlInv, TakeReply PROVE ControlInv'
    OBVIOUS
<1> DEFINE d == q[First].digit
           good == q[First].good
           e == Uerr(Cmd, d, good)
           n == IF Cmd = "USER" /\ d = 2 THEN 2 ELSE 1
<1>1. /\ UNCHANGED <<role, asked, wire, link, accepted, faults>>
      /\ q' = Rest /\ Ended(q) /\ pc = "read" /\ q[First].last
    BY DEF TakeReply
<1>2. /\ Rest = <<>> /\ wire = <<>> /\ ~asked
      /\ d \in Digits /\ good \in BOOLEAN
      /\ Accepts(Cmd, d) => Has(Cmd)
    BY <1>1, RestOfQueue DEF Part
<1>3. StateInv /\ OrderInv /\ AcceptedInv /\ HistoryInv
    BY DEF ControlInv
<1>4. /\ size' \in IF Cmd = "SIZE" THEN ftp_size(d, good) ELSE {size}
      /\ range' = IF Cmd # "REST" THEN range ELSE IF e = "FTPOK" THEN "ok" ELSE "fail"
      /\ port' = IF Cmd # "PASV" THEN port ELSE IF e = "FTPOK" THEN "ok" ELSE "unset"
      /\ \/ pc' = "died" /\ UNCHANGED <<step, res, data>>
         \/ After(Cmd, e, n) /\ (role = "thread" /\ Cmd = "SIZE" => size' = "same")
    BY DEF TakeReply, Take
<1> HIDE DEF d, good, n
<1>5. /\ e \in Tolerated(Cmd) /\ Cmd \in {"greeting", "PASS", "TYPE"} => Has(Cmd)
      /\ n = 2 => Cmd = "USER" /\ Has("USER")
      /\ Cmd \in {"REST", "PASV"} /\ e = "FTPOK" => Has(Cmd)
      /\ ~Aborts(Cmd, e)
      /\ e \notin Tolerated(Cmd) =>
            e \in {"FTPRERR", "FTPSRVERR", "FTPLOGREFUSED", "FTPLOGINC", "FTPUNKNOWNTYPE"}
    BY <1>2, <1>3, Commands, Replies DEF n
<1> HIDE DEF e
<1>6. /\ n \in {1, 2} /\ (n = 2 => Cmd = "USER")
      /\ size' \in {"none", "zero", "same", "other"}
      /\ range' \in {"none", "ok", "fail"} /\ port' \in {"none", "ok", "unset"}
      /\ range' = "ok" => Has("REST") /\ (range = "ok" \/ Cmd = "REST")
      /\ port' = "ok" => Has("PASV")
    BY <1>3, <1>4, <1>5 DEF n, ftp_size, StateInv, AcceptedInv
<1>7. \/ pc' = "died" /\ UNCHANGED <<step, res, data>>
      \/ /\ pc' = "end" /\ res' = e /\ data' = "none" /\ step' = step
         /\ e \notin Tolerated(Cmd)
      \/ /\ pc' = "end" /\ res' = "FTPOK" /\ data' = data /\ step' = step
         /\ e \in Tolerated(Cmd) /\ step + n > Len(Script(role))
         /\ role = "thread" /\ Cmd = "SIZE" => size' = "same"
      \/ /\ pc' = (IF Cmd = "PASV" THEN "dial" ELSE "send") /\ res' = res /\ data' = data
         /\ step' = step + n /\ e \in Tolerated(Cmd) /\ ~(step + n > Len(Script(role)))
         /\ role = "thread" /\ Cmd = "SIZE" => size' = "same"
    BY <1>4, <1>5 DEF After
<1>8. /\ Cmd \in Names /\ step \in Nat /\ step >= 1 /\ Len(Script(role)) \in {8, 9}
      /\ role = "thread" => Len(Script(role)) = 9
      /\ step <= Len(Script(role))
    BY <1>3, Commands DEF StateInv
<1>9. StateInv'
    <2>1. step' \in 1..Len(Script(role))
        BY <1>6, <1>7, <1>8
    <2>2. pc' \in {"send", "read", "dial", "end", "died"}
        BY <1>7
    <2>3. /\ res' \in {"none", "FTPOK", "FTPRERR", "FTPSRVERR", "FTPLOGREFUSED", "FTPLOGINC",
                "FTPUNKNOWNTYPE", "WRITEFAILED"}
          /\ data' \in {"none", "server", "stray"}
        BY <1>3, <1>5, <1>7 DEF StateInv
    <2> QED
        BY <1>1, <1>2, <1>3, <1>6, <2>1, <2>2, <2>3 DEF StateInv
<1>10. ReplyInv'
    BY <1>1, <1>2 DEF ReplyInv, Answers, EndsReply
<1>11. OrderInv'
    <2>1. /\ data' # "none" => role = "thread" /\ step' = 9
          /\ pc' = "dial" => role = "thread" /\ step' = 9 /\ data' = "none"
        <3>1. data # "none" => role = "thread" /\ step = 9
            BY <1>3 DEF OrderInv
        <3>2. Cmd = "PASV" => role = "thread" /\ step = 8 /\ n = 1
            BY <1>3, <1>6, Commands
        <3>3. data' # "none" => role = "thread" /\ step' = 9
            <4>1. CASE step' = step
                BY <1>7, <3>1, <4>1
            <4>2. CASE step' # step
                <5>1. data' = data /\ step + n <= Len(Script(role))
                    BY <1>6, <1>7, <1>8, <4>2
                <5>2. data = "none"
                    BY <1>6, <1>8, <3>1, <5>1
                <5> QED
                    BY <5>1, <5>2
            <4> QED
                BY <4>1, <4>2
        <3>4. pc' = "dial" => role = "thread" /\ step' = 9 /\ data' = "none"
            <4> SUFFICES ASSUME pc' = "dial" PROVE role = "thread" /\ step' = 9 /\ data' = "none"
                OBVIOUS
            <4>1. Cmd = "PASV" /\ step' = step + n /\ data' = data
                BY <1>7
            <4> QED
                BY <3>1, <3>2, <4>1
        <3> QED
            BY <3>3, <3>4
    <2>2. pc' = "end" /\ data' # "none" => res' = "FTPOK"
        BY <1>7
    <2>3. role = "thread" /\ step' > 6 => size' = "same"
        <3> SUFFICES ASSUME role = "thread" PROVE step' > 6 => size' = "same"
            OBVIOUS
        <3>1. step > 6 => size = "same"
            BY <1>3 DEF OrderInv
        <3>2. (Cmd = "USER" <=> step = 2) /\ (Cmd = "SIZE" <=> step = 6)
            BY <1>3, Commands
        <3>3. Cmd # "SIZE" => size' = size
            BY <1>4
        <3>4. step' # step => step' = step + n /\ (step = 6 => size' = "same")
            BY <1>7, <3>2
        <3> QED
            BY <1>6, <1>8, <3>1, <3>2, <3>3, <3>4
    <2>4. data' = "server" => port' = "ok"
        <3>1. data' = "server" => data = "server"
            BY <1>7
        <3>2. data = "server" => port = "ok" /\ Cmd # "PASV"
            BY <1>3, Commands DEF OrderInv
        <3> QED
            BY <1>4, <3>1, <3>2
    <2> QED
        BY <1>1, <1>6, <2>1, <2>2, <2>3, <2>4 DEF OrderInv
<1>12. AcceptedInv'
    <2>1. ASSUME role = "thread"
          PROVE  /\ step' > 1 => Has("greeting")
                 /\ step' > 3 => Has("USER") \/ Has("PASS")
                 /\ step' > 5 => Has("TYPE")
        <3>1. /\ step > 1 => Has("greeting")
              /\ step > 3 => Has("USER") \/ Has("PASS")
              /\ step > 5 => Has("TYPE")
            BY <1>3, <2>1 DEF AcceptedInv
        <3>2. /\ Cmd = "greeting" <=> step = 1
              /\ Cmd = "USER" <=> step = 2
              /\ Cmd = "PASS" <=> step = 3
              /\ Cmd = "TYPE" <=> step = 5
            BY <1>3, <2>1, Commands
        <3>3. CASE step' = step
            BY <3>1, <3>3
        <3>4. CASE step' # step
            <4>1. /\ step' = step + n /\ e \in Tolerated(Cmd)
                  /\ n = 1 \/ (n = 2 /\ step = 2 /\ Has("USER"))
                BY <1>5, <1>6, <1>7, <3>2, <3>4
            <4>2. /\ step = 1 => Has("greeting")
                  /\ step = 3 => Has("PASS")
                  /\ step = 5 => Has("TYPE")
                BY <1>5, <3>2, <4>1
            <4> QED
                BY <1>8, <3>1, <4>1, <4>2
        <3> QED
            BY <3>3, <3>4
    <2> QED
        BY <1>1, <1>6, <2>1, SameAccepted DEF AcceptedInv, Names
<1>13. HistoryInv'
    <2>1. step' >= step
        BY <1>6, <1>7, <1>8
    <2>2. role = "thread" /\ Has("PASV") /\ range' = "ok" => range = "ok"
        <3> SUFFICES ASSUME role = "thread", Has("PASV"), range' = "ok" PROVE range = "ok"
            OBVIOUS
        <3>1. step >= 8
            BY <1>3 DEF HistoryInv
        <3>2. Cmd # "REST"
            BY <1>3, <1>8, <3>1, Commands
        <3> QED
            BY <1>6, <3>2
    <2>3. role = "thread" /\ Has("PASV") => step' >= 8
        BY <1>3, <1>6, <1>7, <1>8 DEF HistoryInv
    <2> QED
        BY <1>1, <1>3, <2>2, <2>3, SameAccepted DEF HistoryInv, Names
<1> QED
    BY <1>9, <1>10, <1>11, <1>12, <1>13 DEF ControlInv

\* The data connection is made, or cannot be.
LEMMA DialKeeps == ControlInv /\ Dial => ControlInv'
<1> SUFFICES ASSUME ControlInv, Dial PROVE ControlInv'
    OBVIOUS
<1>1. /\ UNCHANGED <<role, step, asked, wire, q, link, size, range, port, accepted>>
      /\ pc = "dial" /\ Cmd' = Cmd /\ faults' \in 0..MaxFaults
    BY ControlAssumption DEF Dial, Cmd, Fault, ControlInv, StateInv
<1>2. \/ /\ data' = IF port = "ok" THEN "server" ELSE "stray"
         /\ pc' = "send" /\ res' = res
      \/ pc' = "end" /\ res' = "FTPRERR" /\ data' = data
    BY DEF Dial
<1>3. StateInv'
    BY <1>1, <1>2 DEF ControlInv, StateInv
<1>4. ReplyInv'
    BY <1>1, <1>2 DEF ControlInv, ReplyInv, Answers, EndsReply
<1>5. OrderInv'
    BY <1>1, <1>2 DEF ControlInv, OrderInv
<1> QED
    BY <1>1, <1>3, <1>4, <1>5, SameHistory DEF ControlInv

\* The server replies.
LEMMA ReplyKeeps == ControlInv /\ Reply => ControlInv'
<1> SUFFICES ASSUME ControlInv, Reply PROVE ControlInv'
    OBVIOUS
<1>1. /\ UNCHANGED <<role, step, pc, q, link, res, size, range, port, data, faults>>
      /\ asked /\ asked' = FALSE /\ Cmd' = Cmd /\ Cmd \in Names
      /\ wire = <<>> /\ q = <<>> /\ pc \notin {"send", "dial"}
    BY Commands DEF Reply, Cmd, ControlInv, ReplyInv
<1>2. PICK d \in Digits, good \in BOOLEAN, m \in 0..MaxMore :
          /\ wire' = wire \o (IF m = 0 THEN <<>> ELSE Line(Cmd, d, good, FALSE))
                          \o Line(Cmd, d, good, TRUE)
          /\ accepted' = IF Accepts(Cmd, d) THEN Append(accepted, Cmd) ELSE accepted
    BY DEF Reply
<1>3. m \in Nat
    BY ControlAssumption
<1>4. /\ wire' \in Seq(Part)
      /\ \A i \in DOMAIN wire' : wire'[i].cmd = Cmd /\ wire'[i].digit = d
      /\ EndsReply(wire')
    <2> DEFINE more == IF m = 0 THEN <<>> ELSE Line(Cmd, d, good, FALSE)
               l == Line(Cmd, d, good, TRUE)
    <2>1. wire' = <<>> \o more \o l
        BY <1>1, <1>2
    <2>2. more = <<>> \/ more = Line(Cmd, d, good, FALSE)
        OBVIOUS
    <2> HIDE DEF more
    <2>3. ASSUME NEW w, w = <<>> \o more \o l PROVE ReplyOf(w, Cmd, d)
        BY <1>1, <2>2, <2>3, ReplyParts
    <2>4. ReplyOf(wire', Cmd, d)
        BY <2>1, <2>3
    <2> QED
        BY <2>4 DEF ReplyOf
<1> PICK c \in Names : c = Cmd
    BY <1>1
<1>5. /\ accepted' \in Seq(Names)
      /\ \A a \in Names : Has(a)' <=> Has(a) \/ (a = c /\ Accepts(c, d))
      /\ \A a, b \in Names : Precedes(a, b) => Precedes(a, b)'
      /\ Accepts(c, d) => \A a \in Names : Has(a) => Precedes(a, c)'
    <2>1. accepted \in Seq(Names)
        BY DEF ControlInv, StateInv
    <2>2. CASE Accepts(c, d)
        BY <1>1, <1>2, <2>1, <2>2, MoreAccepted
    <2>3. CASE ~Accepts(c, d)
        <3>1. accepted' = accepted
            BY <1>2, <2>3
        <3> QED
            BY <2>1, <2>3, <3>1, SameAccepted
    <2> QED
        BY <2>2, <2>3
<1>6. StateInv'
    <2>1. asked' \in BOOLEAN
        BY <1>1, Zenon
    <2>2. q' \in Seq(Part)
        BY <1>1 DEF ControlInv, StateInv
    <2> QED
        BY <1>1, <1>4, <1>5, <2>1, <2>2 DEF ControlInv, StateInv
<1>7. ReplyInv'
    <2>1. Answers(wire)'
        <3> SUFFICES ASSUME NEW i \in DOMAIN wire', Accepts(Cmd, wire'[i].digit)
                     PROVE  Has(Cmd)'
            BY <1>1, <1>4 DEF Answers
        <3>1. Accepts(c, d)
            BY <1>4
        <3> QED
            BY <1>1, <1>5, <3>1
    <2> QED
        BY <1>1, <1>4, <2>1 DEF ReplyInv, Answers, EndsReply
<1>8. OrderInv'
    BY <1>1 DEF ControlInv, OrderInv
<1>9. AcceptedInv'
    BY <1>1, <1>5 DEF ControlInv, AcceptedInv, Names
<1>10. HistoryInv'
    <2> SUFFICES ASSUME role = "thread" PROVE HistoryInv'
        BY <1>1 DEF HistoryInv
    <2>1. HistoryInv /\ AcceptedInv /\ step \in Nat
        BY Commands DEF ControlInv
    <2>2. CASE ~Accepts(c, d)
        BY <1>1, <1>5, <2>1, <2>2 DEF HistoryInv, Names
    <2>3. CASE Accepts(c, d)
        <3>1. /\ c = "USER" <=> step = 2
              /\ c = "PASS" <=> step = 3
              /\ c = "TYPE" <=> step = 5
              /\ c = "REST" <=> step = 7
              /\ c = "PASV" <=> step = 8
            BY Commands DEF ControlInv
        <3>2. /\ step > 1 => Precedes("greeting", c)'
              /\ step > 3 => Precedes("USER", c)' \/ Precedes("PASS", c)'
              /\ step > 5 => Precedes("TYPE", c)'
              /\ range = "ok" => Precedes("REST", c)'
            BY <1>5, <2>1, <2>3 DEF AcceptedInv, Names
        <3>3. /\ Has("USER") => Precedes("greeting", "USER")'
              /\ Has("PASS") => Precedes("greeting", "PASS")'
              /\ Has("TYPE") => Precedes("USER", "TYPE")' \/ Precedes("PASS", "TYPE")'
              /\ Has("REST") => Precedes("TYPE", "REST")'
              /\ Has("PASV") => step >= 8 /\ Precedes("TYPE", "PASV")'
              /\ Has("PASV") /\ range = "ok" => Precedes("REST", "PASV")'
            BY <1>5, <2>1 DEF HistoryInv, Names
        <3> QED
            BY <1>1, <1>5, <2>1, <2>3, <3>1, <3>2, <3>3 DEF HistoryInv, Names
    <2> QED
        BY <2>2, <2>3
<1> QED
    BY <1>6, <1>7, <1>8, <1>9, <1>10 DEF ControlInv

LEMMA BreakKeeps == ControlInv /\ Break => ControlInv'
<1> SUFFICES ASSUME ControlInv, Break PROVE ControlInv'
    OBVIOUS
<1>1. /\ UNCHANGED <<role, step, pc, asked, wire, q, res, size, range, port, data, accepted>>
      /\ link' \in {"up", "closed", "reset"} /\ Cmd' = Cmd /\ faults' \in 0..MaxFaults
    BY ControlAssumption DEF Break, Cmd, Fault, ControlInv, StateInv
<1> QED
    BY <1>1, SameHistory DEF ControlInv, StateInv, ReplyInv, Answers, EndsReply, OrderInv, Has

LEMMA ControlStep == ControlInv /\ [Next]_vars => ControlInv'
<1> SUFFICES ASSUME ControlInv, [Next]_vars PROVE ControlInv'
    OBVIOUS
<1>1. CASE UNCHANGED vars
    BY <1>1, SameHistory
       DEF vars, ControlInv, StateInv, ReplyInv, Answers, EndsReply, OrderInv, Cmd, Has
<1>2. CASE Next
    BY <1>2, SendKeeps, ReadMoreKeeps, LostKeeps, SkipLineKeeps, TakeReplyKeeps, DialKeeps,
       ReplyKeeps, BreakKeeps, Zenon DEF Next, Client
<1> QED
    BY <1>1, <1>2

LEMMA ControlAlways == Spec => []ControlInv
<1>1. Init => ControlInv
    BY InitControl
<1>2. ControlInv /\ [Next]_vars => ControlInv'
    BY ControlStep
<1> QED
    BY <1>1, <1>2, PTL DEF Spec

-------------------------------------------------------------------------------
(* The theorems.                                                           *)

\* The type invariant; every line under way answers a command of the session that was
\* reached (ftp.c, wftp-basic.c).
THEOREM ControlTypeCorrect == Spec => []ControlTypeOK
<1>1. ControlInv => ControlTypeOK
    <2> SUFFICES ASSUME ControlInv PROVE ControlTypeOK
        OBVIOUS
    <2>1. Cmd \in {Script(role)[j] : j \in 1..step}
        <3>1. step \in 1..step
            BY DEF ControlInv, StateInv
        <3> QED
            BY <3>1 DEF Cmd
    <2>2. \A parts \in {wire, q} : \A i \in DOMAIN parts :
             parts[i].cmd \in {Script(role)[j] : j \in 1..step}
        BY <2>1 DEF ControlInv, ReplyInv, Answers
    <2> QED
        BY <2>2 DEF ControlInv, StateInv, ControlTypeOK
<1> QED
    BY <1>1, ControlAlways, PTL

\* However TCP cuts the lines of replies, no part of one is taken for the answer to a later
\* command (fd_read_line, ftp_response).
THEOREM CommandsStayInStep == Spec => []InStep
<1>1. ControlInv => InStep
    BY DEF ControlInv, ReplyInv, Answers, InStep
<1> QED
    BY <1>1, ControlAlways, PTL

\* A data connection is handed over only when the server has accepted the greeting, then the
\* login, by USER or by PASS, then TYPE, then REST and PASV if the thread goes on as if it had
\* (get_data_connection).
THEOREM HandsOverInOrder == Spec => []HandedOverInOrder
<1>1. ControlInv => HandedOverInOrder
    <2> SUFFICES ASSUME ControlInv, pc = "end", data # "none"
                 PROVE  /\ res = "FTPOK" /\ size = "same"
                        /\ \E l \in {"USER", "PASS"} :
                              Precedes("greeting", l) /\ Precedes(l, "TYPE")
                        /\ range = "ok" => Precedes("TYPE", "REST")
                        /\ data = "server" => Precedes("TYPE", "PASV")
                        /\ range = "ok" /\ data = "server" => Precedes("REST", "PASV")
        BY DEF HandedOverInOrder
    <2>1. role = "thread" /\ step = 9 /\ res = "FTPOK" /\ size = "same"
        BY DEF ControlInv, OrderInv
    <2>2. /\ Has("TYPE")
          /\ range = "ok" => Has("REST")
          /\ data = "server" => Has("PASV")
        BY <2>1 DEF ControlInv, OrderInv, AcceptedInv
    <2>3. PICK l \in {"USER", "PASS"} : Precedes(l, "TYPE")
        BY <2>1, <2>2 DEF ControlInv, HistoryInv
    <2>4. Has(l)
        BY <2>3 DEF Has, Precedes
    <2>5. Precedes("greeting", l)
        BY <2>1, <2>3, <2>4 DEF ControlInv, HistoryInv
    <2> QED
        BY <2>1, <2>2, <2>3, <2>5 DEF ControlInv, HistoryInv
<1> QED
    BY <1>1, ControlAlways, PTL
===============================================================================
