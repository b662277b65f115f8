--------------------------- MODULE FtpRequestProofs ---------------------------
(***************************************************************************)
(* FtpRequest for every number and length of chunks, every kind of server  *)
(* and any number of runs, crashes, interrupts and broken connections.     *)
(***************************************************************************)
EXTENDS FtpRequest, FiniteSetTheorems, TLAPS

-------------------------------------------------------------------------------
(* Where the chunks lie.                                                   *)

\* A chunk lies within the file and is not empty.
LEMMA ChunkBounds ==
    ASSUME NEW c \in Chunks
    PROVE  /\ FileSize \in Nat \ {0}
           /\ First(c) \in Nat /\ Last(c) \in Nat
           /\ First(c) < Last(c) /\ Last(c) <= FileSize
           /\ Last(c) <= c * ChunkLen
<1>1. /\ Nc \in Nat \ {0} /\ ChunkLen \in Nat \ {0} /\ c \in Nat /\ 1 <= c /\ c <= Nc
      /\ FileSize \in Nat \ {0} /\ (Nc - 1) * ChunkLen < FileSize
    BY FtpAssumption DEF Chunks
<1>2. /\ (c - 1) * ChunkLen \in Nat /\ c * ChunkLen \in Nat
      /\ c * ChunkLen = (c - 1) * ChunkLen + ChunkLen
    BY <1>1
<1>3. (c - 1) * ChunkLen <= (Nc - 1) * ChunkLen
    BY <1>1
<1> QED
    BY <1>1, <1>2, <1>3 DEF First, Last

\* A chunk ends before any later one begins.
LEMMA ChunksAreApart ==
    ASSUME NEW c \in Chunks, NEW d \in Chunks, c < d
    PROVE  Last(c) <= First(d)
<1>1. ChunkLen \in Nat \ {0} /\ c \in Nat /\ d \in Nat /\ c <= d - 1
    BY FtpAssumption DEF Chunks
<1>2. c * ChunkLen <= (d - 1) * ChunkLen /\ c * ChunkLen \in Nat /\ (d - 1) * ChunkLen \in Nat
    BY <1>1
<1>3. Last(c) \in Nat /\ Last(c) <= c * ChunkLen
    BY ChunkBounds
<1> QED
    BY <1>2, <1>3 DEF First

\* What the chunks cover is what is in one of them.
LEMMA CoveredIsChunks ==
    ASSUME NEW p \in Positions
    PROVE  p \in Covered <=> \E c \in Chunks : p \in First(c)..(Last(c) - 1)
<1> DEFINE k == p \div ChunkLen
<1>1. /\ Nc \in Nat \ {0} /\ ChunkLen \in Nat \ {0} /\ FileSize \in Nat \ {0}
      /\ p \in Nat /\ p < FileSize
    BY FtpAssumption DEF Positions
<1>2. ASSUME NEW c \in Chunks, p \in First(c)..(Last(c) - 1) PROVE p \in Covered
    <2>1. c \in Nat /\ c <= Nc
        BY <1>1 DEF Chunks
    <2>2. c * ChunkLen <= Nc * ChunkLen /\ c * ChunkLen \in Nat /\ Nc * ChunkLen \in Nat
        BY <1>1, <2>1
    <2>3. p < Nc * ChunkLen
        BY <1>1, <1>2, <2>2, ChunkBounds
    <2> QED
        BY <2>3 DEF Covered
<1>3. ASSUME p \in Covered PROVE \E c \in Chunks : p \in First(c)..(Last(c) - 1)
    <2>1. p < Nc * ChunkLen
        BY <1>3 DEF Covered
    <2>2. /\ k \in Nat
          /\ k * ChunkLen <= p
          /\ p < (k + 1) * ChunkLen
        BY <1>1
    <2> HIDE DEF k
    <2>3. k < Nc
        <3>1. SUFFICES ASSUME Nc <= k PROVE FALSE
            BY <1>1, <2>2
        <3>2. Nc * ChunkLen <= k * ChunkLen
            BY <1>1, <2>2, <3>1
        <3> QED
            BY <1>1, <2>1, <2>2, <3>2
    <2>4. k + 1 \in Chunks /\ (k + 1) - 1 = k
        BY <1>1, <2>2, <2>3 DEF Chunks
    <2>5. First(k + 1) = k * ChunkLen /\ Last(k + 1) \in {(k + 1) * ChunkLen, FileSize}
        BY <2>4 DEF First, Last
    <2>6. p \in First(k + 1)..(Last(k + 1) - 1)
        <3>1. k * ChunkLen \in Nat /\ (k + 1) * ChunkLen \in Nat
            BY <1>1, <2>2
        <3> QED
            BY <1>1, <2>2, <2>5, <3>1
    <2> QED
        BY <2>4, <2>6
<1> QED
    BY <1>2, <1>3

\* At most all chunks are not complete.
LEMMA UnfinishedCount == Cardinality(Unfinished) \in 0..Nc
<1>1. IsFiniteSet(Chunks) /\ Cardinality(Chunks) = Nc
    BY FS_Interval, FtpAssumption DEF Chunks
<1>2. Unfinished \subseteq Chunks
    BY DEF Unfinished
<1>3. /\ IsFiniteSet(Unfinished)
      /\ Cardinality(Unfinished) <= Cardinality(Chunks)
    BY <1>1, <1>2, FS_Subset
<1>4. Cardinality(Unfinished) \in Nat
    BY <1>3, FS_CardinalityType
<1> QED
    BY <1>1, <1>3, <1>4, FtpAssumption

-------------------------------------------------------------------------------
(* The inductive invariant.                                                *)

Off == [c \in Chunks |-> "off"]

\* What is on the disk agrees with where the program is.
Phases ==
    /\ pc \in {"idle", "create", "probe", "start", "join", "perform", "judge", "destroy",
               "died"}
    /\ cur \in [Chunks -> Nat]
    /\ pc \in {"idle", "create", "probe", "start", "died"} =>
           thr = Off /\ grp = {} /\ j = 1
    /\ pc \in {"idle", "create", "probe", "start", "join", "died"} => ~stale
    /\ pc \in {"join", "perform", "judge"} => status = "STARTED"
    /\ pc = "probe" => status = "INIT"
    /\ pc = "start" => status # "none"
    /\ pc = "start" /\ status = "INIT" => cur = [c \in Chunks |-> First(c)]
    /\ err # "OK" => pc = "destroy" /\ status = "INIT"
    /\ status = "FINISHED" \/ done => Unfinished = {}
    /\ done => pc = "idle" /\ status = "none"

\* The next byte on a data connection is the one that the chunk needs.
Sources ==
    /\ grp \subseteq {c \in Chunks : thr[c] = "up"}
    /\ server = "rest" =>
           \A c \in Chunks : thr[c] = "up" => src[c] \in {cur[c], FileSize}
    /\ \A c \in Chunks : thr[c] \in {"off", "run"} => src[c] = FileSize

FtpInv == FtpTypeOK /\ Phases /\ Sources /\ FtpReceivedIsRight

\* The first run begins with nothing.
LEMMA FtpInitInv == Init => FtpInv
<1> SUFFICES ASSUME Init PROVE FtpInv
    OBVIOUS
<1>1. \A c \in Chunks : First(c) \in Nat /\ Last(c) \in Nat /\ First(c) <= Last(c)
    BY ChunkBounds, FtpAssumption
<1>2. FileSize \in Nat
    BY FtpAssumption
<1>3. FtpTypeOK
    <2>1. \A c \in Chunks : cur[c] \in First(c)..Last(c)
        BY <1>1 DEF Init
    <2>2. file \in [Positions -> Positions \cup {Hole}]
        BY DEF Init
    <2>3. /\ thr \in [Chunks -> {"off", "run", "up", "down"}]
          /\ src \in [Chunks -> 0..FileSize]
        BY <1>2 DEF Init
    <2>4. /\ n \in 0..Nc /\ j \in 1..(Nc + 1) /\ tries \in 0..MAX_RETRY_TIMES
          /\ runs \in 0..MaxRuns /\ faults \in 0..MaxFaults
        BY FtpAssumption DEF Init, MAX_RETRY_TIMES
    <2>5. /\ server \in Servers
          /\ status \in {"none", "INIT", "STARTED", "PAUSED", "FINISHED"}
          /\ done \in BOOLEAN /\ grp \subseteq Chunks /\ armed \subseteq Chunks
          /\ stale \in BOOLEAN
          /\ err \in {"OK", "CONN", "RES"} /\ stop \in BOOLEAN
        BY DEF Init
    <2> QED
        BY <2>1, <2>2, <2>3, <2>4, <2>5 DEF FtpTypeOK
<1>4. Phases
    BY <1>1 DEF Init, Phases, Off
<1>5. Sources
    BY DEF Init, Sources
<1>6. FtpReceivedIsRight
    BY <1>1 DEF Init, FtpReceivedIsRight
<1> QED
    BY <1>3, <1>4, <1>5, <1>6 DEF FtpInv

\* Types are kept.
LEMMA FtpTypeStep ==
    ASSUME FtpInv, [Next]_vars
    PROVE  FtpTypeOK'
<1> USE FtpAssumption DEF FtpInv, FtpTypeOK, disk, run, main
<1>0. /\ cur \in [Chunks -> Nat]
      /\ FileSize \in Nat /\ Nc \in Nat
      /\ \A c \in Chunks : /\ First(c) \in Nat /\ Last(c) \in Nat
                          /\ First(c) <= Last(c) /\ Last(c) <= FileSize
                          /\ Offset(c) \in 0..FileSize
    BY ChunkBounds DEF Phases, Offset, First
<1>1. CASE StartRun
    <2>1. /\ runs < MaxRuns /\ runs' = runs + 1 /\ tries' = 1 /\ stop' \in BOOLEAN
          /\ UNCHANGED <<server, disk, run, faults>>
        BY <1>1, Zenon DEF StartRun
    <2> QED
        BY <2>1 DEF MAX_RETRY_TIMES
<1>2. CASE DinfoCreate
    BY <1>2 DEF DinfoCreate
<1>3. CASE Probe
    BY <1>0, <1>3 DEF Probe, Fault
<1>4. CASE StartThreads
    BY <1>4, UnfinishedCount DEF StartThreads
<1>5. ASSUME NEW c \in Chunks, ThreadOpens(c) PROVE FtpTypeOK'
    BY <1>0, <1>5 DEF ThreadOpens
<1>6. ASSUME NEW c \in Chunks, ThreadFails(c) PROVE FtpTypeOK'
    BY <1>6 DEF ThreadFails, Fault
<1>7. CASE Join
    BY <1>7 DEF Join, Chunks
<1>8. CASE Perform
    BY <1>8 DEF Perform
<1>9. ASSUME NEW c \in Chunks, ReadSock(c) PROVE FtpTypeOK'
    BY <1>0, <1>9 DEF ReadSock, Serve, Positions
<1>10. ASSUME NEW c \in Chunks, ReadEnds(c) PROVE FtpTypeOK'
    BY <1>10 DEF ReadEnds, Serve
<1>11. ASSUME NEW c \in Chunks, ReadClosed(c) \/ ReadSilent(c) PROVE FtpTypeOK'
    <2>1. /\ armed' \subseteq Chunks /\ grp' \subseteq Chunks /\ stale' \in BOOLEAN
          /\ faults' \in 0..MaxFaults
        <3>1. CASE ReadClosed(c)
            <4>1. /\ armed' \subseteq Chunks /\ faults' \in 0..MaxFaults
                BY <3>1 DEF ReadClosed, Serve, Fault
            <4>2. grp' = grp \ {c} /\ stale' = TRUE
                BY <3>1 DEF ReadClosed
            <4> QED
                BY <4>1, <4>2
        <3>2. CASE ReadSilent(c)
            BY <3>2 DEF ReadSilent, Fault
        <3> QED
            BY <1>11, <3>1, <3>2
    <2>2. UNCHANGED <<server, disk, thr, n, j, src, err, main>>
        BY <1>11 DEF ReadClosed, ReadSilent
    <2> QED
        BY <2>1, <2>2
<1>n. ASSUME NoThreads
      PROVE  /\ thr' \in [Chunks -> {"off", "run", "up", "down"}]
             /\ n' \in 0..Nc /\ j' \in 1..(Nc + 1)
             /\ grp' \subseteq Chunks /\ armed' \subseteq Chunks /\ stale' \in BOOLEAN
             /\ src' \in [Chunks -> 0..FileSize] /\ err' \in {"OK", "CONN", "RES"}
    <2>1. n' = 0 /\ j' = 1 /\ grp' = {} /\ armed' = {} /\ stale' = FALSE /\ err' = "OK"
        BY <1>n DEF NoThreads
    <2>2. thr' \in [Chunks -> {"off", "run", "up", "down"}] /\ src' \in [Chunks -> 0..FileSize]
        BY <1>0, <1>n DEF NoThreads
    <2>3. n' \in 0..Nc /\ j' \in 1..(Nc + 1)
        BY <1>0, <2>1
    <2>4. grp' \subseteq Chunks /\ armed' \subseteq Chunks /\ stale' \in BOOLEAN
        BY <2>1
    <2>5. err' \in {"OK", "CONN", "RES"}
        BY <2>1
    <2> QED
        BY <2>2, <2>3, <2>4, <2>5
<1>11a. ASSUME NEW c \in Chunks, ReadAborts(c) \/ NullWrite(c) \/ ThreadAborts(c)
        PROVE  FtpTypeOK'
    <2>1. NoThreads /\ UNCHANGED <<server, disk, main>> /\ faults' \in 0..MaxFaults
        BY <1>11a DEF ReadAborts, NullWrite, ThreadAborts, Die, Fault
    <2> QED
        BY <1>n, <2>1
<1>11b. CASE Reap
    BY <1>11b DEF Reap, MAX_RETRY_TIMES
<1>12. CASE PerformReturns
    BY <1>12 DEF PerformReturns
<1>13. CASE Judge
    BY <1>13 DEF Judge
<1>14. CASE DinfoDestroy
    <2>1. /\ status' \in {"none", "INIT", "STARTED", "PAUSED", "FINISHED"}
          /\ done' \in BOOLEAN /\ tries' \in 0..MAX_RETRY_TIMES
        BY <1>14 DEF DinfoDestroy, MAX_RETRY_TIMES
    <2> QED
        BY <1>n, <1>14, <2>1 DEF DinfoDestroy
<1>15. CASE Interrupt
    BY <1>15 DEF Interrupt, Fault
<1>16. CASE Crash
    <2>1. tries' \in 0..MAX_RETRY_TIMES /\ faults' \in 0..MaxFaults
        BY <1>16 DEF Crash, Fault, MAX_RETRY_TIMES
    <2> QED
        BY <1>n, <1>16, <2>1 DEF Crash
<1>17. CASE UNCHANGED vars
    BY <1>17 DEF vars
<1> QED
    BY <1>1, <1>2, <1>3, <1>4, <1>5, <1>6, <1>7, <1>8, <1>9, <1>10, <1>11, <1>11a, <1>11b,
       <1>12, <1>13, <1>14, <1>15, <1>16, <1>17 DEF Next, Step

\* Phases are kept.
LEMMA FtpPhaseStep ==
    ASSUME FtpInv, [Next]_vars
    PROVE  Phases'
<1> USE DEF FtpInv, FtpTypeOK, Phases, disk, run, main, Goto
<1>0. \A c \in Chunks : First(c) \in Nat /\ Last(c) \in Nat
    BY ChunkBounds
<1>1. CASE StartRun
    <2>1. /\ pc = "idle" /\ ~done /\ pc' = "create"
          /\ UNCHANGED <<server, disk, run, faults>>
        BY <1>1, Zenon DEF StartRun
    <2> QED
        BY <2>1 DEF Unfinished
<1>2. CASE DinfoCreate
    BY <1>2 DEF DinfoCreate, Ready, Unfinished
<1>3. CASE Probe
    BY <1>0, <1>3 DEF Probe, Fault, Unfinished
<1>4. CASE StartThreads
    BY <1>4 DEF StartThreads, Unfinished
<1>5. ASSUME NEW c \in Chunks, ThreadOpens(c) PROVE Phases'
    BY <1>5 DEF ThreadOpens, Unfinished, Off
<1>6. ASSUME NEW c \in Chunks, ThreadFails(c) PROVE Phases'
    BY <1>6 DEF ThreadFails, Fault, Unfinished, Off
<1>7. CASE Join
    BY <1>7 DEF Join, Unfinished
<1>8. CASE Perform
    BY <1>8 DEF Perform, Unfinished
<1>9. ASSUME NEW c \in Chunks, ReadSock(c) PROVE Phases'
    BY <1>0, <1>9 DEF ReadSock, Serve
<1>10. ASSUME NEW c \in Chunks, ReadEnds(c) PROVE Phases'
    BY <1>10 DEF ReadEnds, Serve, Unfinished
<1>11. ASSUME NEW c \in Chunks, ReadClosed(c) \/ ReadSilent(c) PROVE Phases'
    BY <1>11 DEF ReadClosed, ReadSilent, Serve, Fault, Unfinished
<1>11a. ASSUME NEW c \in Chunks, ReadAborts(c) \/ NullWrite(c) \/ ThreadAborts(c)
        PROVE  Phases'
    BY <1>11a DEF ReadAborts, NullWrite, ThreadAborts, Die, NoThreads, Fault, Unfinished, Off
<1>11b. CASE Reap
    BY <1>11b DEF Reap, Unfinished
<1>12. CASE PerformReturns
    BY <1>12 DEF PerformReturns, Unfinished
<1>13. CASE Judge
    BY <1>13 DEF Judge, Unfinished
<1>14. CASE DinfoDestroy
    BY <1>14 DEF DinfoDestroy, NoThreads, Unfinished, Off
<1>15. CASE Interrupt
    BY <1>15 DEF Interrupt, Fault, Unfinished
<1>16. CASE Crash
    BY <1>16 DEF Crash, Fault, NoThreads, Unfinished, Off
<1>17. CASE UNCHANGED vars
    BY <1>17 DEF vars, Unfinished
<1> QED
    BY <1>1, <1>2, <1>3, <1>4, <1>5, <1>6, <1>7, <1>8, <1>9, <1>10, <1>11, <1>11a, <1>11b,
       <1>12, <1>13, <1>14, <1>15, <1>16, <1>17 DEF Next, Step

\* The next byte stays the right one.
LEMMA FtpSourceStep ==
    ASSUME FtpInv, [Next]_vars
    PROVE  Sources'
<1> USE DEF FtpInv, FtpTypeOK, Phases, Sources, disk, run, main, Goto
<1>0. \A c \in Chunks : First(c) \in Nat /\ Offset(c) = cur[c]
    BY ChunkBounds DEF Offset, First
<1>1. CASE StartRun
    <2>1. UNCHANGED <<server, disk, run>>
        BY <1>1, Zenon DEF StartRun
    <2> QED
        BY <2>1
<1>2. CASE DinfoCreate
    BY <1>2 DEF DinfoCreate
<1>3. CASE Probe
    BY <1>3 DEF Probe, Off
<1>4. CASE StartThreads
    BY <1>4 DEF StartThreads, Off
<1>5. ASSUME NEW c \in Chunks, ThreadOpens(c) PROVE Sources'
    BY <1>0, <1>5 DEF ThreadOpens
<1>6. ASSUME NEW c \in Chunks, ThreadFails(c) PROVE Sources'
    BY <1>6 DEF ThreadFails
<1>7. CASE Join
    BY <1>7, FtpAssumption DEF Join, Chunks
<1>8. CASE Perform
    BY <1>8 DEF Perform
<1>9. ASSUME NEW c \in Chunks, ReadSock(c) PROVE Sources'
    BY <1>9 DEF ReadSock, Serve
<1>10. ASSUME NEW c \in Chunks, ReadEnds(c) PROVE Sources'
    BY <1>10 DEF ReadEnds, Serve
<1>11. ASSUME NEW c \in Chunks, ReadClosed(c) \/ ReadSilent(c) PROVE Sources'
    BY <1>11 DEF ReadClosed, ReadSilent, Serve
<1>11a. ASSUME NEW c \in Chunks, ReadAborts(c) \/ NullWrite(c) \/ ThreadAborts(c)
        PROVE  Sources'
    BY <1>11a DEF ReadAborts, NullWrite, ThreadAborts, Die, NoThreads
<1>11b. CASE Reap
    BY <1>11b DEF Reap
<1>12. CASE PerformReturns
    BY <1>12 DEF PerformReturns
<1>13. CASE Judge
    BY <1>13 DEF Judge
<1>14. CASE DinfoDestroy
    BY <1>14 DEF DinfoDestroy, NoThreads
<1>15. CASE Interrupt
    BY <1>15 DEF Interrupt
<1>16. CASE Crash
    BY <1>16 DEF Crash, NoThreads
<1>17. CASE UNCHANGED vars
    BY <1>17 DEF vars
<1> QED
    BY <1>1, <1>2, <1>3, <1>4, <1>5, <1>6, <1>7, <1>8, <1>9, <1>10, <1>11, <1>11a, <1>11b,
       <1>12, <1>13, <1>14, <1>15, <1>16, <1>17 DEF Next, Step

\* What is received stays right.
LEMMA FtpReceivedStep ==
    ASSUME FtpInv, [Next]_vars
    PROVE  FtpReceivedIsRight'
<1> USE DEF FtpInv, FtpReceivedIsRight, disk
<1>1. ASSUME UNCHANGED <<server, cur, file>> PROVE FtpReceivedIsRight'
    BY <1>1
<1>2. CASE Probe
    <2>1. \A c \in Chunks : First(c) \in Nat
        BY ChunkBounds
    <2> QED
        BY <1>2, <2>1 DEF Probe
<1>3. ASSUME NEW c \in Chunks, ReadSock(c) PROVE FtpReceivedIsRight'
    <2>1. /\ server' = server
          /\ c \in grp /\ cur[c] < Last(c) /\ src[c] < FileSize
          /\ cur' = [cur EXCEPT ![c] = @ + 1]
          /\ file' = [file EXCEPT ![cur[c]] = src[c]]
        BY <1>3 DEF ReadSock, Serve
    <2>2. /\ cur \in [Chunks -> Nat]
          /\ cur[c] >= First(c) /\ file \in [Positions -> Positions \cup {Hole}]
          /\ \A d \in Chunks : First(d) \in Nat /\ Last(d) \in Nat /\ cur[d] <= Last(d)
          /\ FileSize \in Nat
        BY ChunkBounds DEF FtpTypeOK, Phases
    <2>3. SUFFICES ASSUME server = "rest", NEW d \in Chunks,
                          NEW p \in First(d)..(cur'[d] - 1)
                   PROVE  file'[p] = p
        BY <2>1
    <2>4. src[c] = cur[c]
        BY <2>1, <2>2, <2>3 DEF Sources
    <2>5. cur[c] \in Positions
        BY <2>1, <2>2, ChunkBounds DEF Positions
    <2>6. CASE p = cur[c]
        BY <2>1, <2>2, <2>4, <2>5, <2>6
    <2>7. CASE p # cur[c]
        <3>1. p \in First(d)..(cur[d] - 1)
            BY <2>1, <2>2, <2>3, <2>7
        <3>2. file[p] = p
            BY <2>3, <3>1
        <3> QED
            BY <2>1, <2>2, <2>7, <3>2
    <2> QED
        BY <2>6, <2>7
<1>4. CASE UNCHANGED vars
    BY <1>4 DEF vars
<1>5. CASE StartRun
    <2>1. UNCHANGED <<server, disk>>
        BY <1>5, Zenon DEF StartRun
    <2> QED
        BY <1>1, <2>1
<1> QED
    BY <1>1, <1>2, <1>3, <1>4, <1>5
       DEF Next, Step, DinfoCreate, StartThreads, ThreadOpens, ThreadFails, ThreadAborts,
           Join, Perform, ReadEnds, ReadClosed, ReadSilent, ReadAborts, NullWrite,
           PerformReturns, Judge, DinfoDestroy, Reap, Interrupt, Crash

\* The invariant is inductive.
LEMMA FtpInvStep == FtpInv /\ [Next]_vars => FtpInv'
BY FtpTypeStep, FtpPhaseStep, FtpSourceStep, FtpReceivedStep DEF FtpInv

\* It holds in every state.
LEMMA FtpInvariance == Spec => []FtpInv
BY FtpInitInv, FtpInvStep, PTL DEF Spec

-------------------------------------------------------------------------------
(* The theorems.                                                           *)

\* Every value stays in its range: cur_pos between the ends of its chunk, the join loop
\* within the array of parameters.
THEOREM FtpTypeCorrect == Spec => []FtpTypeOK
BY FtpInvariance, PTL DEF FtpInv

\* Whatever is counted as received from a server that honours REST is right, over any
\* number of runs, crashes and failed threads.
THEOREM FtpReceivesRight == Spec => []FtpReceivedIsRight
BY FtpInvariance, PTL DEF FtpInv

-------------------------------------------------------------------------------
(* The refinement: a download over FTP is a Download.                      *)

\* The positions that Download counts as fetched.
Got == {p \in IF done THEN Covered ELSE Claimed : server = "rest" /\ file[p] = p}

\* The metadata claims what the chunks cover, and no more.
LEMMA ClaimedIsCovered == FtpInv => Claimed \subseteq Covered
<1> SUFFICES ASSUME FtpInv, NEW p \in Claimed PROVE p \in Covered
    OBVIOUS
<1>1. PICK c \in Chunks : p \in First(c)..(cur[c] - 1)
    BY DEF Claimed
<1>2. p \in Positions /\ p \in First(c)..(Last(c) - 1)
    BY <1>1, ChunkBounds DEF Claimed, FtpInv, FtpTypeOK
<1> QED
    BY <1>2, CoveredIsChunks

\* What the metadata claims is what Download has got.
GotIsClaimed ==
    Got = IF server # "rest" THEN {} ELSE IF done THEN Covered ELSE Claimed

\* It is so because what is received is right, and a finished download complete.
LEMMA ClaimedIsGot == FtpInv => GotIsClaimed
<1> SUFFICES ASSUME FtpInv PROVE GotIsClaimed
    OBVIOUS
<1> USE DEF GotIsClaimed
<1>1. CASE server # "rest"
    BY <1>1 DEF Got
<1>2. CASE server = "rest" /\ ~done
    BY <1>2 DEF Got, Claimed, FtpInv, FtpReceivedIsRight
<1>3. CASE server = "rest" /\ done
    <2>1. ASSUME NEW p \in Covered PROVE file[p] = p
        <3>1. PICK c \in Chunks : p \in First(c)..(Last(c) - 1)
            BY CoveredIsChunks DEF Covered
        <3>2. cur[c] = Last(c)
            BY <1>3, ChunkBounds DEF FtpInv, FtpTypeOK, Phases, Unfinished
        <3> QED
            BY <1>3, <3>1, <3>2 DEF FtpInv, FtpReceivedIsRight
    <2> QED
        BY <1>3, <2>1 DEF Got
<1> QED
    BY <1>1, <1>2, <1>3

\* A finished download stands still.
LEMMA DoneIsForGood ==
    ASSUME FtpInv, done, [Next]_vars
    PROVE  UNCHANGED <<server, disk>>
<1>1. pc = "idle" /\ thr = [c \in Chunks |-> "off"] /\ grp = {}
    BY DEF FtpInv, Phases, Off
<1>2. ~StartRun
    BY Zenon DEF StartRun
<1> QED
    BY <1>1, <1>2
       DEF Next, Step, DinfoCreate, Probe, StartThreads, ThreadOpens, ThreadFails,
           ThreadAborts, Join, Perform, Serve, ReadSock, ReadEnds, ReadClosed, ReadSilent,
           ReadAborts, NullWrite, PerformReturns, Judge, DinfoDestroy, Reap, Interrupt,
           Crash, vars

\* A store into the file fetches the position at the cur_pos of its chunk.
LEMMA StoreFetches ==
    ASSUME FtpInv, NEW c \in Chunks, ReadSock(c)
    PROVE  /\ cur[c] \in Covered \ Claimed
           /\ Claimed' = Claimed \cup {cur[c]}
<1>1. /\ pc = "perform" /\ status' = status /\ cur[c] < Last(c)
      /\ cur' = [cur EXCEPT ![c] = @ + 1]
    BY DEF ReadSock, Serve, disk
<1>2. Ready /\ Ready'
    BY <1>1 DEF FtpInv, Phases, Ready
<1>3. /\ cur \in [Chunks -> Nat]
      /\ \A d \in Chunks : cur[d] >= First(d) /\ cur[d] <= Last(d)
      /\ \A d \in Chunks : First(d) \in Nat /\ Last(d) \in Nat /\ Last(d) <= FileSize
      /\ FileSize \in Nat
    BY ChunkBounds DEF FtpInv, Phases, FtpTypeOK
<1>4. cur[c] \in Positions /\ cur[c] \in Covered
    <2>1. cur[c] \in Positions /\ cur[c] \in First(c)..(Last(c) - 1)
        BY <1>1, <1>3 DEF Positions
    <2> QED
        BY <2>1, CoveredIsChunks
<1>5. ASSUME NEW d \in Chunks, cur[c] \in First(d)..(cur[d] - 1) PROVE FALSE
    <2>1. CASE d < c
        BY <1>3, <1>5, <2>1, ChunksAreApart
    <2>2. CASE c < d
        BY <1>1, <1>3, <1>5, <2>2, ChunksAreApart
    <2>3. CASE c = d
        BY <1>3, <1>5, <2>3
    <2> QED
        BY <2>1, <2>2, <2>3, FtpAssumption DEF Chunks
<1>6. \A d \in Chunks : \A p \in Positions :
          p \in First(d)..(cur'[d] - 1) <=>
              p \in First(d)..(cur[d] - 1) \/ (d = c /\ p = cur[c])
    BY <1>1, <1>3 DEF Positions
<1>7. Claimed' = Claimed \cup {cur[c]}
    <2>1. \A p \in Positions :
              (\E d \in Chunks : p \in First(d)..(cur'[d] - 1)) <=>
                  (\E d \in Chunks : p \in First(d)..(cur[d] - 1)) \/ p = cur[c]
        BY <1>6, Zenon
    <2> QED
        BY <1>2, <1>4, <2>1, Zenon DEF Claimed
<1> QED
    BY <1>4, <1>5, <1>7 DEF Claimed

\* No other step of a download that goes on changes what is claimed.
LEMMA OthersKeepClaimed ==
    ASSUME FtpInv, [Next]_vars, ~done', \A c \in Chunks : ~ReadSock(c)
    PROVE  Claimed' = Claimed
<1> USE DEF FtpInv, FtpTypeOK, Phases, disk, Goto
<1>1. ASSUME UNCHANGED <<status, cur>> PROVE Claimed' = Claimed
    BY <1>1 DEF Claimed, Ready
<1>2. ASSUME ~Ready, ~Ready' PROVE Claimed' = Claimed
    BY <1>2 DEF Claimed
<1>3. CASE DinfoCreate
    <2>1. CASE status = "none"
        BY <1>2, <1>3, <2>1 DEF DinfoCreate, Ready
    <2>2. CASE status # "none"
        BY <1>1, <1>3, <2>2 DEF DinfoCreate
    <2> QED
        BY <2>1, <2>2
<1>4. CASE Probe
    BY <1>2, <1>4 DEF Probe, Ready
<1>5. CASE StartThreads
    <2>1. CASE status = "INIT"
        <3>1. \A c \in Chunks : cur'[c] = First(c) /\ First(c) \in Nat
            BY <1>5, <2>1, ChunkBounds DEF StartThreads
        <3>2. Claimed' = {}
            BY <3>1 DEF Claimed
        <3> QED
            BY <2>1, <3>2 DEF Claimed, Ready
    <2>2. CASE status # "INIT"
        BY <1>5, <2>2 DEF StartThreads, Claimed, Ready
    <2> QED
        BY <2>1, <2>2
<1>6. CASE Judge
    BY <1>6 DEF Judge, Claimed, Ready
<1>7. CASE DinfoDestroy
    BY <1>1, <1>7 DEF DinfoDestroy
<1>8. CASE StartRun
    BY <1>1, <1>8, Zenon DEF StartRun
<1>9. CASE UNCHANGED vars
    BY <1>1, <1>9 DEF vars
<1> QED
    BY <1>1, <1>3, <1>4, <1>5, <1>6, <1>7, <1>8, <1>9
       DEF Next, Step, ThreadOpens, ThreadFails, ThreadAborts, Join, Perform, ReadEnds,
           ReadClosed, ReadSilent, ReadAborts, NullWrite, PerformReturns, Reap, Interrupt,
           Crash

\* A download is reported finished in one place, and is complete there.
LEMMA FinishIsComplete ==
    ASSUME FtpInv, [Next]_vars, ~done, done'
    PROVE  Claimed = Covered
<1>1. pc = "destroy" /\ status = "FINISHED"
    <2>1. ~StartRun
        BY Zenon DEF StartRun, disk
    <2> QED
        BY <2>1
           DEF Next, Step, DinfoCreate, Probe, StartThreads, ThreadOpens, ThreadFails,
               ThreadAborts, Join, Perform, ReadSock, ReadEnds, ReadClosed, ReadSilent,
               ReadAborts, NullWrite, PerformReturns, Judge, DinfoDestroy, Reap,
               Interrupt, Crash, vars, disk
<1>2. ASSUME NEW p \in Covered PROVE p \in Claimed
    <2>1. PICK c \in Chunks : p \in First(c)..(Last(c) - 1)
        BY <1>2, CoveredIsChunks DEF Covered
    <2>2. cur[c] = Last(c)
        BY <1>1, ChunkBounds DEF FtpInv, FtpTypeOK, Phases, Unfinished
    <2> QED
        BY <1>1, <2>1, <2>2 DEF Claimed, Covered, Ready
<1> QED
    BY <1>2, ClaimedIsCovered

\* Every step is a step of Download or leaves it alone.
LEMMA FtpStepIsDownload ==
    ASSUME FtpInv, FtpInv', GotIsClaimed, GotIsClaimed', [Next]_vars
    PROVE  [D!DownloadNext]_(D!downloadVars)
<1> DEFINE over == server = "rest" /\ done
<1>1. server' = server
    <2>1. CASE StartRun
        BY <2>1, Zenon DEF StartRun
    <2> QED
        BY <2>1
           DEF Next, Step, DinfoCreate, Probe, StartThreads, ThreadOpens, ThreadFails,
               ThreadAborts, Join, Perform, ReadSock, ReadEnds, ReadClosed, ReadSilent,
               ReadAborts, NullWrite, PerformReturns, Judge, DinfoDestroy, Reap,
               Interrupt, Crash, vars
<1>2. /\ Got = IF server # "rest" THEN {} ELSE IF done THEN Covered ELSE Claimed
      /\ Got' = IF server # "rest" THEN {} ELSE IF done' THEN Covered ELSE Claimed'
    BY <1>1 DEF GotIsClaimed
<1>3. ASSUME Got' = Got, over' = over PROVE UNCHANGED D!downloadVars
    BY <1>3 DEF D!downloadVars, Got
<1>4. CASE server # "rest"
    BY <1>1, <1>2, <1>3, <1>4
<1>5. CASE server = "rest" /\ done
    <2>1. done' = done
        BY <1>5, DoneIsForGood DEF disk
    <2> QED
        BY <1>1, <1>2, <1>3, <1>5, <2>1
<1>6. CASE server = "rest" /\ ~done /\ done'
    <2>1. Got = Covered /\ Got' = Covered /\ ~over /\ over'
        BY <1>1, <1>2, <1>6, FinishIsComplete
    <2>2. D!Finish
        BY <2>1 DEF D!Finish, Got
    <2> QED
        BY <2>2 DEF D!DownloadNext
<1>7. CASE server = "rest" /\ ~done /\ ~done'
    <2>1. ~over /\ over' = over /\ Got = Claimed /\ Got' = Claimed'
        BY <1>1, <1>2, <1>7
    <2>2. ASSUME NEW c \in Chunks, ReadSock(c) PROVE D!Fetch
        <3>1. cur[c] \in Covered \ Got /\ Got' = Got \cup {cur[c]}
            BY <2>1, <2>2, StoreFetches
        <3> QED
            BY <2>1, <3>1 DEF D!Fetch, Got
    <2>3. CASE \A c \in Chunks : ~ReadSock(c)
        BY <1>3, <1>7, <2>1, <2>3, OthersKeepClaimed
    <2> QED
        BY <2>2, <2>3 DEF D!DownloadNext
<1> QED
    BY <1>4, <1>5, <1>6, <1>7

\* FTP keeps the promise of Download: nothing that was fetched is lost or wrong, and
\* only a file with all its chunks is reported finished, whatever happens on the way.
THEOREM FtpImplementsDownload == Spec => FtpKeepsPromise
<1>1. Init => D!DownloadInit
    <2>1. ASSUME Init PROVE Got = {} /\ ~done
        BY <2>1 DEF Init, Got, Claimed, Ready
    <2> QED
        BY <2>1 DEF D!DownloadInit, Got
<1>2. FtpInv /\ FtpInv' /\ GotIsClaimed /\ GotIsClaimed' /\ [Next]_vars
          => [D!DownloadNext]_(D!downloadVars)
    BY FtpStepIsDownload
<1>3. FtpInv => GotIsClaimed
    BY ClaimedIsGot
<1> QED
    BY <1>1, <1>2, <1>3, FtpInvariance, PTL DEF Spec, FtpKeepsPromise, D!DownloadSpec

-------------------------------------------------------------------------------
(* A run that begins with no chunk complete, that nothing disturbs and that *)
(* does not die of itself.                                                 *)

\* Then there is a thread for each chunk, the join loop meets them all, and each data
\* connection brings its chunk to the end.
Undisturbed ==
    whole /\ clean /\ lived /\ server = "rest" =>
        /\ pc # "idle" => ~stop
        /\ pc \in {"create", "probe", "start", "join"} => Unfinished = Chunks
        /\ pc = "join" =>
               /\ n = Nc /\ grp = 1..(j - 1)
               /\ \A c \in Chunks : thr[c] \in {"run", "up"}
        /\ pc \in {"join", "perform"} =>
               \A c \in Chunks : thr[c] = "up" => src[c] = cur[c]
        /\ pc = "perform" =>
               \A c \in Chunks : thr[c] = "up" /\ (c \in grp \/ cur[c] = Last(c))
        /\ pc = "judge" => Unfinished = {}
        /\ pc = "destroy" => status = "FINISHED"
        /\ pc = "idle" /\ runs > 0 => done
        /\ pc = "perform" => ~stale

\* Each step keeps it so.
LEMMA UndisturbedStep ==
    ASSUME FtpInv, Undisturbed, [Next]_vars
    PROVE  Undisturbed'
<1> USE DEF Undisturbed, FtpInv, FtpTypeOK, Phases, disk, run, main, Goto
<1>0. /\ Nc \in Nat \ {0} /\ 1 \in Chunks /\ FileSize \in Nat
      /\ \A c \in Chunks : /\ First(c) \in Nat /\ Last(c) \in Nat
                          /\ First(c) < Last(c) /\ Last(c) <= FileSize
                          /\ Offset(c) = cur[c]
    BY ChunkBounds, FtpAssumption DEF Chunks, Offset, First
<1>1. CASE StartRun
    <2>1. /\ pc' = "create" /\ stop' = FALSE /\ whole' = (Unfinished = Chunks)
          /\ UNCHANGED <<server, disk, run, faults>>
        BY <1>1, Zenon DEF StartRun
    <2>2. whole' => Unfinished' = Chunks
        BY <2>1 DEF Unfinished
    <2>3. ~stop'
        BY <2>1
    <2> QED
        BY <2>1, <2>2, <2>3
<1>2. CASE DinfoCreate
    BY <1>2 DEF DinfoCreate, Unfinished
<1>3. CASE Probe
    BY <1>0, <1>3 DEF Probe, Fault, Unfinished
<1>4. CASE StartThreads
    <2>1. Unfinished = Chunks => Cardinality(Unfinished) = Nc
        BY FS_Interval, <1>0 DEF Chunks
    <2>2. Unfinished' = Unfinished
        BY <1>4 DEF StartThreads, Unfinished
    <2>3. j = 1 => 1..(j - 1) = {}
        OBVIOUS
    <2> QED
        BY <1>0, <1>4, <2>1, <2>2, <2>3 DEF StartThreads, Off
<1>5. ASSUME NEW c \in Chunks, ThreadOpens(c) PROVE Undisturbed'
    BY <1>0, <1>5 DEF ThreadOpens, Unfinished
<1>6. ASSUME NEW c \in Chunks, ThreadFails(c) PROVE Undisturbed'
    BY <1>6 DEF ThreadFails, Fault
<1>7. CASE Join
    <2>1. /\ pc = "join" /\ j <= n /\ j \in Chunks /\ thr[j] # "run" /\ j' = j + 1
          /\ grp' = IF thr[j] = "up" THEN grp \cup {j} ELSE grp
          /\ UNCHANGED <<server, disk, pc, thr, n, src, err, main, clean, faults>>
        BY <1>0, <1>7 DEF Join, Chunks
    <2>2. 1..(j' - 1) = (1..(j - 1)) \cup {j}
        BY <2>1 DEF Chunks
    <2>3. Unfinished' = Unfinished
        BY <2>1 DEF Unfinished
    <2> QED
        BY <2>1, <2>2, <2>3
<1>8. CASE Perform
    <2>1. /\ pc = "join" /\ j > n /\ pc' = "perform"
          /\ UNCHANGED <<server, disk, run, main, clean, faults>>
        BY <1>8 DEF Perform
    <2>2. n = Nc => 1..(j - 1) = Chunks
        BY <1>0, <2>1 DEF Chunks
    <2> QED
        BY <2>1, <2>2 DEF Sources
<1>9. ASSUME NEW c \in Chunks, ReadSock(c) PROVE Undisturbed'
    BY <1>0, <1>9 DEF ReadSock, Serve, Sources
<1>10. ASSUME NEW c \in Chunks, ReadEnds(c) PROVE Undisturbed'
    BY <1>0, <1>10 DEF ReadEnds, Serve, Sources
<1>11. ASSUME NEW c \in Chunks, ReadClosed(c) \/ ReadSilent(c) PROVE Undisturbed'
    BY <1>11 DEF ReadClosed, ReadSilent, Fault
<1>11a. ASSUME NEW c \in Chunks, ReadAborts(c) \/ NullWrite(c) \/ ThreadAborts(c)
        PROVE  Undisturbed'
    <2>1. pc' = "died" /\ UNCHANGED <<server, main>> /\ (clean' => clean)
        <3>1. CASE ReadAborts(c)
            BY <3>1 DEF ReadAborts, Die, Fault
        <3>2. CASE NullWrite(c) \/ ThreadAborts(c)
            BY <3>2 DEF NullWrite, ThreadAborts, Die
        <3> QED
            BY <1>11a, <3>1, <3>2
    <2>2. pc # "idle"
        <3>1. thr[c] = "run" => pc # "idle"
            BY DEF Off
        <3> QED
            BY <1>11a, <3>1 DEF ReadAborts, NullWrite, ThreadAborts
    <2> QED
        BY <2>1, <2>2
<1>11b. CASE Reap
    BY <1>11b DEF Reap
<1>12. CASE PerformReturns
    BY <1>0, <1>12 DEF PerformReturns, Unfinished
<1>13. CASE Judge
    BY <1>13 DEF Judge, Unfinished
<1>14. CASE DinfoDestroy
    BY <1>14 DEF DinfoDestroy
<1>15. CASE Interrupt
    BY <1>15 DEF Interrupt, Fault
<1>16. CASE Crash
    BY <1>16 DEF Crash, Fault
<1>17. CASE UNCHANGED vars
    BY <1>17 DEF vars, Unfinished
<1> QED
    BY <1>1, <1>2, <1>3, <1>4, <1>5, <1>6, <1>7, <1>8, <1>9, <1>10, <1>11, <1>11a, <1>11b,
       <1>12, <1>13, <1>14, <1>15, <1>16, <1>17 DEF Next, Step

\* A run that begins with no chunk complete, against a server that honours REST, and that
\* nothing disturbs from outside, dies of itself or finishes the download: for as many
\* chunks as there may be, no thread is left out by the join loop.
THEOREM WholeRunsComplete == Spec => []WholeRunCompletes
<1>1. Init => Undisturbed
    BY DEF Init, Undisturbed
<1>2. FtpInv /\ Undisturbed /\ [Next]_vars => Undisturbed'
    BY UndisturbedStep
<1>3. Undisturbed => WholeRunCompletes
    BY DEF Undisturbed, WholeRunCompletes
<1> QED
    BY <1>1, <1>2, <1>3, FtpInvariance, PTL DEF Spec
===============================================================================
