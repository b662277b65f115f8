-------------------------- MODULE HttpPerformProofs --------------------------
(***************************************************************************)
(* First SelectLoop, for every number of connections, every TIME_OUT and   *)
(* both types of group.  Then HttpPerform: it implements SelectLoop, for   *)
(* every number of connections, chunk length, behaviour of the server and  *)
(* way for a connection to break; and what it stores is right if the       *)
(* server honours ranges, for every point the chunks are resumed at and    *)
(* every order of events.                                                  *)
(***************************************************************************)
EXTENDS HttpPerform, FiniteSetTheorems, TLAPS

-------------------------------------------------------------------------------
(* The inductive invariant.                                                *)

\* A connection that is served is one the loop still expects to read from.
ActiveExpectsRead == active \subseteq eor

\* In the middle of a pass, the connections already looked at will be polled.
VisitedIsWatched ==
    pc = "scan" => \A c \in active : c > pos => c \in rfds \cup wfds

BitsInv ==
    /\ ActiveIsOpen
    /\ ActiveExpectsRead
    /\ WrittenIsNotPolled
    /\ ActiveIsWatched
    /\ VisitedIsWatched

LoopInv == LoopTypeOK /\ CntIsActive /\ BitsInv

-------------------------------------------------------------------------------
(* Connections and clocks.                                                 *)

\* A set of connections is finite and has at most N members.
LEMMA ConnsAreFinite ==
    /\ IsFiniteSet(Conns)
    /\ Cardinality(Conns) = N
    /\ \A S \in SUBSET Conns : IsFiniteSet(S) /\ Cardinality(S) \in 0..N
<1>1. N \in Nat \ {0}
    BY LoopAssumption
<1>2. IsFiniteSet(Conns) /\ Cardinality(Conns) = N
    BY <1>1, FS_Interval DEF Conns
<1>3. ASSUME NEW S \in SUBSET Conns
      PROVE  IsFiniteSet(S) /\ Cardinality(S) \in 0..N
    <2>1. IsFiniteSet(S) /\ Cardinality(S) <= Cardinality(Conns)
        BY <1>2, FS_Subset
    <2>2. Cardinality(S) \in Nat
        BY <2>1, FS_CardinalityType
    <2> QED
        BY <1>1, <1>2, <2>1, <2>2
<1> QED
    BY <1>2, <1>3

\* The clocks stay within their range when time passes.
LEMMA AgedIsIdle ==
    ASSUME LoopTypeOK, NEW d \in Idle
    PROVE  Aged(d) \in [Conns -> Idle]
BY LoopAssumption DEF LoopTypeOK, Aged, Idle

-------------------------------------------------------------------------------
(* The initial state.                                                      *)

\* The strengthened invariant holds of a group as connection_get leaves it.
LEMMA InitLoopInv == LoopInit => LoopInv
<1> SUFFICES ASSUME LoopInit PROVE LoopInv
    OBVIOUS
<1>1. LoopTypeOK
    <2>1. wfds \subseteq Conns
        BY DEF LoopInit
    <2>2. pos \in 0..N /\ cnt \in 0..N
        BY LoopAssumption DEF LoopInit
    <2> QED
        BY <2>1, <2>2 DEF LoopInit, LoopTypeOK
<1>2. CntIsActive
    BY ConnsAreFinite DEF LoopInit, CntIsActive
<1>3. BitsInv
    BY DEF LoopInit, BitsInv, ActiveIsOpen, ActiveExpectsRead, WrittenIsNotPolled,
           ActiveIsWatched, VisitedIsWatched
<1> QED
    BY <1>1, <1>2, <1>3 DEF LoopInv

-------------------------------------------------------------------------------
(* The count.                                                              *)

\* Every step of do_perform_select keeps cnt the number of active connections.
LEMMA CntStep ==
    ASSUME LoopInv, [LoopNext]_vars
    PROVE  CntIsActive' /\ active' \subseteq active
<1>1. active \subseteq Conns /\ cnt = Cardinality(active) /\ cnt \in 0..N
    BY DEF LoopInv, LoopTypeOK, CntIsActive
<1>2. IsFiniteSet(active) /\ Cardinality(active) \in 0..N
    BY <1>1, ConnsAreFinite
<1>3. ASSUME NEW d \in Idle \ {0}, SelectTimeout(d)
      PROVE  CntIsActive' /\ active' \subseteq active
    <2> DEFINE expired == {c \in active : Aged(d)[c] > TimeOut}
    <2>1. active' = active \ expired /\ cnt' = cnt - Cardinality(expired)
        BY <1>3 DEF SelectTimeout
    <2>2. active \cap expired = expired
        OBVIOUS
    <2>3. Cardinality(active \ expired) = Cardinality(active) - Cardinality(expired)
        BY <1>2, <2>2, FS_Difference
    <2> QED
        BY <1>1, <2>1, <2>3 DEF CntIsActive
<1>4. ASSUME NEW c \in active, active' = active \ {c}, cnt' = cnt - 1
      PROVE  CntIsActive' /\ active' \subseteq active
    BY <1>1, <1>2, <1>4, FS_RemoveElement DEF CntIsActive
<1>5. ASSUME active' = active, cnt' = cnt
      PROVE  CntIsActive' /\ active' \subseteq active
    BY <1>1, <1>5 DEF CntIsActive
<1>6. ASSUME NEW c \in Conns, NEW ret \in ReadResults, ScanRead(c, ret)
      PROVE  CntIsActive' /\ active' \subseteq active
    <2>1. c \in active
        BY <1>6 DEF ScanRead
    <2>2. \/ active' = active \ {c} /\ cnt' = cnt - 1
          \/ active' = active /\ cnt' = cnt
        BY <1>6 DEF ScanRead
    <2> QED
        BY <1>4, <1>5, <2>1, <2>2
<1>7. ASSUME NEW c \in Conns, ScanExcept(c)
      PROVE  CntIsActive' /\ active' \subseteq active
    BY <1>4, <1>7 DEF ScanExcept
<1>8. CASE UNCHANGED vars
    BY <1>5, <1>8 DEF vars, conns
<1> QED
    BY <1>3, <1>5, <1>6, <1>7, <1>8
    DEF LoopNext, LoopStep, StopAtTop, SelectFails, SelectReady, ScanSkip, ScanWrite,
        ScanWriteNull, ScanRearm, ScanEnd, Interrupt, conns

-------------------------------------------------------------------------------
(* Types.                                                                  *)

\* Every step of do_perform_select keeps the types of its variables.
LEMMA TypeStep ==
    ASSUME LoopInv, [LoopNext]_vars
    PROVE  LoopTypeOK'
<1> USE DEF LoopInv, LoopTypeOK, fdsets, conns
<1>1. active' \subseteq Conns /\ cnt' \in 0..N
    BY CntStep, ConnsAreFinite DEF CntIsActive
<1>2. 0 \in Idle /\ \A d \in Idle : Aged(d) \in [Conns -> Idle]
    BY LoopAssumption, AgedIsIdle DEF Idle
<1>0. \A c \in Conns : Visiting(c) => pos - 1 \in 0..N
    BY LoopAssumption DEF Visiting, Conns
<1>3. CASE StopAtTop \/ SelectFails \/ ScanEnd \/ Interrupt
    BY <1>1, <1>3 DEF StopAtTop, SelectFails, ScanEnd, Interrupt
<1>4. ASSUME NEW d \in Idle \ {0}, SelectTimeout(d) PROVE LoopTypeOK'
    BY <1>1, <1>2, <1>4 DEF SelectTimeout
<1>5. ASSUME NEW d \in Idle, NEW R \in SUBSET rfds, NEW W \in SUBSET wfds,
             NEW E \in SUBSET efds, SelectReady(d, R, W, E)
      PROVE  LoopTypeOK'
    BY <1>1, <1>2, <1>5, LoopAssumption DEF SelectReady
<1>6. ASSUME NEW c \in Conns, ScanSkip(c) \/ ScanWriteNull(c) PROVE LoopTypeOK'
    <2>1. CASE ScanSkip(c)
        BY <1>0, <1>1, <2>1 DEF ScanSkip
    <2>2. CASE ScanWriteNull(c)
        BY <1>1, <2>2 DEF ScanWriteNull
    <2> QED
        BY <1>6, <2>1, <2>2
<1>7. ASSUME NEW c \in Conns, NEW ret \in WriteResults, ScanWrite(c, ret)
      PROVE  LoopTypeOK'
    <2>1. idle' \in [Conns -> Idle]
        BY <1>2, <1>7 DEF ScanWrite
    <2>2. eow' \subseteq Conns
        BY <1>7 DEF ScanWrite, Toggle
    <2> QED
        BY <1>0, <1>1, <1>7, <2>1, <2>2 DEF ScanWrite
<1>8. ASSUME NEW c \in Conns, NEW ret \in ReadResults, ScanRead(c, ret)
      PROVE  LoopTypeOK'
    <2>1. idle' \in [Conns -> Idle]
        BY <1>2, <1>8 DEF ScanRead
    <2>2. eor' \subseteq Conns
        BY <1>8 DEF ScanRead, Toggle
    <2>3. pos' \in 0..N /\ rfds' \subseteq Conns /\ open' \subseteq Conns
          /\ pc' \in {"select", "scan", "done", "exit"}
        BY <1>0, <1>8 DEF ScanRead
    <2>4. wfds' = wfds /\ efds' = efds /\ eow' = eow /\ stop' = stop
        BY <1>8 DEF ScanRead
    <2> QED
        BY <1>1, <2>1, <2>2, <2>3, <2>4
<1>9. ASSUME NEW c \in Conns, ScanExcept(c) PROVE LoopTypeOK'
    BY <1>0, <1>1, <1>9 DEF ScanExcept
<1>10. ASSUME NEW c \in Conns, ScanRearm(c) PROVE LoopTypeOK'
    BY <1>0, <1>1, <1>10 DEF ScanRearm
<1>11. CASE UNCHANGED vars
    BY <1>1, <1>11 DEF vars
<1> QED
    BY <1>3, <1>4, <1>5, <1>6, <1>7, <1>8, <1>9, <1>10, <1>11 DEF LoopNext, LoopStep

-------------------------------------------------------------------------------
(* What is polled, expected and open.                                      *)

\* Every step keeps the descriptor sets and expt consistent with active.
LEMMA BitsStep ==
    ASSUME LoopInv, [LoopNext]_vars
    PROVE  BitsInv'
<1> USE DEF LoopInv, BitsInv, ActiveIsOpen, ActiveExpectsRead, WrittenIsNotPolled,
            ActiveIsWatched, VisitedIsWatched
<1>0. pos \in 0..N /\ active \subseteq Conns
    BY DEF LoopTypeOK
<1>1. CASE StopAtTop \/ SelectFails \/ Interrupt
    BY <1>1 DEF StopAtTop, SelectFails, Interrupt, fdsets, conns
<1>2. CASE ScanEnd
    <2>1. \A c \in active : c > pos
        BY <1>0, <1>2 DEF ScanEnd, Conns
    <2> QED
        BY <1>2, <2>1 DEF ScanEnd, fdsets, conns
<1>3. ASSUME NEW d \in Idle \ {0}, SelectTimeout(d) PROVE BitsInv'
    BY <1>3 DEF SelectTimeout
<1>4. ASSUME NEW d \in Idle, NEW R \in SUBSET rfds, NEW W \in SUBSET wfds,
             NEW E \in SUBSET efds, SelectReady(d, R, W, E)
      PROVE  BitsInv'
    <2>1. pos' = N /\ active' = active
        BY <1>4 DEF SelectReady
    <2>2. \A c \in active' : ~(c > pos')
        BY <1>0, <2>1, LoopAssumption DEF Conns
    <2> QED
        BY <1>4, <2>2 DEF SelectReady
<1>5. ASSUME NEW c \in Conns, Visiting(c), pos' = pos - 1
      PROVE  pc = "scan" /\ \A x \in active : x > pos' => x = c \/ x > pos
    BY <1>0, <1>5 DEF Visiting, Conns
<1>6. ASSUME NEW c \in Conns, ScanSkip(c) PROVE BitsInv'
    BY <1>5, <1>6 DEF ScanSkip, fdsets, conns
<1>7. ASSUME NEW c \in Conns, NEW ret \in WriteResults, ScanWrite(c, ret)
      PROVE  BitsInv'
    <2>1. /\ open' = open /\ active' = active /\ eor' = eor
          /\ pc' = "scan" /\ c \in active
          /\ \A x \in active : x > pos' => x = c \/ x > pos
        BY <1>5, <1>7 DEF ScanWrite, Visiting
    <2>2. active \cap wfds' \subseteq eow'
        BY <1>7 DEF ScanWrite, Toggle
    <2>3. \A x \in active : x > pos' => x \in rfds' \cup wfds'
        BY <1>7, <2>1 DEF ScanWrite, Visiting
    <2> QED
        BY <2>1, <2>2, <2>3
<1>8. ASSUME NEW c \in Conns, ScanWriteNull(c) PROVE BitsInv'
    BY <1>8 DEF ScanWriteNull, fdsets, conns
<1>9. ASSUME NEW c \in Conns, NEW ret \in ReadResults, ScanRead(c, ret)
      PROVE  BitsInv'
    <2>1. CASE ret \in {"CLOSED", "FAILED", "FINISHED"}
        <3>1. /\ active' = active \ {c} /\ open \ {c} \subseteq open'
              /\ eor' = Toggle(eor, c) /\ eow' = eow
              /\ wfds' = wfds /\ rfds' = rfds /\ pos' = pos - 1 /\ pc' = pc
              /\ Visiting(c)
            BY <1>9, <2>1 DEF ScanRead
        <3> QED
            BY <1>5, <3>1 DEF Toggle, Visiting
    <2>2. CASE ret = "ABORT"
        BY <1>9, <2>2 DEF ScanRead
    <2>3. CASE ret = "more"
        BY <1>5, <1>9, <2>3 DEF ScanRead, Visiting
    <2> QED
        BY <2>1, <2>2, <2>3 DEF ReadResults
<1>10. ASSUME NEW c \in Conns, ScanExcept(c) PROVE BitsInv'
    BY <1>5, <1>10 DEF ScanExcept, fdsets, Visiting
<1>11. ASSUME NEW c \in Conns, ScanRearm(c) PROVE BitsInv'
    BY <1>5, <1>11 DEF ScanRearm, conns, Visiting
<1>12. CASE UNCHANGED vars
    BY <1>12 DEF vars, fdsets, conns
<1> QED
    BY <1>1, <1>2, <1>3, <1>4, <1>6, <1>7, <1>8, <1>9, <1>10, <1>11, <1>12
    DEF LoopNext, LoopStep

\* The strengthened invariant holds throughout do_perform_select.
LEMMA LoopInvariant == LoopSpec => []LoopInv
<1>1. LoopInv /\ [LoopNext]_vars => LoopInv'
    BY CntStep, TypeStep, BitsStep DEF LoopInv
<1> QED
    BY <1>1, InitLoopInv, PTL DEF LoopSpec

-------------------------------------------------------------------------------
(* The theorems.                                                           *)

\* The variables of do_perform_select keep their types; cnt never goes below 0.
THEOREM LoopTypeCorrect == LoopSpec => []LoopTypeOK
<1>1. LoopInv => LoopTypeOK
    BY DEF LoopInv
<1> QED
    BY <1>1, LoopInvariant, PTL

\* The count that ends the loop is the number of connections still served,
\* whichever of the three paths a connection leaves the loop by.
THEOREM CountIsExact == LoopSpec => []CntIsActive
<1>1. LoopInv => CntIsActive
    BY DEF LoopInv
<1> QED
    BY <1>1, LoopInvariant, PTL

\* The loop does not touch the descriptor of a connection it has closed.
THEOREM NoClosedDescriptorIsServed == LoopSpec => []ActiveIsOpen
<1>1. LoopInv => ActiveIsOpen
    BY DEF LoopInv, BitsInv
<1> QED
    BY <1>1, LoopInvariant, PTL

\* No connection is ever dropped from the descriptor sets while the loop still
\* counts on it.
THEOREM NoConnectionIsForgotten == LoopSpec => []ActiveIsWatched
<1>1. LoopInv => ActiveIsWatched
    BY DEF LoopInv, BitsInv
<1> QED
    BY <1>1, LoopInvariant, PTL

\* A connection is not asked to write after its write_data has finished.
THEOREM FinishedWriteStaysFinished == LoopSpec => []WrittenIsNotPolled
<1>1. LoopInv => WrittenIsNotPolled
    BY DEF LoopInv, BitsInv
<1> QED
    BY <1>1, LoopInvariant, PTL

-------------------------------------------------------------------------------
(* The transfer over HTTP.                                                 *)

\* The results the HTTP callbacks return are among those the loop expects.
LEMMA ResultsAreExpected ==
    /\ {"CLOSED", "FINISHED", "ABORT", "more"} \subseteq ReadResults
    /\ "FINISHED" \in WriteResults
    /\ \A c \in Conns : /\ Returned(c, "CLOSED") \in ReadResults
                        /\ Returned(c, "ABORT") \in ReadResults
BY DEF ReadResults, WriteResults, Returned

\* A step of a callback that ends it is a ScanRead of the loop.
LEMMA ScanReadIsLoop ==
    ASSUME NEW c \in Conns, NEW ret \in ReadResults, ScanRead(c, ret)
    PROVE  LoopNext
BY DEF LoopNext, LoopStep

\* What the HTTP transfer lets select() return, the loop allows it to return.
LEMMA HttpSelectIsLoop ==
    ASSUME NEW d \in Idle, HttpSelect(d)
    PROVE  LoopNext
<1> DEFINE R == {c \in rfds : Readable(c)}
<1> DEFINE W == {c \in wfds : Writable(c)}
<1>1. R \in SUBSET rfds /\ W \in SUBSET wfds /\ {} \in SUBSET efds
    OBVIOUS
<1>2. SelectReady(d, R, W, {}) \/ (d > 0 /\ SelectTimeout(d))
    BY DEF HttpSelect
<1>3. CASE SelectReady(d, R, W, {})
    <2> HIDE DEF R, W
    <2> QED
        BY <1>1, <1>3 DEF LoopNext, LoopStep
<1>4. CASE d > 0 /\ SelectTimeout(d)
    <2>1. d \in Idle \ {0}
        BY <1>4, LoopAssumption DEF Idle
    <2> QED
        BY <1>4, <2>1 DEF LoopNext, LoopStep
<1> QED
    BY <1>2, <1>3, <1>4

\* Every step of the HTTP transfer is one of the loop, or leaves the loop alone:
\* the callbacks that are blocked, the network and the server.
LEMMA HttpStepIsLoop ==
    ASSUME [HttpNext]_httpVars
    PROVE  [LoopNext]_vars
<1>1. ASSUME NEW d \in Idle, HttpSelect(d) PROVE LoopNext
    BY <1>1, HttpSelectIsLoop
<1>2. CASE HttpLoop
    BY <1>2 DEF HttpLoop, LoopNext, LoopStep
<1>3. ASSUME NEW c \in Conns, HttpWrite(c) PROVE LoopNext
    BY <1>3, ResultsAreExpected DEF HttpWrite, LoopNext, LoopStep
<1>4. ASSUME NEW c \in Conns, HeadPart(c) PROVE UNCHANGED vars
    BY <1>4 DEF HeadPart
<1>5. ASSUME NEW c \in Conns, HeadLost(c) PROVE LoopNext
    BY <1>5, ResultsAreExpected, ScanReadIsLoop DEF HeadLost
<1>6. ASSUME NEW c \in Conns, HeadAccepted(c) PROVE LoopNext \/ UNCHANGED vars
    <2>1. ScanRead(c, "CLOSED") \/ UNCHANGED vars
        BY <1>6 DEF HeadAccepted
    <2> QED
        BY <2>1, ResultsAreExpected, ScanReadIsLoop
<1>7. ASSUME NEW c \in Conns, HeadRefused(c) PROVE LoopNext
    BY <1>7, ResultsAreExpected, ScanReadIsLoop DEF HeadRefused
<1>8. ASSUME NEW c \in Conns, BodyRead(c) PROVE LoopNext
    <2>1. ScanRead(c, "FINISHED") \/ ScanRead(c, "more")
        BY <1>8 DEF BodyRead
    <2> QED
        BY <2>1, ResultsAreExpected, ScanReadIsLoop
<1>9. ASSUME NEW c \in Conns, BodyEnd(c) PROVE LoopNext
    BY <1>9, ResultsAreExpected, ScanReadIsLoop DEF BodyEnd
<1>10. ASSUME NEW c \in Conns, BodyFails(c) PROVE LoopNext
    BY <1>10, ResultsAreExpected, ScanReadIsLoop DEF BodyFails
<1>11. CASE HttpInterrupt
    BY <1>11 DEF HttpInterrupt, LoopNext
<1>12. ASSUME NEW c \in Conns, Serve(c) \/ HangUp(c) \/ Drop(c)
       PROVE  UNCHANGED vars
    BY <1>12 DEF Serve, Connect, Reply, ReplyHead, ReplyBody, HangUp, Drop
<1>13. CASE UNCHANGED httpVars
    BY <1>13 DEF httpVars
<1> QED
    BY <1>1, <1>2, <1>3, <1>4, <1>5, <1>6, <1>7, <1>8, <1>9, <1>10, <1>11, <1>12, <1>13
    DEF HttpNext, HttpStep

\* connection_perform with the HTTP callbacks implements the loop for callbacks
\* of any kind, so that what is proved of the loop holds of it.
THEOREM HttpImplementsLoop == HttpSpec => ImplementsLoop
<1>1. HttpInit => LoopInit
    BY DEF HttpInit
<1> QED
    BY <1>1, HttpStepIsLoop, PTL DEF HttpSpec, ImplementsLoop, LoopSpec

\* The count of connections that decides when an HTTP transfer is over is exact,
\* and neither a closed descriptor is used nor a connection forgotten.
THEOREM HttpLoopIsSound ==
    HttpSpec => [](CntIsActive /\ ActiveIsOpen /\ ActiveIsWatched /\ WrittenIsNotPolled)
BY HttpImplementsLoop, CountIsExact, NoClosedDescriptorIsServed, NoConnectionIsForgotten,
   FinishedWriteStaysFinished, PTL DEF ImplementsLoop

-------------------------------------------------------------------------------
(* What an HTTP transfer stores.                                           *)

HonoursRanges == "whole" \notin Answers

\* The end of the range that is asked for: a byte more than the chunk.
Bound(c) == Least(Last(c) + 1, FileSize)

-------------------------------------------------------------------------------
(* The inductive invariant.                                                *)

ShapeOK ==
    /\ cur \in [Conns -> Nat] /\ hdr \subseteq Conns /\ half \in 0..1
    /\ file \in [0..(FileSize - 1) -> 0..FileSize]
    /\ ask \in [Conns -> 0..FileSize]
    /\ hq \in [Conns -> 0..2] /\ src \in [Conns -> Nat]
    /\ pend \in [Conns -> Nat] /\ left \in [Conns -> Nat]

NamesOK ==
    /\ eintr \in BOOLEAN
    /\ link \in [Conns -> {"connecting", "up"} \cup Broken]
    /\ reply \in [Conns -> Answers \cup {"none"}]

\* A chunk is not complete before its header is; what is read of the header is that of the
\* connection that is visited.
HeadOK ==
    /\ \A c \in Conns : c \notin hdr => cur[c] < Last(c)
    /\ half # 0 => \E c \in Conns : Reading(c) /\ c \notin hdr
    /\ \A c \in Conns : Visiting(c) => half + hq[c] <= 2

\* The request went out once, for what the chunk lacks.
AskOK ==
    \A c \in Conns :
        /\ ask[c] # NotAsked => c \notin eow
        /\ ask[c] # NotAsked /\ c \notin hdr => ask[c] = cur[c]
        /\ reply[c] # "none" => ask[c] # NotAsked

\* The next byte of a connection belongs at cur_pos, and the last one at the end of the
\* range; other answers have no body.
WireOK ==
    \A c \in Conns :
        /\ First(c) <= cur[c] /\ cur[c] <= Bound(c)
        /\ c \in hdr => reply[c] = "range"
        /\ reply[c] = "range" => src[c] = cur[c] /\ src[c] + pend[c] + left[c] = Bound(c)
        /\ reply[c] # "range" => src[c] = 0 /\ pend[c] = 0 /\ left[c] = 0

\* A connection is over when its chunk is complete, or is reading and will see that it is.
EndOK ==
    /\ KeptIsComplete
    /\ \A c \in active : cur[c] < Last(c) \/ (Reading(c) /\ c \in hdr)

\* Every byte that is stored is in its place.
StoredOK ==
    /\ \A p \in 0..(FileSize - 1) : file[p] \in {p, NotAsked}
    /\ ReceivedIsRight

BytesInv == ShapeOK /\ NamesOK /\ HeadOK /\ AskOK /\ WireOK /\ EndOK /\ StoredOK

-------------------------------------------------------------------------------
(* Positions.                                                              *)

LEMMA ChunkBounds ==
    /\ FileSize \in Nat \ {0} /\ NotAsked = FileSize /\ ChunkLen \in Nat \ {0}
    /\ \A c \in Conns : /\ First(c) \in Nat /\ Last(c) \in Nat /\ First(c) < Last(c)
                        /\ Last(c) <= FileSize
                        /\ Bound(c) \in Nat /\ Last(c) <= Bound(c)
                        /\ Bound(c) <= Last(c) + 1 /\ Bound(c) <= FileSize
<1>1. N \in Nat \ {0} /\ ChunkLen \in Nat \ {0}
    BY LoopAssumption, HttpAssumption
<1>2. FileSize \in Nat \ {0}
    <2>1. N * ChunkLen \in Nat /\ N * ChunkLen # 0
        BY <1>1
    <2> QED
        BY <2>1 DEF FileSize
<1>3. ASSUME NEW c \in Conns
      PROVE  /\ First(c) \in Nat /\ Last(c) \in Nat /\ Last(c) = First(c) + ChunkLen
             /\ Last(c) <= FileSize
    <2>1. c \in Nat \ {0} /\ c <= N /\ c - 1 \in Nat /\ N - c \in Nat
        BY <1>1 DEF Conns
    <2>2. /\ (c - 1) * ChunkLen \in Nat /\ c * ChunkLen \in Nat
          /\ c * ChunkLen = (c - 1) * ChunkLen + ChunkLen
        BY <1>1, <2>1
    <2>3. (N - c) * ChunkLen \in Nat /\ N * ChunkLen = c * ChunkLen + (N - c) * ChunkLen
        BY <1>1, <2>1
    <2> QED
        BY <2>2, <2>3, <1>2 DEF First, Last, FileSize
<1> QED
    BY <1>1, <1>2, <1>3 DEF NotAsked, Bound, Least

\* n bytes that wait in the socket are stored where they belong.
LEMMA StoreIsRight ==
    ASSUME BytesInv, NEW c \in Conns, NEW n \in Nat, reply[c] = "range", n <= pend[c],
           Store(c, n)
    PROVE  /\ cur' = [cur EXCEPT ![c] = @ + n] /\ src' = [src EXCEPT ![c] = @ + n]
           /\ pend' = [pend EXCEPT ![c] = @ - n]
           /\ cur'[c] = cur[c] + n /\ src'[c] = src[c] + n /\ pend'[c] = pend[c] - n
           /\ cur' \in [Conns -> Nat] /\ src' \in [Conns -> Nat] /\ pend' \in [Conns -> Nat]
           /\ file' \in [0..(FileSize - 1) -> 0..FileSize]
           /\ StoredOK'
<1>1. /\ cur' = [cur EXCEPT ![c] = @ + n] /\ src' = [src EXCEPT ![c] = @ + n]
      /\ pend' = [pend EXCEPT ![c] = @ - n]
      /\ file' = [p \in DOMAIN file |-> IF p \in cur[c]..(cur[c] + n - 1)
                                           THEN src[c] + (p - cur[c]) ELSE file[p]]
    BY DEF Store
<1>2. /\ cur \in [Conns -> Nat] /\ src \in [Conns -> Nat] /\ pend \in [Conns -> Nat]
      /\ file \in [0..(FileSize - 1) -> 0..FileSize]
    BY DEF BytesInv, ShapeOK
<1>3. src[c] = cur[c]
    BY DEF BytesInv, WireOK
<1>4. \A p \in 0..(FileSize - 1) :
         file'[p] = IF p \in cur[c]..(cur[c] + n - 1) THEN p ELSE file[p]
    <2> TAKE p \in 0..(FileSize - 1)
    <2>1. p \in DOMAIN file
        BY <1>2
    <2>2. file'[p] = IF p \in cur[c]..(cur[c] + n - 1) THEN src[c] + (p - cur[c]) ELSE file[p]
        BY <1>1, <2>1
    <2>3. cur[c] \in Nat /\ p \in Int /\ cur[c] + (p - cur[c]) = p
        BY <1>2
    <2> QED
        BY <1>3, <2>2, <2>3
<1>5. DOMAIN file' = 0..(FileSize - 1)
    BY <1>1, <1>2
<1>6. file' \in [0..(FileSize - 1) -> 0..FileSize]
    <2>1. \A p \in 0..(FileSize - 1) : file'[p] \in 0..FileSize
        <3> TAKE p \in 0..(FileSize - 1)
        <3>1. p \in 0..FileSize /\ file[p] \in 0..FileSize
            BY <1>2, ChunkBounds
        <3> QED
            BY <1>4, <3>1
    <2>2. file' = [p \in 0..(FileSize - 1) |-> file'[p]]
        BY <1>1, <1>2
    <2> QED
        BY <2>1, <2>2
<1>7. /\ cur'[c] = cur[c] + n /\ src'[c] = src[c] + n /\ pend'[c] = pend[c] - n
      /\ \A d \in Conns \ {c} : cur'[d] = cur[d]
    BY <1>1, <1>2
<1>8. /\ cur' \in [Conns -> Nat] /\ src' \in [Conns -> Nat] /\ pend' \in [Conns -> Nat]
    <2>1. cur[c] + n \in Nat /\ src[c] + n \in Nat /\ pend[c] - n \in Nat
        BY <1>2
    <2> QED
        BY <1>1, <1>2, <2>1
<1>9. \A p \in 0..(FileSize - 1) : file'[p] \in {p, NotAsked}
    BY <1>4 DEF BytesInv, StoredOK
<1>10. ASSUME NEW d \in Conns, NEW p \in First(d)..(Least(cur'[d], Last(d)) - 1)
       PROVE  file'[p] = p
    <2>1. /\ First(d) \in Nat /\ Last(d) \in Nat /\ Last(d) <= FileSize
          /\ cur[d] \in Nat /\ cur'[d] \in Nat /\ cur[c] \in Nat /\ FileSize \in Nat
        BY ChunkBounds, <1>2, <1>8
    <2>2. p \in 0..(FileSize - 1) /\ p < cur'[d] /\ p < Last(d) /\ p >= First(d)
        BY <2>1 DEF Least
    <2>3. CASE p < cur[d]
        <3>1. p \in First(d)..(Least(cur[d], Last(d)) - 1)
            BY <2>1, <2>2, <2>3 DEF Least
        <3>2. file[p] = p
            BY <3>1 DEF BytesInv, StoredOK, ReceivedIsRight
        <3> QED
            BY <1>4, <2>2, <3>2
    <2>4. CASE ~(p < cur[d])
        <3>1. d = c
            BY <1>7, <2>2, <2>4
        <3>2. p \in cur[c]..(cur[c] + n - 1)
            BY <1>7, <2>1, <2>2, <2>4, <3>1
        <3> QED
            BY <1>4, <2>2, <3>2
    <2> QED
        BY <2>3, <2>4
<1> QED
    BY <1>1, <1>6, <1>7, <1>8, <1>9, <1>10 DEF StoredOK, ReceivedIsRight
-------------------------------------------------------------------------------
(* The steps.                                                              *)

LEMMA BytesInit == HttpInit => BytesInv
<1> SUFFICES ASSUME HttpInit PROVE BytesInv
    OBVIOUS
<1>1. /\ cur \in [Conns -> 0..(FileSize - 1)]
      /\ \A c \in Conns : cur[c] \in First(c)..(Last(c) - 1)
    BY DEF HttpInit
<1>2. \A c \in Conns : cur[c] \in Nat /\ cur[c] < Last(c) /\ First(c) <= cur[c]
    BY <1>1, ChunkBounds
<1>3. /\ file = [p \in 0..(FileSize - 1) |->
                    IF \E c \in Conns : p \in First(c)..(cur[c] - 1) THEN p ELSE NotAsked]
      /\ FileSize \in Nat \ {0} /\ NotAsked = FileSize
    BY ChunkBounds DEF HttpInit
<1>4. file \in [0..(FileSize - 1) -> 0..FileSize]
    <2>1. FileSize \in 0..FileSize /\ 0..(FileSize - 1) \subseteq 0..FileSize
        BY <1>3
    <2> QED
        BY <1>3, <2>1
<1>5. ShapeOK
    <2>1. cur \in [Conns -> Nat]
        BY <1>1, <1>2
    <2>2. 0 \in 0..FileSize /\ FileSize \in 0..FileSize /\ 0 \in Nat
        BY <1>3
    <2>3. /\ ask \in [Conns -> 0..FileSize] /\ hq \in [Conns -> 0..2]
          /\ src \in [Conns -> Nat] /\ pend \in [Conns -> Nat] /\ left \in [Conns -> Nat]
          /\ hdr \subseteq Conns /\ half \in 0..1
        BY <1>3, <2>2 DEF HttpInit
    <2> QED
        BY <1>4, <2>1, <2>3 DEF ShapeOK
<1>6. NamesOK
    BY DEF HttpInit, NamesOK
<1>7. HeadOK
    BY <1>2 DEF HttpInit, HeadOK
<1>8. AskOK
    BY DEF HttpInit, AskOK
<1>9. WireOK
    BY <1>2, ChunkBounds DEF HttpInit, WireOK
<1>10. EndOK
    BY <1>2 DEF HttpInit, LoopInit, EndOK, KeptIsComplete
<1>11. StoredOK
    <2>1. \A p \in 0..(FileSize - 1) : file[p] \in {p, NotAsked}
        BY <1>3
    <2>2. ASSUME NEW c \in Conns, NEW p \in First(c)..(Least(cur[c], Last(c)) - 1)
          PROVE  file[p] = p
        <3>1. /\ First(c) \in Nat /\ Last(c) \in Nat /\ Last(c) <= FileSize /\ cur[c] \in Nat
              /\ cur[c] < Last(c)
            BY <1>2, ChunkBounds
        <3>2. p \in First(c)..(cur[c] - 1) /\ p \in 0..(FileSize - 1)
            BY <1>3, <3>1 DEF Least
        <3> QED
            BY <1>3, <3>2
    <2> QED
        BY <2>1, <2>2 DEF StoredOK, ReceivedIsRight
<1> QED
    BY <1>5, <1>6, <1>7, <1>8, <1>9, <1>10, <1>11 DEF BytesInv

\* When no callback reads, no chunk that is served is complete, and no part of a header
\* is held.
LEMMA NobodyReads ==
    ASSUME BytesInv, \A c \in Conns : ~Reading(c), active \subseteq Conns
    PROVE  half = 0 /\ \A c \in active : cur[c] < Last(c)
BY DEF BytesInv, HeadOK, EndOK

\* A step of the loop in which no callback has a part keeps the invariant.
LEMMA QuietStep ==
    ASSUME BytesInv, LoopTypeOK, \A c \in Conns : ~Reading(c), UNCHANGED <<chunks, eintr, net>>,
           eow' \subseteq eow, active' \subseteq active, open' \ active' \subseteq open \ active
    PROVE  BytesInv'
<1>1. UNCHANGED <<cur, hdr, half, file, eintr, link, ask, reply, hq, src, pend, left>>
    BY DEF chunks, net
<1>2. half = 0 /\ \A c \in active : cur[c] < Last(c)
    BY NobodyReads DEF LoopTypeOK
<1>3. ShapeOK' /\ NamesOK' /\ StoredOK' /\ WireOK'
    BY <1>1 DEF BytesInv, ShapeOK, NamesOK, StoredOK, ReceivedIsRight, WireOK
<1>4. HeadOK'
    <2>1. \A c \in Conns : hq[c] \in 0..2
        BY DEF BytesInv, ShapeOK
    <2>2. \A c \in Conns : half' + hq'[c] <= 2
        BY <1>1, <1>2, <2>1
    <2> QED
        BY <1>1, <1>2, <2>2 DEF BytesInv, HeadOK
<1>5. AskOK'
    BY <1>1 DEF BytesInv, AskOK
<1>6. EndOK'
    BY <1>1, <1>2 DEF BytesInv, EndOK, KeptIsComplete
<1> QED
    BY <1>3, <1>4, <1>5, <1>6 DEF BytesInv

LEMMA LoopKeepsBytes ==
    ASSUME BytesInv, LoopInv, HttpLoop \/ \E d \in Idle : HttpSelect(d)
    PROVE  BytesInv'
<1> USE DEF fdsets, conns
<1>0. LoopTypeOK
    BY DEF LoopInv
<1>1. UNCHANGED <<chunks, eintr, net>>
    BY DEF HttpLoop, HttpSelect
<1>2. CASE StopAtTop \/ SelectFails \/ ScanEnd
    <2>1. \A c \in Conns : ~Reading(c)
        BY <1>2 DEF StopAtTop, SelectFails, ScanEnd, Reading, Visiting, Conns
    <2>2. UNCHANGED <<eow, active, open>>
        BY <1>2 DEF StopAtTop, SelectFails, ScanEnd
    <2> QED
        BY <1>0, <1>1, <2>1, <2>2, QuietStep
<1>3. ASSUME NEW c \in Conns, ScanSkip(c) \/ ScanRearm(c)
      PROVE  BytesInv'
    <2>1. \A d \in Conns : ~Reading(d)
        BY <1>3 DEF ScanSkip, ScanRearm, Reading, Visiting, Polled
    <2>2. UNCHANGED <<eow, active, open>>
        BY <1>3 DEF ScanSkip, ScanRearm
    <2> QED
        BY <1>0, <1>1, <2>1, <2>2, QuietStep
<1>4. ASSUME NEW d \in Idle, HttpSelect(d)
      PROVE  BytesInv'
    <2>1. PICK R, W : SelectReady(d, R, W, {}) \/ SelectTimeout(d)
        BY <1>4 DEF HttpSelect
    <2>2. \A c \in Conns : ~Reading(c)
        BY <2>1 DEF SelectReady, SelectTimeout, Reading, Visiting
    <2>3. /\ eow' \subseteq eow /\ active' \subseteq active
          /\ open' \ active' \subseteq open \ active
        BY <2>1 DEF SelectReady, SelectTimeout
    <2> QED
        BY <1>0, <1>1, <2>2, <2>3, QuietStep
<1> QED
    BY <1>2, <1>3, <1>4 DEF HttpLoop

LEMMA WriteKeepsBytes ==
    ASSUME BytesInv, LoopInv, NEW c \in Conns, HttpWrite(c)
    PROVE  BytesInv'
<1>1. /\ UNCHANGED <<cur, hdr, half, file, eintr, reply, hq, src, pend, left, active, open>>
      /\ c \in active \cap wfds /\ Visiting(c) /\ eow' = Toggle(eow, c)
      /\ ask' = IF link[c] = "up" THEN [ask EXCEPT ![c] = cur[c]] ELSE ask
      /\ link' = IF link[c] = "reset" THEN [link EXCEPT ![c] = "closed"] ELSE link
    BY DEF HttpWrite, ScanWrite, RequestSend, chunks
<1>2. c \in eow
    BY <1>1 DEF LoopInv, BitsInv, WrittenIsNotPolled
<1>3. eow' = eow \ {c}
    BY <1>1, <1>2 DEF Toggle
<1>4. \A d \in Conns : ~Reading(d)
    BY <1>1 DEF Reading, Visiting
<1>5. half = 0 /\ \A d \in active : cur[d] < Last(d)
    BY <1>4, NobodyReads DEF LoopInv, LoopTypeOK
<1>6. reply[c] = "none" /\ ask[c] = NotAsked /\ c \notin hdr
    BY <1>2 DEF BytesInv, AskOK, WireOK
<1>7. cur[c] \in 0..FileSize
    <2>1. cur[c] \in Nat /\ cur[c] <= Bound(c)
        BY DEF BytesInv, ShapeOK, WireOK
    <2> QED
        BY <2>1, ChunkBounds
<1>8. ask' \in [Conns -> 0..FileSize]
    BY <1>1, <1>7 DEF BytesInv, ShapeOK
<1>9. ShapeOK' /\ StoredOK' /\ WireOK'
    BY <1>1, <1>8 DEF BytesInv, ShapeOK, StoredOK, ReceivedIsRight, WireOK
<1>10. NamesOK'
    BY <1>1 DEF BytesInv, NamesOK, Broken
<1>11. HeadOK'
    <2>1. \A d \in Conns : hq[d] \in 0..2
        BY DEF BytesInv, ShapeOK
    <2>2. \A d \in Conns : half' + hq'[d] <= 2
        BY <1>1, <1>5, <2>1
    <2> QED
        BY <1>1, <1>5, <2>2 DEF BytesInv, HeadOK
<1>12. AskOK'
    <2>1. \A d \in Conns : ask'[d] = ask[d] \/ (d = c /\ ask'[d] = cur[d])
        BY <1>1 DEF BytesInv, ShapeOK
    <2> QED
        BY <1>1, <1>3, <1>6, <2>1 DEF BytesInv, AskOK
<1>13. EndOK'
    BY <1>1, <1>5 DEF BytesInv, EndOK, KeptIsComplete
<1> QED
    BY <1>9, <1>10, <1>11, <1>12, <1>13 DEF BytesInv

\* A callback that returns, having brought its own chunk further or not: the connection
\* is over and kept only with a complete chunk, and served only with one that is not.
LEMMA ReturnKeepsEnds ==
    ASSUME BytesInv, LoopTypeOK, NEW c \in Conns, NEW ret, ScanRead(c, ret),
           \A d \in Conns \ {c} : cur'[d] = cur[d],
           ret = "FINISHED" => cur'[c] >= Last(c),
           ret \in {"ABORT", "more"} => cur'[c] < Last(c)
    PROVE  EndOK' /\ eow' = eow
<1>1. Visiting(c) /\ eow' = eow
    BY DEF ScanRead
<1>2. \A d \in active \ {c} : cur[d] < Last(d)
    BY <1>1 DEF BytesInv, EndOK, Reading, Visiting
<1>3. \/ ret = "FINISHED" /\ open' = open /\ active' = active \ {c}
      \/ open' = open \ {c} /\ active' = active \ {c}
      \/ ret \in {"ABORT", "more"} /\ open' = open /\ active' = active
    BY DEF ScanRead
<1>4. \A d \in active' : cur'[d] < Last(d)
    BY <1>2, <1>3 DEF LoopTypeOK
<1>5. ASSUME NEW d \in open' \ active'
      PROVE  cur'[d] >= Last(d)
    <2>1. d \in open /\ d \in Conns /\ (d = c => ret = "FINISHED")
        BY <1>1, <1>3 DEF LoopTypeOK, ScanRead
    <2>2. CASE d = c
        BY <2>1, <2>2
    <2>3. CASE d # c
        <3>1. d \in open \ active /\ cur'[d] = cur[d]
            BY <1>3, <2>1, <2>3
        <3> QED
            BY <3>1 DEF BytesInv, EndOK, KeptIsComplete
    <2> QED
        BY <2>2, <2>3
<1> QED
    BY <1>1, <1>4, <1>5 DEF EndOK, KeptIsComplete

LEMMA HeadKeepsBytes ==
    ASSUME BytesInv, LoopInv, HonoursRanges, NEW c \in Conns,
           HeadPart(c) \/ HeadLost(c) \/ HeadAccepted(c) \/ HeadRefused(c)
    PROVE  BytesInv'
<1>0. LoopTypeOK
    BY DEF LoopInv
<1>1. c \notin hdr /\ Reading(c) /\ Visiting(c) /\ half \in 0..1 /\ hq \in [Conns -> 0..2]
    BY DEF HeadPart, HeadLost, HeadAccepted, HeadRefused, HeadArrives, Reading, BytesInv, ShapeOK
<1>2. cur[c] < Last(c)
    BY <1>1 DEF BytesInv, HeadOK
<1>3. CASE HeadPart(c)
    <2>1. /\ UNCHANGED <<cur, hdr, file, eintr, link, ask, reply, src, pend, left>>
          /\ UNCHANGED <<pc, pos, rfds, wfds, open, active, eow>>
          /\ hq[c] > 0 /\ half + hq[c] < 2 /\ half' = half + hq[c] /\ hq' = [hq EXCEPT ![c] = 0]
        BY <1>3 DEF HeadPart, vars, fdsets, conns
    <2>2. half' = 1 /\ hq'[c] = 0 /\ hq' \in [Conns -> 0..2]
        BY <1>1, <2>1
    <2>3. ShapeOK' /\ NamesOK' /\ StoredOK' /\ WireOK' /\ AskOK'
        BY <2>1, <2>2 DEF BytesInv, ShapeOK, NamesOK, StoredOK, ReceivedIsRight, WireOK, AskOK
    <2>4. EndOK'
        BY <2>1 DEF BytesInv, EndOK, KeptIsComplete, Reading, Visiting
    <2>5. HeadOK'
        <3>1. Reading(c)' /\ c \notin hdr'
            BY <1>1, <2>1 DEF Reading, Visiting
        <3>2. \A d \in Conns : Visiting(d)' => d = c
            BY <1>1, <2>1 DEF Visiting
        <3> QED
            BY <2>1, <2>2, <3>1, <3>2 DEF BytesInv, HeadOK
    <2> QED
        BY <2>3, <2>4, <2>5 DEF BytesInv
<1>4. CASE HeadLost(c) \/ HeadRefused(c)
    <2>1. PICK ret \in {"CLOSED", "ABORT"} : ScanRead(c, ret)
        BY <1>4 DEF HeadLost, HeadRefused
    <2>2. /\ UNCHANGED <<cur, hdr, file, link, ask, reply, src, pend, left>> /\ half' = 0
          /\ eintr' \in BOOLEAN /\ hq' \in [Conns -> 0..2]
        <3>1. CASE HeadLost(c)
            BY <1>1, <3>1 DEF HeadLost, net
        <3>2. CASE HeadRefused(c)
            <4>1. UNCHANGED <<cur, hdr, file, link, ask, reply, src, pend, left, eintr>>
                BY <3>2 DEF HeadRefused, HeadArrives
            <4>2. half' = 0 /\ hq' = [hq EXCEPT ![c] = 0]
                BY <3>2 DEF HeadRefused, HeadArrives
            <4>3. eintr' \in BOOLEAN
                BY <4>1 DEF BytesInv, NamesOK
            <4> QED
                BY <1>1, <4>1, <4>2, <4>3
        <3> QED
            BY <1>4, <3>1, <3>2
    <2>3. EndOK' /\ eow' = eow
        BY <1>0, <1>2, <2>1, <2>2, ReturnKeepsEnds
    <2>4. ShapeOK' /\ NamesOK' /\ StoredOK' /\ WireOK' /\ AskOK'
        BY <2>2, <2>3 DEF BytesInv, ShapeOK, NamesOK, StoredOK, ReceivedIsRight, WireOK, AskOK
    <2>5. HeadOK'
        <3>1. \A d \in Conns : half' + hq'[d] <= 2
            BY <2>2
        <3> QED
            BY <2>2, <3>1 DEF BytesInv, HeadOK
    <2> QED
        BY <2>3, <2>4, <2>5 DEF BytesInv
<1>5. CASE HeadAccepted(c)
    <2> DEFINE n == Least(pend[c], HeadRoom)
    <2>1. /\ Store(c, n) /\ hdr' = hdr \cup {c} /\ half' = 0 /\ hq' = [hq EXCEPT ![c] = 0]
          /\ UNCHANGED <<eintr, link, ask, reply, left>> /\ reply[c] \in {"range", "whole"}
          /\ IF cur'[c] = Last(c) THEN ScanRead(c, "CLOSED") ELSE UNCHANGED vars
        BY <1>5 DEF HeadAccepted, HeadArrives
    <2>2. reply[c] = "range" /\ pend[c] \in Nat
        BY <2>1 DEF BytesInv, NamesOK, ShapeOK, HonoursRanges
    <2>3. n \in Nat /\ n <= pend[c]
        BY <2>2, HttpAssumption DEF Least
    <2> HIDE DEF n
    <2>4. /\ cur' = [cur EXCEPT ![c] = @ + n] /\ src' = [src EXCEPT ![c] = @ + n]
          /\ pend' = [pend EXCEPT ![c] = @ - n]
          /\ cur'[c] = cur[c] + n /\ src'[c] = src[c] + n /\ pend'[c] = pend[c] - n
          /\ cur' \in [Conns -> Nat] /\ src' \in [Conns -> Nat] /\ pend' \in [Conns -> Nat]
          /\ file' \in [0..(FileSize - 1) -> 0..FileSize] /\ StoredOK'
        BY <2>1, <2>2, <2>3, StoreIsRight
    <2>5. hq' \in [Conns -> 0..2]
        BY <1>1, <2>1
    <2>6. eow' = eow /\ EndOK'
        <3>1. \A d \in Conns \ {c} : cur'[d] = cur[d]
            BY <2>4 DEF BytesInv, ShapeOK
        <3>2. CASE cur'[c] = Last(c)
            <4>1. ScanRead(c, "CLOSED")
                BY <2>1, <3>2
            <4> QED
                BY <1>0, <3>1, <4>1, ReturnKeepsEnds
        <3>3. CASE cur'[c] # Last(c)
            <4>1. UNCHANGED <<pc, pos, rfds, wfds, open, active, eow>>
                BY <2>1, <3>3 DEF vars, fdsets, conns
            <4>2. Reading(c)' /\ c \in hdr' /\ c \in active
                BY <1>1, <2>1, <4>1 DEF Reading, Visiting
            <4>3. \A d \in active \ {c} : cur[d] < Last(d)
                BY <1>1 DEF BytesInv, EndOK, Reading, Visiting
            <4>4. \A d \in open' \ active' : d # c /\ d \in open \ active /\ d \in Conns
                BY <1>0, <4>1, <4>2 DEF LoopTypeOK
            <4>5. KeptIsComplete'
                BY <3>1, <4>1, <4>4 DEF BytesInv, EndOK, KeptIsComplete
            <4>6. \A d \in active' : cur'[d] < Last(d) \/ (Reading(d)' /\ d \in hdr')
                BY <1>0, <3>1, <4>1, <4>2, <4>3 DEF LoopTypeOK
            <4> QED
                BY <4>1, <4>5, <4>6 DEF EndOK
        <3> QED
            BY <3>2, <3>3
    <2>7. ShapeOK' /\ NamesOK'
        BY <2>1, <2>4, <2>5 DEF BytesInv, ShapeOK, NamesOK
    <2>8. HeadOK'
        <3>1. \A d \in Conns : half' + hq'[d] <= 2
            BY <2>1, <2>5
        <3>2. \A d \in Conns : d \notin hdr' => d \notin hdr /\ cur'[d] = cur[d]
            BY <2>1, <2>4 DEF BytesInv, ShapeOK
        <3> QED
            BY <2>1, <3>1, <3>2 DEF BytesInv, HeadOK
    <2>9. AskOK'
        <3>1. \A d \in Conns : d \notin hdr' => d \notin hdr /\ cur'[d] = cur[d]
            BY <2>1, <2>4 DEF BytesInv, ShapeOK
        <3> QED
            BY <2>1, <2>6, <3>1 DEF BytesInv, AskOK
    <2>10. WireOK'
        <3>1. First(c) <= cur[c] /\ src[c] = cur[c] /\ src[c] + pend[c] + left[c] = Bound(c)
            BY <2>2 DEF BytesInv, WireOK
        <3>2. cur[c] \in Nat /\ left[c] \in Nat /\ First(c) \in Nat /\ Bound(c) \in Nat
            BY ChunkBounds DEF BytesInv, ShapeOK
        <3>3. /\ First(c) <= cur'[c] /\ cur'[c] <= Bound(c) /\ src'[c] = cur'[c]
              /\ src'[c] + pend'[c] + left[c] = Bound(c)
            <4>1. cur'[c] = cur[c] + n /\ src'[c] = cur[c] + n /\ pend'[c] = pend[c] - n
                BY <2>4, <3>1
            <4>2. cur[c] + pend[c] + left[c] = Bound(c)
                BY <3>1
            <4> QED
                BY <2>2, <2>3, <3>1, <3>2, <4>1, <4>2
        <3>4. ASSUME NEW d \in Conns \ {c}
              PROVE  cur'[d] = cur[d] /\ src'[d] = src[d] /\ pend'[d] = pend[d]
            BY <2>4 DEF BytesInv, ShapeOK
        <3> QED
            BY <2>1, <2>2, <3>3, <3>4 DEF BytesInv, WireOK
    <2> QED
        BY <2>4, <2>6, <2>7, <2>8, <2>9, <2>10 DEF BytesInv
<1> QED
    BY <1>3, <1>4, <1>5

LEMMA BodyKeepsBytes ==
    ASSUME BytesInv, LoopInv, NEW c \in Conns, BodyRead(c) \/ BodyEnd(c) \/ BodyFails(c)
    PROVE  BytesInv'
<1>0. LoopTypeOK
    BY DEF LoopInv
<1>1. c \in hdr /\ Reading(c) /\ reply[c] = "range"
    BY DEF BodyRead, BodyEnd, BodyFails, BytesInv, WireOK
<1>2. half = 0
    BY <1>1 DEF BytesInv, HeadOK, Reading, Visiting
<1>3. cur[c] \in Nat /\ Last(c) \in Nat
    BY ChunkBounds DEF BytesInv, ShapeOK
<1>4. CASE BodyEnd(c) \/ BodyFails(c)
    <2>1. PICK r \in {"CLOSED", "ABORT"} : ScanRead(c, Returned(c, r))
        BY <1>4 DEF BodyEnd, BodyFails
    <2>2. /\ UNCHANGED <<cur, hdr, half, file, link, ask, reply, hq, src, pend, left>>
          /\ eintr' \in BOOLEAN
        BY <1>4 DEF BodyEnd, BodyFails, chunks, net, BytesInv, NamesOK
    <2>3. /\ Returned(c, r) = "FINISHED" => cur'[c] >= Last(c)
          /\ Returned(c, r) \in {"ABORT", "more"} => cur'[c] < Last(c)
        BY <1>3, <2>2 DEF Returned
    <2>4. EndOK' /\ eow' = eow
        BY <1>0, <2>1, <2>2, <2>3, ReturnKeepsEnds
    <2>5. ShapeOK' /\ NamesOK' /\ StoredOK' /\ WireOK' /\ AskOK'
        BY <2>2, <2>4 DEF BytesInv, ShapeOK, NamesOK, StoredOK, ReceivedIsRight, WireOK, AskOK
    <2>6. HeadOK'
        <3>1. \A d \in Conns : hq[d] \in 0..2
            BY DEF BytesInv, ShapeOK
        <3>2. \A d \in Conns : half' + hq'[d] <= 2
            BY <1>2, <2>2, <3>1
        <3> QED
            BY <1>2, <2>2, <3>2 DEF BytesInv, HeadOK
    <2> QED
        BY <2>4, <2>5, <2>6 DEF BytesInv
<1>5. CASE BodyRead(c)
    <2> DEFINE n == IF cur[c] <= Last(c) THEN Least(pend[c], Last(c) - cur[c]) ELSE pend[c]
    <2>1. /\ Store(c, n) /\ UNCHANGED <<hdr, half, eintr, link, ask, reply, hq, left>>
          /\ ScanRead(c, IF cur[c] + n >= Last(c) THEN "FINISHED" ELSE "more")
        BY <1>5 DEF BodyRead
    <2>2. pend[c] \in Nat
        BY DEF BytesInv, ShapeOK
    <2>3. n \in Nat /\ n <= pend[c]
        BY <1>3, <2>2 DEF Least
    <2> HIDE DEF n
    <2>4. /\ cur' = [cur EXCEPT ![c] = @ + n] /\ src' = [src EXCEPT ![c] = @ + n]
          /\ pend' = [pend EXCEPT ![c] = @ - n]
          /\ cur'[c] = cur[c] + n /\ src'[c] = src[c] + n /\ pend'[c] = pend[c] - n
          /\ cur' \in [Conns -> Nat] /\ src' \in [Conns -> Nat] /\ pend' \in [Conns -> Nat]
          /\ file' \in [0..(FileSize - 1) -> 0..FileSize] /\ StoredOK'
        BY <1>1, <2>1, <2>3, StoreIsRight
    <2>5. \A d \in Conns \ {c} : cur'[d] = cur[d] /\ src'[d] = src[d] /\ pend'[d] = pend[d]
        BY <2>4 DEF BytesInv, ShapeOK
    <2>6. EndOK' /\ eow' = eow
        <3>1. CASE cur[c] + n >= Last(c)
            <4>1. ScanRead(c, "FINISHED") /\ cur'[c] >= Last(c)
                BY <2>1, <2>4, <3>1
            <4> QED
                BY <1>0, <2>5, <4>1, ReturnKeepsEnds
        <3>2. CASE ~(cur[c] + n >= Last(c))
            <4>1. ScanRead(c, "more") /\ cur'[c] < Last(c)
                BY <1>3, <2>1, <2>3, <2>4, <3>2
            <4> QED
                BY <1>0, <2>5, <4>1, ReturnKeepsEnds
        <3> QED
            BY <3>1, <3>2
    <2>7. ShapeOK' /\ NamesOK'
        BY <2>1, <2>4 DEF BytesInv, ShapeOK, NamesOK
    <2>8. HeadOK'
        <3>1. \A d \in Conns : hq[d] \in 0..2
            BY DEF BytesInv, ShapeOK
        <3>2. \A d \in Conns : half' + hq'[d] <= 2
            BY <1>2, <2>1, <3>1
        <3> QED
            BY <1>1, <1>2, <2>1, <2>5, <3>2 DEF BytesInv, HeadOK
    <2>9. AskOK'
        BY <1>1, <2>1, <2>5, <2>6 DEF BytesInv, AskOK
    <2>10. WireOK'
        <3>1. First(c) <= cur[c] /\ src[c] = cur[c] /\ src[c] + pend[c] + left[c] = Bound(c)
            BY <1>1 DEF BytesInv, WireOK
        <3>2. left[c] \in Nat /\ First(c) \in Nat /\ Bound(c) \in Nat
            BY ChunkBounds DEF BytesInv, ShapeOK
        <3>3. /\ First(c) <= cur'[c] /\ cur'[c] <= Bound(c) /\ src'[c] = cur'[c]
              /\ src'[c] + pend'[c] + left[c] = Bound(c)
            <4>1. cur'[c] = cur[c] + n /\ src'[c] = cur[c] + n /\ pend'[c] = pend[c] - n
                BY <2>4, <3>1
            <4>2. cur[c] + pend[c] + left[c] = Bound(c)
                BY <3>1
            <4> QED
                BY <1>3, <2>2, <2>3, <3>1, <3>2, <4>1, <4>2
        <3> QED
            BY <1>1, <2>1, <2>5, <3>3 DEF BytesInv, WireOK
    <2> QED
        BY <2>4, <2>6, <2>7, <2>8, <2>9, <2>10 DEF BytesInv
<1> QED
    BY <1>4, <1>5

\* The user, the network and the server leave the loop and the chunks alone.
LEMMA NetKeepsBytes ==
    ASSUME BytesInv, LoopInv, HonoursRanges, NEW c \in Conns, Serve(c) \/ HangUp(c) \/ Drop(c)
    PROVE  BytesInv'
<1>1. UNCHANGED <<pc, pos, rfds, wfds, open, active, eow, cur, hdr, half, file, eintr, ask>>
    BY DEF Serve, Connect, Reply, ReplyHead, ReplyBody, HangUp, Drop, vars, fdsets, conns, chunks
<1>2. StoredOK' /\ EndOK'
    BY <1>1 DEF BytesInv, StoredOK, ReceivedIsRight, EndOK, KeptIsComplete, Reading, Visiting
<1>3. \A d \in Conns : Visiting(d)' = Visiting(d) /\ Reading(d)' = Reading(d)
    BY <1>1 DEF Visiting, Reading
<1>4. CASE Connect(c) \/ HangUp(c) \/ Drop(c)
    <2>1. UNCHANGED <<reply, hq, src, pend, left>>
        BY <1>4 DEF Connect, HangUp, Drop
    <2>2. link' \in [Conns -> {"connecting", "up"} \cup Broken]
        BY <1>4, HttpAssumption DEF Connect, HangUp, Drop, Broken, BytesInv, NamesOK
    <2>3. ShapeOK' /\ NamesOK' /\ HeadOK' /\ WireOK' /\ AskOK'
        BY <1>1, <1>3, <2>1, <2>2 DEF BytesInv, ShapeOK, NamesOK, HeadOK, WireOK, AskOK
    <2> QED
        BY <1>2, <2>3 DEF BytesInv
<1>5. CASE Reply(c)
    <2>1. PICK r \in Answers :
             /\ reply' = [reply EXCEPT ![c] = r]
             /\ src' = [src EXCEPT ![c] = IF r = "range" THEN ask[c] ELSE 0]
             /\ left' = [left EXCEPT ![c] =
                    CASE r = "range" -> Least(Last(c) + 1, FileSize) - ask[c]
                      [] r = "whole" -> FileSize
                      [] OTHER -> 0]
        BY <1>5 DEF Reply
    <2>2. /\ ask[c] # NotAsked /\ reply[c] = "none" /\ hq' = [hq EXCEPT ![c] = 1]
          /\ UNCHANGED <<link, pend>>
        BY <1>5 DEF Reply
    <2>3. c \notin hdr /\ ask[c] = cur[c] /\ pend[c] = 0 /\ r # "whole" /\ r # "none"
        BY <2>2, HttpAssumption DEF BytesInv, WireOK, AskOK, HonoursRanges
    <2>4. cur[c] \in Nat /\ First(c) <= cur[c] /\ cur[c] <= Bound(c) /\ Bound(c) \in Nat
        BY ChunkBounds DEF BytesInv, WireOK, ShapeOK
    <2> DEFINE s == IF r = "range" THEN cur[c] ELSE 0
               l == IF r = "range" THEN Bound(c) - cur[c] ELSE 0
    <2>5. src' = [src EXCEPT ![c] = s] /\ left' = [left EXCEPT ![c] = l]
        BY <2>1, <2>3 DEF Bound
    <2>6. s \in Nat /\ l \in Nat /\ (r = "range" => s + 0 + l = Bound(c))
        BY <2>4
    <2>7. /\ (r = "range" => s = cur[c]) /\ (r # "range" => s = 0 /\ l = 0)
        OBVIOUS
    <2> HIDE DEF s, l
    <2>8. ShapeOK'
        BY <1>1, <2>2, <2>5, <2>6 DEF BytesInv, ShapeOK
    <2>9. NamesOK'
        BY <1>1, <2>1, <2>2 DEF BytesInv, NamesOK
    <2>10. HeadOK'
        <3>1. half \in 0..1 /\ \A d \in Conns : hq'[d] = IF d = c THEN 1 ELSE hq[d]
            BY <2>2 DEF BytesInv, ShapeOK
        <3>2. \A d \in Conns : Visiting(d) => half + hq'[d] <= 2
            BY <3>1 DEF BytesInv, HeadOK
        <3> QED
            BY <1>1, <1>3, <3>2 DEF BytesInv, HeadOK
    <2>11. \A d \in Conns : reply'[d] = IF d = c THEN r ELSE reply[d]
        BY <2>1 DEF BytesInv, NamesOK
    <2>12. AskOK'
        BY <1>1, <2>2, <2>11 DEF BytesInv, AskOK
    <2>13. WireOK'
        <3>1. src'[c] = s /\ left'[c] = l /\ pend'[c] = 0
            BY <2>2, <2>3, <2>5 DEF BytesInv, ShapeOK
        <3>2. \A d \in Conns \ {c} : src'[d] = src[d] /\ left'[d] = left[d]
            BY <2>5 DEF BytesInv, ShapeOK
        <3> QED
            BY <1>1, <2>2, <2>3, <2>6, <2>7, <2>11, <3>1, <3>2 DEF BytesInv, WireOK
    <2> QED
        BY <1>2, <2>8, <2>9, <2>10, <2>12, <2>13 DEF BytesInv
<1>6. CASE ReplyHead(c)
    <2>1. /\ UNCHANGED <<link, reply, src, pend, left>> /\ hq' = [hq EXCEPT ![c] = @ + 1]
          /\ HeadSent(c) = 1
        BY <1>6 DEF ReplyHead
    <2>2. hq \in [Conns -> 0..2] /\ half \in 0..1
        BY DEF BytesInv, ShapeOK
    <2>3. HeadSent(c) = hq[c] + IF Visiting(c) THEN half ELSE 0
        BY DEF HeadSent, Visiting
    <2>4. hq'[c] = hq[c] + 1 /\ hq[c] + 1 \in 0..2 /\ (Visiting(c) => half + (hq[c] + 1) <= 2)
        BY <2>1, <2>2, <2>3
    <2>5. hq' \in [Conns -> 0..2] /\ \A d \in Conns \ {c} : hq'[d] = hq[d]
        BY <2>1, <2>2, <2>4
    <2>6. HeadOK'
        BY <1>1, <1>3, <2>4, <2>5 DEF BytesInv, HeadOK
    <2>7. ShapeOK' /\ NamesOK' /\ WireOK' /\ AskOK'
        BY <1>1, <2>1, <2>5 DEF BytesInv, ShapeOK, NamesOK, WireOK, AskOK
    <2> QED
        BY <1>2, <2>6, <2>7 DEF BytesInv
<1>7. CASE ReplyBody(c)
    <2>1. /\ UNCHANGED <<link, reply, hq, src>> /\ left[c] > 0
          /\ pend' = [pend EXCEPT ![c] = @ + 1] /\ left' = [left EXCEPT ![c] = @ - 1]
        BY <1>7 DEF ReplyBody
    <2>2. pend \in [Conns -> Nat] /\ left \in [Conns -> Nat] /\ src[c] \in Nat
        BY DEF BytesInv, ShapeOK
    <2>3. /\ pend'[c] = pend[c] + 1 /\ left'[c] = left[c] - 1
          /\ pend[c] + 1 \in Nat /\ left[c] - 1 \in Nat
          /\ \A d \in Conns \ {c} : pend'[d] = pend[d] /\ left'[d] = left[d]
        BY <2>1, <2>2
    <2>4. pend' \in [Conns -> Nat] /\ left' \in [Conns -> Nat]
        BY <2>1, <2>2, <2>3
    <2>5. reply[c] = "range"
        BY <2>1 DEF BytesInv, WireOK
    <2>6. src[c] + pend'[c] + left'[c] = src[c] + pend[c] + left[c]
        BY <2>2, <2>3
    <2>7. WireOK'
        BY <1>1, <2>1, <2>3, <2>5, <2>6 DEF BytesInv, WireOK
    <2>8. ShapeOK' /\ NamesOK' /\ HeadOK' /\ AskOK'
        BY <1>1, <1>3, <2>1, <2>4 DEF BytesInv, ShapeOK, NamesOK, HeadOK, AskOK
    <2> QED
        BY <1>2, <2>7, <2>8 DEF BytesInv
<1> QED
    BY <1>4, <1>5, <1>6, <1>7 DEF Serve

LEMMA InterruptKeepsBytes ==
    ASSUME BytesInv, HttpInterrupt
    PROVE  BytesInv'
<1>1. /\ UNCHANGED <<cur, hdr, half, file, link, ask, reply, hq, src, pend, left>>
      /\ UNCHANGED <<pc, pos, rfds, wfds, open, active, eow>>
    BY DEF HttpInterrupt, Interrupt, vars, fdsets, conns, chunks, net
<1>2. eintr' \in BOOLEAN
    BY DEF HttpInterrupt, Blocked
<1>3. \A d \in Conns : Visiting(d)' = Visiting(d) /\ Reading(d)' = Reading(d)
    BY <1>1 DEF Visiting, Reading
<1>4. ShapeOK' /\ NamesOK' /\ HeadOK' /\ AskOK' /\ WireOK'
    BY <1>1, <1>2, <1>3 DEF BytesInv, ShapeOK, NamesOK, HeadOK, AskOK, WireOK
<1>5. EndOK'
    BY <1>1 DEF BytesInv, EndOK, KeptIsComplete, Reading, Visiting
<1>6. StoredOK'
    BY <1>1 DEF BytesInv, StoredOK, ReceivedIsRight
<1> QED
    BY <1>4, <1>5, <1>6 DEF BytesInv

LEMMA BytesStep ==
    ASSUME BytesInv, LoopInv, HonoursRanges, [HttpNext]_httpVars
    PROVE  BytesInv'
<1>1. CASE UNCHANGED httpVars
    <2>1. UNCHANGED <<cur, hdr, half, file, eintr, link, ask, reply, hq, src, pend, left,
                      pc, pos, rfds, wfds, open, active, eow>>
        BY <1>1 DEF httpVars, vars, fdsets, conns, chunks, net
    <2>2. \A d \in Conns : Visiting(d)' = Visiting(d) /\ Reading(d)' = Reading(d)
        BY <2>1 DEF Visiting, Reading
    <2>3. ShapeOK' /\ NamesOK' /\ HeadOK' /\ AskOK' /\ WireOK'
        BY <2>1, <2>2 DEF BytesInv, ShapeOK, NamesOK, HeadOK, AskOK, WireOK
    <2>4. EndOK'
        BY <2>1 DEF BytesInv, EndOK, KeptIsComplete, Reading, Visiting
    <2>5. StoredOK'
        BY <2>1 DEF BytesInv, StoredOK, ReceivedIsRight
    <2> QED
        BY <2>3, <2>4, <2>5 DEF BytesInv
<1>2. CASE HttpNext
    BY <1>2, LoopKeepsBytes, WriteKeepsBytes, HeadKeepsBytes, BodyKeepsBytes, NetKeepsBytes,
       InterruptKeepsBytes DEF HttpNext, HttpStep
<1> QED
    BY <1>1, <1>2

\* With the invariant of the loop, which the transfer implements.
LEMMA BytesInvariant ==
    ASSUME HonoursRanges
    PROVE  HttpSpec => [](LoopInv /\ BytesInv)
<1>1. HttpInit => LoopInv /\ BytesInv
    BY BytesInit, InitLoopInv DEF HttpInit
<1>2. LoopInv /\ [HttpNext]_httpVars => LoopInv'
    BY HttpStepIsLoop, CntStep, TypeStep, BitsStep DEF LoopInv
<1>3. BytesInv /\ LoopInv /\ [HttpNext]_httpVars => BytesInv'
    BY BytesStep
<1> QED
    BY <1>1, <1>2, <1>3, PTL DEF HttpSpec

-------------------------------------------------------------------------------
(* What the runs check.                                                    *)

\* Each position stays within one byte of its chunk, and what is in flight within one
\* byte of a file (http_read_sock, http_write_sock).
THEOREM HttpTypeCorrect ==
    ASSUME HonoursRanges
    PROVE  HttpSpec => []HttpTypeOK
<1>1. LoopInv /\ BytesInv => HttpTypeOK
    <2> SUFFICES ASSUME LoopInv, BytesInv PROVE HttpTypeOK
        OBVIOUS
    <2>1. ASSUME NEW c \in Conns
          PROVE  /\ cur[c] \in First(c)..(Last(c) + 1)
                 /\ src[c] \in 0..FileSize /\ pend[c] \in 0..FileSize
                 /\ left[c] \in 0..FileSize
        <3>1. /\ First(c) \in Nat /\ Last(c) \in Nat /\ Bound(c) \in Nat /\ FileSize \in Nat
              /\ Bound(c) <= Last(c) + 1 /\ Bound(c) <= FileSize
            BY ChunkBounds
        <3>2. cur[c] \in Nat /\ src[c] \in Nat /\ pend[c] \in Nat /\ left[c] \in Nat
            BY DEF BytesInv, ShapeOK
        <3>3. First(c) <= cur[c] /\ cur[c] <= Bound(c)
            BY DEF BytesInv, WireOK
        <3>4. src[c] + pend[c] + left[c] <= FileSize
            BY <3>1, <3>2 DEF BytesInv, WireOK
        <3> QED
            BY <3>1, <3>2, <3>3, <3>4
    <2>2. /\ src \in [Conns -> 0..FileSize] /\ pend \in [Conns -> 0..FileSize]
          /\ left \in [Conns -> 0..FileSize]
        BY <2>1 DEF BytesInv, ShapeOK
    <2>3. LoopTypeOK
        BY DEF LoopInv
    <2>4. NamesOK /\ ShapeOK
        BY DEF BytesInv
    <2> QED
        BY <2>1, <2>2, <2>3, <2>4 DEF HttpTypeOK, NamesOK, ShapeOK
<1> QED
    BY <1>1, BytesInvariant, PTL

\* What is counted as received is right, byte for byte: a callback that is interrupted, a
\* range that is a byte too long and a chunk that is resumed store nothing amiss, in their
\* own chunk or in the next (http_read_sock).
THEOREM HttpReceivesRight ==
    ASSUME HonoursRanges
    PROVE  HttpSpec => []ReceivedIsRight
<1>1. LoopInv /\ BytesInv => ReceivedIsRight
    BY DEF BytesInv, StoredOK
<1> QED
    BY <1>1, BytesInvariant, PTL

\* A connection that is over and still open, and may be used again, has its whole chunk
\* (http_read_sock, do_perform_select).
THEOREM KeptConnectionsAreDone ==
    ASSUME HonoursRanges
    PROVE  HttpSpec => []KeptIsComplete
<1>1. LoopInv /\ BytesInv => KeptIsComplete
    BY DEF BytesInv, EndOK
<1> QED
    BY <1>1, BytesInvariant, PTL

\* The loop never waits in select() for a connection whose chunk is complete, although the
\* header may have brought more than the whole chunk (http_read_sock).
THEOREM NoWaitForComplete ==
    ASSUME HonoursRanges
    PROVE  HttpSpec => []WaitedIsIncomplete
<1>1. LoopInv /\ BytesInv => WaitedIsIncomplete
    BY DEF BytesInv, EndOK, Reading, Visiting, WaitedIsIncomplete
<1> QED
    BY <1>1, BytesInvariant, PTL
===============================================================================
