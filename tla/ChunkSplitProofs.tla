--------------------------- MODULE ChunkSplitProofs ---------------------------
(***************************************************************************)
(* ChunkSplit for every package size and every number of chunks.           *)
(***************************************************************************)
EXTENDS ChunkSplit, TLAPS

-------------------------------------------------------------------------------
(* Division.                                                               *)

\* What chunk_split's integer division leaves: a quotient and a smaller remainder.
LEMMA Division ==
    ASSUME NEW a \in Nat, NEW b \in Nat \ {0}
    PROVE  /\ a \div b \in Nat
           /\ a % b \in 0..(b - 1)
           /\ a = b * (a \div b) + (a % b)
    OBVIOUS

\* Sharing among more chunks does not make the share larger than the package.
LEMMA QuotientIsSmaller ==
    ASSUME NEW a \in Nat, NEW b \in Nat \ {0}
    PROVE  a \div b <= a
<1>1. a \div b \in Nat /\ a >= b * (a \div b)
    BY Division
<1>2. b * (a \div b) >= 1 * (a \div b)
    BY <1>1
<1> QED
    BY <1>1, <1>2

\* RoundUp is what its definition asks for.
LEMMA RoundUpIsAbove ==
    ASSUME NEW q \in 1..MaxSize
    PROVE  RoundUp(q) \in Nat /\ q < RoundUp(q)
<1> DEFINE Next2(p) == q < p /\ p <= 2 * q
<1>1. \E p \in PowersOfTwo : Next2(p)
    BY SplitAssumption
<1> HIDE DEF Next2
<1>2. LET r == CHOOSE p \in PowersOfTwo : Next2(p) IN r \in PowersOfTwo /\ Next2(r)
    BY <1>1, Zenon
<1> USE DEF Next2
<1>3. RoundUp(q) \in PowersOfTwo /\ Next2(RoundUp(q))
    BY <1>2, Zenon DEF RoundUp
<1> QED
    BY <1>3, SplitAssumption, Zenon

\* The chunk size: a multiple of the least one, above the even share of the
\* package unless the share does not exceed the least chunk.
LEMMA ChunkSizeBounds ==
    ASSUME NEW s \in 1..MaxSize, NEW n \in Nat \ {0}
    PROVE  /\ ChunkSize(s, n) \in Nat \ {0}
           /\ s \div n <= MinChunk => ChunkSize(s, n) = MinChunk
           /\ s \div n > MinChunk => ChunkSize(s, n) > s \div n
<1> DEFINE even == s \div n
<1> DEFINE q == even \div MinChunk
<1>0. MinChunk \in Nat \ {0} /\ even \in Nat /\ even <= s /\ MaxSize \in Nat
    BY SplitAssumption, Division, QuotientIsSmaller
<1>1. CASE even <= MinChunk
    BY <1>0, <1>1 DEF ChunkSize
<1>2. CASE even > MinChunk
    <2>1. q \in Nat /\ even % MinChunk \in 0..(MinChunk - 1) 
          /\ even = MinChunk * q + (even % MinChunk) /\ q <= even
        BY <1>0, Division, QuotientIsSmaller
    <2>2. q \in 1..MaxSize
        <3>1. q # 0
            BY <1>0, <1>2, <2>1
        <3> QED
            BY <1>0, <2>1, <3>1
    <2>3. RoundUp(q) \in Nat /\ RoundUp(q) >= q + 1
        BY <2>1, <2>2, RoundUpIsAbove
    <2> HIDE DEF q
    <2>4. RoundUp(q) * MinChunk >= (q + 1) * MinChunk
        BY <1>0, <2>1, <2>3
    <2>5. (q + 1) * MinChunk > even
        BY <1>0, <2>1
    <2>6. RoundUp(q) * MinChunk \in Nat
        BY <1>0, <2>3
    <2>7. ChunkSize(s, n) = RoundUp(q) * MinChunk
        BY <1>0, <1>2 DEF ChunkSize, q
    <2> QED
        BY <1>0, <1>2, <2>1, <2>3, <2>4, <2>5, <2>6, <2>7
<1> QED
    BY <1>0, <1>1, <1>2

-------------------------------------------------------------------------------
(* The inductive invariant.                                                *)

Position(i) == i * cs

\* Chunk i in closed form.
ChunksAreMultiples ==
    \A i \in 1..Len(dc) :
        /\ dc[i].start_pos = Position(i - 1)
        /\ dc[i].cur_pos = Position(i - 1)
        /\ dc[i].end_pos = IF Position(i) >= size THEN size ELSE Position(i)
        /\ Position(i - 1) < size

\* The loop goes on only as long as the package does, and num is corrected only
\* when its end is reached.
LoopGoesOn ==
    /\ Len(dc) < num => Position(Len(dc)) < size
    /\ num = asked \/ (Split /\ Position(num) >= size)

SplitInv ==
    /\ SplitTypeOK
    /\ size \in 1..MaxSize
    /\ cs = ChunkSize(size, asked)
    /\ ChunksAreMultiples
    /\ LoopGoesOn

\* The strengthened invariant holds when chunk_split enters its loop ...
LEMMA InitSplitInv == SplitInit => SplitInv
<1> SUFFICES ASSUME SplitInit PROVE SplitInv
    OBVIOUS
<1>1. size \in 1..MaxSize /\ size \in Nat \ {0}
    BY SplitAssumption DEF SplitInit
<1>2. asked \in Nat \ {0}
    BY SplitAssumption DEF SplitInit
<1>3. cs = ChunkSize(size, asked) /\ num = asked /\ dc = <<>>
    BY DEF SplitInit
<1>4. cs \in Nat \ {0}
    BY <1>1, <1>2, <1>3, ChunkSizeBounds
<1>5. Position(0) = 0
    BY <1>4 DEF Position
<1> QED
    BY <1>1, <1>2, <1>3, <1>4, <1>5
    DEF SplitInv, SplitTypeOK, ChunksAreMultiples, LoopGoesOn

\* ... and cutting off one more chunk keeps it.
LEMMA NextSplitInv == SplitInv /\ [SplitChunk]_splitVars => SplitInv'
<1> SUFFICES ASSUME SplitInv, [SplitChunk]_splitVars PROVE SplitInv'
    OBVIOUS
<1>1. CASE SplitChunk
    <2> DEFINE i == Len(dc)
    <2> DEFINE end == i * cs + cs
    <2> DEFINE chunk == [start_pos |-> i * cs, cur_pos |-> i * cs,
                         end_pos |-> IF end >= size THEN size ELSE end]
    <2>1. /\ size \in Nat \ {0} /\ cs \in Nat \ {0} /\ num \in 1..asked
          /\ asked \in Nat \ {0} /\ i \in Nat /\ i < num
          /\ dc \in Seq([start_pos : Nat, cur_pos : Nat, end_pos : 1..size])
        BY <1>1 DEF SplitInv, SplitTypeOK, SplitChunk, Split
    <2>2. /\ size' = size /\ asked' = asked /\ cs' = cs
          /\ dc' = Append(dc, chunk)
          /\ num' = IF end >= size THEN i + 1 ELSE num
        BY <1>1 DEF SplitChunk
    <2>3. i * cs \in Nat /\ end \in Nat \ {0} /\ end = Position(i + 1)
        BY <2>1 DEF Position
    <2>4. Len(dc') = i + 1 /\ dc'[i + 1] = chunk /\ \A j \in 1..i : dc'[j] = dc[j]
        BY <2>1, <2>2
    <2>5. num = asked /\ Position(i) < size
        BY <2>1 DEF SplitInv, LoopGoesOn, Split
    <2>6. SplitTypeOK'
        <3>1. chunk \in [start_pos : Nat, cur_pos : Nat, end_pos : 1..size]
            BY <2>1, <2>3
        <3> HIDE DEF chunk, end
        <3>2. dc' \in Seq([start_pos : Nat, cur_pos : Nat, end_pos : 1..size])
            BY <2>1, <2>2, <3>1
        <3> QED
            BY <2>1, <2>2, <2>4, <3>2 DEF SplitTypeOK
    <2>7. ChunksAreMultiples'
        <3> SUFFICES ASSUME NEW j \in 1..Len(dc')
                     PROVE  /\ dc'[j].start_pos = Position(j - 1)
                            /\ dc'[j].cur_pos = Position(j - 1)
                            /\ dc'[j].end_pos = IF Position(j) >= size THEN size
                                                                      ELSE Position(j)
                            /\ Position(j - 1) < size
            BY <2>2 DEF ChunksAreMultiples, Position
        <3>1. CASE j = i + 1
            BY <2>1, <2>3, <2>4, <2>5, <3>1 DEF Position
        <3>2. CASE j \in 1..i
            BY <2>4, <3>2 DEF SplitInv, ChunksAreMultiples
        <3> QED
            BY <2>1, <2>4, <3>1, <3>2
    <2>8. LoopGoesOn'
        <3>1. CASE end >= size
            BY <2>1, <2>2, <2>3, <2>4, <3>1 DEF LoopGoesOn, Split, Position
        <3>2. CASE ~(end >= size)
            BY <2>1, <2>2, <2>3, <2>4, <2>5, <3>2 DEF LoopGoesOn, Split, Position
        <3> QED
            BY <3>1, <3>2
    <2> QED
        BY <2>2, <2>6, <2>7, <2>8 DEF SplitInv
<1>2. CASE UNCHANGED splitVars
    BY <1>2 DEF splitVars, SplitInv, SplitTypeOK, ChunksAreMultiples, LoopGoesOn,
                Split, Position
<1> QED
    BY <1>1, <1>2

\* The strengthened invariant holds throughout chunk_split.
LEMMA SplitInvariant == SplitSpec => []SplitInv
<1> QED
    BY InitSplitInv, NextSplitInv, PTL DEF SplitSpec

-------------------------------------------------------------------------------
(* The theorems.                                                           *)

\* Every chunk lies within the package, for every package and number of chunks.
THEOREM SplitTypeCorrect == SplitSpec => []SplitTypeOK
<1>1. SplitInv => SplitTypeOK
    BY DEF SplitInv
<1> QED
    BY <1>1, SplitInvariant, PTL

\* chunk_split never makes two chunks overlap, leaves a gap between them or
\* makes an empty one.
THEOREM ChunksNeverOverlap == SplitSpec => []ChunksAreDisjoint
<1>1. SplitInv => ChunksAreDisjoint
    <2> SUFFICES ASSUME SplitInv, NEW i \in 1..Len(dc)
                 PROVE  /\ dc[i].start_pos = IF i = 1 THEN 0 ELSE dc[i - 1].end_pos
                        /\ dc[i].start_pos < dc[i].end_pos
                        /\ dc[i].cur_pos = dc[i].start_pos
        BY DEF ChunksAreDisjoint
    <2>1. size \in Nat \ {0} /\ cs \in Nat \ {0} /\ i \in Nat \ {0} /\ Len(dc) \in Nat
        BY DEF SplitInv, SplitTypeOK
    <2>2. /\ dc[i].start_pos = Position(i - 1) /\ dc[i].cur_pos = Position(i - 1)
          /\ dc[i].end_pos = IF Position(i) >= size THEN size ELSE Position(i)
          /\ Position(i - 1) < size
        BY DEF SplitInv, ChunksAreMultiples
    <2>3. Position(i - 1) \in Nat /\ Position(i) = Position(i - 1) + cs /\ Position(0) = 0
        BY <2>1 DEF Position
    <2>4. i # 1 => dc[i - 1].end_pos = Position(i - 1)
        <3> SUFFICES ASSUME i # 1 PROVE dc[i - 1].end_pos = Position(i - 1)
            OBVIOUS
        <3>1. i - 1 \in 1..Len(dc)
            BY <2>1
        <3> QED
            BY <2>2, <2>3, <3>1 DEF SplitInv, ChunksAreMultiples
    <2> QED
        BY <2>1, <2>2, <2>3, <2>4
<1> QED
    BY <1>1, SplitInvariant, PTL

\* The chunks are the whole package, unless the even share of the package is
\* MIN_CHUNK_SIZE to the byte: then exactly the remainder of the division is lost.
THEOREM CoverageOfPackage == SplitSpec => []OnlyRemainderIsLost
<1>1. SplitInv => OnlyRemainderIsLost
    <2> SUFFICES ASSUME SplitInv, Split
                 PROVE  Lost = IF size \div asked = MinChunk THEN size % asked ELSE 0
        BY DEF OnlyRemainderIsLost
    <2> DEFINE even == size \div asked
    <2> DEFINE rest == size % asked
    <2>1. /\ size \in 1..MaxSize /\ size \in Nat \ {0} /\ asked \in Nat \ {0}
          /\ cs \in Nat \ {0} /\ num \in 1..asked /\ Len(dc) = num
          /\ MinChunk \in Nat \ {0}
        BY SplitAssumption DEF SplitInv, SplitTypeOK, Split
    <2>2. even \in Nat /\ rest \in 0..(asked - 1) /\ size = asked * even + rest
        BY <2>1, Division
    <2>3. /\ even <= MinChunk => cs = MinChunk
          /\ even > MinChunk => cs > even
        BY <2>1, ChunkSizeBounds DEF SplitInv
    <2>4. dc[num].end_pos = IF Position(num) >= size THEN size ELSE Position(num)
        BY <2>1 DEF SplitInv, ChunksAreMultiples
    <2> HIDE DEF even, rest
    <2>5. CASE Position(num) >= size
        <3>1. Lost = 0
            BY <2>1, <2>4, <2>5 DEF Lost
        <3>2. ASSUME even = MinChunk PROVE rest = 0
            <4>1. num * MinChunk <= asked * MinChunk
                BY <2>1
            <4>2. Position(num) = num * MinChunk
                BY <2>1, <2>3, <3>2 DEF Position
            <4>3. num * MinChunk \in Nat /\ asked * MinChunk \in Nat
                BY <2>1
            <4> QED
                BY <2>1, <2>2, <2>5, <3>2, <4>1, <4>2, <4>3
        <3> QED
            BY <3>1, <3>2 DEF even, rest
    <2>6. CASE ~(Position(num) >= size)
        <3>1. num = asked /\ Position(num) \in Nat /\ Position(num) < size
            BY <2>1, <2>6 DEF SplitInv, LoopGoesOn, Position
        <3>2. ~(cs >= even + 1)
            <4> SUFFICES ASSUME cs >= even + 1 PROVE FALSE
                OBVIOUS
            <4>1. asked * cs >= asked * (even + 1)
                BY <2>1, <2>2
            <4>2. asked * (even + 1) = asked * even + asked
                BY <2>1, <2>2
            <4>3. asked * even \in Nat /\ asked * cs \in Nat
                BY <2>1, <2>2
            <4>4. asked * cs < size
                BY <3>1 DEF Position
            <4> QED
                BY <2>1, <2>2, <4>1, <4>2, <4>3, <4>4
        <3>3. even = MinChunk /\ cs = MinChunk
            BY <2>1, <2>2, <2>3, <3>2
        <3>4. Lost = size - asked * MinChunk
            BY <2>4, <2>6, <3>1, <3>3 DEF Lost, Position
        <3>5. Lost = rest
            <4>1. asked * MinChunk \in Nat
                BY <2>1
            <4> QED
                BY <2>1, <2>2, <3>3, <3>4, <4>1
        <3> QED
            BY <3>3, <3>5 DEF even, rest
    <2> QED
        BY <2>5, <2>6
<1> QED
    BY <1>1, SplitInvariant, PTL

===============================================================================
