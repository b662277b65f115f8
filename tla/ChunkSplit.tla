------------------------------ MODULE ChunkSplit ------------------------------
(***************************************************************************)
(* chunk_split (src/src/lib/metadata.c): how a package of a known size is  *)
(* cut into the chunks that the connections fetch.  Sizes are in bytes.    *)
(***************************************************************************)
EXTENDS Integers, Sequences

CONSTANTS
    MinChunk,   \* MIN_CHUNK_SIZE
    MaxAsked,   \* largest number of chunks a user may ask for
    MaxSize,    \* largest package
    MaxLog      \* no quotient of a package has more bits

PowersOfTwo == {2^k : k \in 1..MaxLog}

\* Each quotient has a power of two above it that is at most its double: the
\* least one above it, which is what a shift by log2 + 1 gives.
ASSUME SplitAssumption ==
    /\ MinChunk \in Nat \ {0} /\ MaxAsked \in Nat /\ MaxSize \in Nat
    /\ PowersOfTwo \subseteq Nat
    /\ \A q \in 1..MaxSize : \E p \in PowersOfTwo : q < p /\ p <= 2 * q

VARIABLES
    size,    \* bytes of the package, never 0 (dinfo_update_metadata)
    asked,   \* chunks asked for: *num after its correction to at least 1
    cs,      \* *chunk_size
    num,     \* *num, the number of chunks in the end
    dc       \* the chunks written so far

splitVars == <<size, asked, cs, num, dc>>

\* q > 0 shifted to the power of two next above it.
RoundUp(q) == CHOOSE p \in PowersOfTwo : q < p /\ p <= 2 * q

\* Mutant: the share is rounded down to a multiple of the least chunk.
ChunkSizeRoundedDown(s, n) ==
    LET even == s \div n
    IN  IF even <= MinChunk THEN MinChunk ELSE (even \div MinChunk) * MinChunk

ChunkSize(s, n) ==
    LET even == s \div n
    IN  IF even <= MinChunk THEN MinChunk
                            ELSE RoundUp(even \div MinChunk) * MinChunk

SplitInit ==
    /\ size \in 1..MaxSize
    /\ \E n \in 0..MaxAsked : asked = IF n <= 0 THEN 1 ELSE n
    /\ cs = ChunkSize(size, asked)
    /\ num = asked
    /\ dc = <<>>

Split == Len(dc) = num

\* Mutant: the last chunk is not cut at the end of the package.
SplitChunkUncut ==
    LET i == Len(dc)
        end == i * cs + cs
    IN  /\ ~Split
        /\ dc' = Append(dc, [start_pos |-> i * cs, cur_pos |-> i * cs, end_pos |-> end])
        /\ num' = IF end >= size THEN i + 1 ELSE num
        /\ UNCHANGED <<size, asked, cs>>

\* Mutant: the loop goes on after the end of the package is reached.
SplitChunkGoesOn ==
    LET i == Len(dc)
        end == i * cs + cs
    IN  /\ ~Split
        /\ dc' = Append(dc, [start_pos |-> i * cs,
                             cur_pos |-> i * cs,
                             end_pos |-> IF end >= size THEN size ELSE end])
        /\ UNCHANGED <<size, asked, cs, num>>

\* One turn of the loop: chunk i is written, and is the last one if it reaches
\* the end of the package.
SplitChunk ==
    LET i == Len(dc)
        end == i * cs + cs
    IN  /\ ~Split
        /\ dc' = Append(dc, [start_pos |-> i * cs,
                             cur_pos |-> i * cs,
                             end_pos |-> IF end >= size THEN size ELSE end])
        /\ num' = IF end >= size THEN i + 1 ELSE num
        /\ UNCHANGED <<size, asked, cs>>

SplitSpec == SplitInit /\ [][SplitChunk]_splitVars

-------------------------------------------------------------------------------
(* Properties.                                                             *)

\* The type invariant: chunks are records of positions in the package.
SplitTypeOK ==
    /\ size \in Nat \ {0}
    /\ asked \in Nat \ {0}
    /\ cs \in Nat \ {0}
    /\ num \in 1..asked
    /\ dc \in Seq([start_pos : Nat, cur_pos : Nat, end_pos : 1..size])
    /\ Len(dc) <= num

\* The chunks follow one another from the start of the package with neither
\* gap nor overlap, none is empty, and nothing is counted as received yet:
\* connections writing to different chunks never write to the same byte.
ChunksAreDisjoint ==
    \A i \in 1..Len(dc) :
        /\ dc[i].start_pos = IF i = 1 THEN 0 ELSE dc[i - 1].end_pos
        /\ dc[i].start_pos < dc[i].end_pos
        /\ dc[i].cur_pos = dc[i].start_pos

\* Bytes at the end of the package that belong to no chunk.
Lost == size - dc[num].end_pos

\* Rounding the chunk size up to a power of two leaves no byte out, however the
\* division of size by num came out; only a quotient that is MIN_CHUNK_SIZE to the
\* byte is not rounded up, and then the remainder is in no chunk.
OnlyRemainderIsLost ==
    Split => Lost = IF size \div asked = MinChunk THEN size % asked ELSE 0
===============================================================================
