---------------------------- MODULE JsonlDecoder ----------------------------
(***************************************************************************)
(* StrictJsonlDecoder (pi/jsonl.py): cuts the byte stream of pi at LF into *)
(* records, whatever the chunks it arrives in.  Of a JSON record only two  *)
(* halves are kept, enough for a chunk to end inside of it: record n is    *)
(* the bytes <<n, 1>> and <<n, 2>>, and what else is between two line      *)
(* feeds is not valid JSON.                                                *)
(***************************************************************************)
EXTENDS Naturals, Sequences, SequencesExt

CONSTANTS
    LF, CR,       \* the two bytes that delimit records
    MaxBuffer     \* max_buffer_bytes

\* The halves of a record are neither of the delimiters.
ASSUME DecoderAssumption ==
    /\ LF # CR /\ {LF, CR} \cap (Nat \X {1, 2}) = {}
    /\ MaxBuffer \in Nat

\* The sequence of the numbers of S from the smallest to the largest:
\* SetToSortSeq(S, <), by the rank of a number.
Ascending(S) ==
    [i \in 1..Cardinality(S) |->
       CHOOSE x \in S : Cardinality({y \in S : y < x}) = i - 1]

LineEnds(bytes) == {i \in DOMAIN bytes : bytes[i] = LF}

\* What is between the last LF before position i, or the start, and i.
Line(bytes, i) ==
    SubSeq(bytes, Max({0} \cup {j \in LineEnds(bytes) : j < i}) + 1, i - 1)

\* What is left over behind the last LF.
Rest(bytes) == Line(bytes, Len(bytes) + 1)

StripCR(raw) == IF raw # << >> /\ Last(raw) = CR THEN Front(raw) ELSE raw

IsRecord(raw) ==
    \E b \in Range(raw) \ {LF, CR} : raw = <<<<b[1], 1>>, <<b[1], 2>>>>

\* Where the records that json.loads accepts end, and their numbers in order.
RecordEnds(bytes) ==
    {i \in LineEnds(bytes) : IsRecord(StripCR(Line(bytes, i)))}

Decoded(bytes) ==
    LET ends == Ascending(RecordEnds(bytes))
    IN  [k \in DOMAIN ends |-> Line(bytes, ends[k])[1][1]]

\* Mutant: what follows the last LF of a chunk is thrown away.
FeedForgetful(buffer, chunk) ==
    LET bytes == buffer \o chunk IN
    IF Len(bytes) > MaxBuffer
    THEN [buffer |-> bytes, records |-> << >>, raised |-> TRUE]
    ELSE [buffer |-> IF LineEnds(bytes) = {} THEN bytes ELSE << >>,
          records |-> Decoded(bytes), raised |-> FALSE]

\* feed(): the new buffer, the records, and whether it raised.  The bound is
\* checked on the extended buffer, before its records are taken.
Feed(buffer, chunk) ==
    LET bytes == buffer \o chunk IN
    IF Len(bytes) > MaxBuffer
    THEN [buffer |-> bytes, records |-> << >>, raised |-> TRUE]
    ELSE [buffer |-> Rest(bytes), records |-> Decoded(bytes),
          raised |-> FALSE]
=============================================================================
