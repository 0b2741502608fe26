-------------------------- MODULE PartialTranscript -------------------------
(***************************************************************************)
(* The transcript and its authenticated part: Transcript, Subsequence,      *)
(* PartialTranscript and its compressed form on the wire (transcript.rs).   *)
(* Positions count from 1.  A set of ranges is the set of its positions,    *)
(* and data selected by one is in the order of the positions.               *)
(***************************************************************************)
EXTENDS Integers, Sequences, SequencesExt, FiniteSets

Directions == {"sent", "received"}

\* How many positions of idx come before or at i: the running offset of the
\* loops over ranges.
Rank(idx, i) == Cardinality({j \in idx : j <= i})
End(idx) == IF idx = {} THEN 0 ELSE CHOOSE j \in idx : \A k \in idx : k <= j

\* The bytes of data at the positions of idx (Index::index).
Select(data, idx) ==
    [n \in 1..Cardinality(idx) |-> data[CHOOSE i \in idx : Rank(idx, i) = n]]

Zeros(n) == [i \in 1..n |-> 0]

-----------------------------------------------------------------------------
(* Transcript and Subsequence *)

\* Subsequence::new
NewSubsequence(idx, data) ==
    IF Cardinality(idx) # Len(data) THEN <<>> ELSE <<[idx |-> idx, data |-> data]>>

\* Transcript::get: <<>> when the index is out of bounds.
Get(transcript, dir, idx) ==
    IF End(idx) > Len(transcript[dir]) THEN <<>>
    ELSE NewSubsequence(idx, Select(transcript[dir], idx))

\* Subsequence::copy_to
CopyTo(seq, dest) ==
    [i \in 1..Len(dest) |-> IF i \in seq.idx THEN seq.data[Rank(seq.idx, i)] ELSE dest[i]]

\* Transcript::to_partial
ToPartial(transcript, idx) ==
    [data   |-> [d \in Directions |->
                    [i \in 1..Len(transcript[d]) |->
                        IF i \in idx[d] THEN transcript[d][i] ELSE 0]],
     authed |-> idx]

-----------------------------------------------------------------------------
(* PartialTranscript *)

\* PartialTranscript::new
NewPartial(lens) ==
    [data |-> [d \in Directions |-> Zeros(lens[d])], authed |-> [d \in Directions |-> {}]]

IsComplete(pt) == \A d \in Directions : Cardinality(pt.authed[d]) = Len(pt.data[d])
ContainsIdx(pt, dir, idx) == End(idx) <= Len(pt.data[dir])
Unauthed(pt, dir) == (1..Len(pt.data[dir])) \ pt.authed[dir]

\* PartialTranscript::iter
AuthedData(pt, dir) == Select(pt.data[dir], pt.authed[dir])

\* PartialTranscript::union_transcript, for transcripts of the same lengths
UnionTranscript(pt, other) ==
    [data   |-> [d \in Directions |->
                    [i \in 1..Len(pt.data[d]) |->
                        IF i \in other.authed[d] \ pt.authed[d]
                        THEN other.data[d][i] ELSE pt.data[d][i]]],
     authed |-> [d \in Directions |-> pt.authed[d] \cup other.authed[d]]]

\* PartialTranscript::union_subsequence
UnionSubsequence(pt, dir, seq) ==
    [pt EXCEPT !.data[dir] = CopyTo(seq, @), !.authed[dir] = @ \cup seq.idx]

\* PartialTranscript::set_unauthed
SetUnauthed(pt, value) ==
    [pt EXCEPT !.data = [d \in Directions |->
        [i \in 1..Len(pt.data[d]) |-> IF i \in Unauthed(pt, d) THEN value ELSE pt.data[d][i]]]]

\* PartialTranscript::set_unauthed_range, filling the range as it stands
SetWholeRange(pt, value, dir, range) ==
    [pt EXCEPT !.data[dir] = [i \in 1..Len(@) |-> IF i \in range THEN value ELSE @[i]]]

\* PartialTranscript::set_unauthed_range
SetUnauthedRange(pt, value, dir, range) ==
    [pt EXCEPT !.data[dir] =
        [i \in 1..Len(@) |-> IF i \in range \ pt.authed[dir] THEN value ELSE @[i]]]

-----------------------------------------------------------------------------
(* The compressed form *)

Compress(pt) ==
    [authed |-> [d \in Directions |-> AuthedData(pt, d)],
     idx    |-> pt.authed,
     total  |-> [d \in Directions |-> Len(pt.data[d])]]

\* TryFrom<CompressedPartialTranscriptUnchecked>
ValidCompressed(c) ==
    \A d \in Directions : Len(c.authed[d]) = Cardinality(c.idx[d]) /\ End(c.idx[d]) <= c.total[d]

\* From<CompressedPartialTranscript>
Decompress(c) ==
    [data   |-> [d \in Directions |->
                    CopyTo([idx |-> c.idx[d], data |-> c.authed[d]], Zeros(c.total[d]))],
     authed |-> c.idx]

=============================================================================
