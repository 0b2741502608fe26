---------------------------- MODULE Disclosure ----------------------------
(***************************************************************************)
(* One proof about the transcript: the request the prover makes, the VM    *)
(* program each side builds for it on its own (prove.rs and verify.rs),    *)
(* its execution and the verifier's checks. The two programs must be the   *)
(* same, and the program must pair every plaintext byte with the byte of   *)
(* keystream that encrypted it: ranges, records and cipher blocks are cut  *)
(* at different places.                                                    *)
(*                                                                         *)
(* Plaintext byte i of a direction has the value i + 1 (0 is the byte of   *)
(* an unrevealed position). A ciphertext byte is the pair of a plaintext   *)
(* value and a keystream byte <<nonce, block, offset>>.                    *)
(***************************************************************************)
EXTENDS Naturals, Sequences, SequencesExt, FiniteSetsExt

CONSTANTS
    BLOCK_SIZE,         \* bytes of a cipher block
    MaxRecords,         \* bound on the application data records sent
    MaxSent,            \* bound on the bytes sent
    RecvLen,            \* bytes received, in one record
    MaxCommits,         \* bound on the hash commitments of a request
    MaxSentMany         \* bound on the bytes sent if there are several of them

VARIABLES
    records,            \* per direction: the lengths of its records
    stage,              \* how far the proof is
    msg,                \* the ProveRequestMsg, as the verifier decodes it
    fault,              \* what is wrong with the transcript in msg: "none",
                        \* "missing", "length", "authed" or "value"
    proved,             \* the prover's program
    verified,           \* the verifier's program, or its error
    result              \* the verifier's output, or its error

vars == <<records, stage, msg, fault, proved, verified, result>>

Directions == {"sent", "recv"}
Error == "error"
Failed == [ok |-> FALSE, transcript |-> <<>>, commitments |-> <<>>]

-----------------------------------------------------------------------------
\* Range sets (the rangeset crate): the ranges of a set, in order.
RECURSIVE Ranges(_)
Ranges(S) ==
    IF S = {} THEN <<>>
    ELSE LET start == Min(S)
             end == Min((start + 1 .. Max(S) + 1) \ S)
         IN  <<[start |-> start, end |-> end]>> \o Ranges(S \ (start .. end - 1))

Length(r) == r.end - r.start

\* The indices of a range set, in order.
Indices(S) == FlattenSeq([k \in DOMAIN Ranges(S) |->
    LET r == Ranges(S)[k] IN [j \in 1..Length(r) |-> r.start + j - 1]])

-----------------------------------------------------------------------------
\* RangeMap: a sequence of [start, item], the items being vectors of cells.

\* Cut consecutive chunks off a vector, one for each range (the closure of
\* alloc_plaintext and of alloc_ciphertext, with its running pos).
Chunks(vector, ranges) ==
    FoldLeft(LAMBDA acc, r :
               [pos |-> acc.pos + Length(r),
                map |-> Append(acc.map,
                   [start |-> r.start,
                    item |-> SubSeq(vector, acc.pos + 1, acc.pos + Length(r))])],
             [pos |-> 0, map |-> <<>>], ranges).map

\* The entry with the greatest start up to i (the binary searches), or 0.
EntryAt(map, i) == Max({0} \cup {k \in DOMAIN map : map[k].start <= i})

\* RangeMap::get for a range of a range set, which is never empty.
Get(map, r) ==
    LET k == EntryAt(map, r.start)
    IN  IF k = 0 \/ r.end > map[k].start + Len(map[k].item)
        THEN Error
        ELSE SubSeq(map[k].item, r.start - map[k].start + 1, r.end - map[k].start)

\* RangeMap::index: the slices for the ranges of a set. The callers expect
\* that it succeeds.
Index(map, S) ==
    [k \in DOMAIN Ranges(S) |->
        [start |-> Ranges(S)[k].start, item |-> Get(map, Ranges(S)[k])]]

Items(map) == [k \in DOMAIN map |-> map[k].item]

-----------------------------------------------------------------------------
\* auth.rs. The nonce of a record is its number; a record is [nonce, len].

RecordParams(lens) == [k \in DOMAIN lens |-> [nonce |-> k, len |-> lens[k]]]

\* Mutant: the block at hand is taken without a look at its number.
ReusesAnyBlock(block, num) == block # {}

\* alloc_keystream keeps the block it has just allocated (a set of at most one
\* number) and takes it again if it is the one needed.
ReusesBlock(block, num) == num \in block

\* alloc_keystream: walk the records and the ranges together; every piece of
\* a range that lies in one block of one record takes its slice of that
\* block. The explicit nonce is allocated once for a record, a block anew
\* unless it is the one just allocated. Running out of records is an error.
RECURSIVE AllocKeystream(_, _, _, _, _, _)
AllocKeystream(recs, ranges, pos, nonce, block, out) ==
    IF recs = <<>> THEN [out EXCEPT !.ok = FALSE]
    ELSE IF ranges = <<>> THEN out
    ELSE IF Head(ranges).start >= pos + Head(recs).len
    THEN AllocKeystream(Tail(recs), ranges, pos + Head(recs).len, FALSE, {}, out)
    ELSE
      LET rec == Head(recs)
          r == Head(ranges)
          num == (r.start - pos) \div BLOCK_SIZE
          reuse == ReusesBlock(block, num)
          used == IF reuse THEN Max(block) ELSE num
          at == (r.start - pos) % BLOCK_SIZE
          len == Min({Min({r.end, pos + rec.len}) - r.start, BLOCK_SIZE - at})
          tail == IF r.start + len < r.end
                  THEN <<[r EXCEPT !.start = @ + len]>> ELSE <<>>
      IN  AllocKeystream(recs, tail \o Tail(ranges), pos, TRUE, IF reuse THEN {} ELSE {num},
            [out EXCEPT
               !.stream = @ \o [j \in 1..len |-> <<rec.nonce, used, at + j - 1>>],
               !.log = @ \o (IF nonce THEN <<>> ELSE <<[op |-> "nonce", on |-> <<rec.nonce>>]>>)
                         \o (IF reuse THEN <<>> ELSE <<[op |-> "block", on |-> <<rec.nonce, num>>]>>)])

\* Entries of a program: the operation and the cells it is applied to.
Each(op, map) == [k \in DOMAIN map |-> [op |-> op, on |-> map[k].item]]

\* alloc_plaintext: one vector for all ranges, cut into chunks. A cell is
\* named by its direction and its place in the vector.
AllocPlaintext(dir, S) ==
    Chunks([k \in 1..Cardinality(S) |-> <<dir, k>>], Ranges(S))

\* alloc_ciphertext: one xor of all plaintext chunks with the keystream.
AllocCiphertext(recs, refs) ==
    IF refs = <<>> THEN [ok |-> TRUE, map |-> <<>>, log |-> <<>>]
    ELSE LET ranges == [k \in DOMAIN refs |->
                 [start |-> refs[k].start, end |-> refs[k].start + Len(refs[k].item)]]
             cells == FlattenSeq(Items(refs))
             ks == AllocKeystream(recs, ranges, 0, FALSE, {},
                                  [ok |-> TRUE, stream |-> <<>>, log |-> <<>>])
         IN  IF ~ks.ok THEN [ok |-> FALSE, map |-> <<>>, log |-> ks.log]
             ELSE [ok |-> TRUE,
                   map |-> Chunks([k \in DOMAIN cells |-> <<cells[k], ks.stream[k]>>], ranges),
                   log |-> Append(ks.log, [op |-> "xor", on |-> cells])]

\* Everything is revealed: the keys are disclosed instead of a proof.
IsRevealAll(reveal, len) == reveal # {} /\ reveal = 0 .. len - 1

Alloc(n) == IF n = 0 THEN <<>> ELSE <<[op |-> "alloc", on |-> <<n>>]>>

\* The program when everything is revealed: the keys are decoded, committed
\* plaintext is public.
RevealAllLog(dir, refs) ==
    <<[op |-> "decode key", on |-> <<dir>>], [op |-> "decode iv", on |-> <<dir>>]>>
    \o FlattenSeq([k \in DOMAIN refs |-> <<[op |-> "mark public", on |-> refs[k].item],
                                           [op |-> "commit", on |-> refs[k].item]>>])

\* The program otherwise; the prover's hidden cells are blind to the verifier.
PartialLog(hidden, refs, reveal, commit, ct) ==
    Each(hidden, Index(refs, commit \ reveal)) \o Each("mark public", Index(refs, reveal))
    \o Each("commit", refs) \o ct.log \o Each("decode", ct.map)

\* Bytes assigned to the cells of a map: pairs of a cell and a value.
Assign(map, data) ==
    UNION {{<<map[k].item[j], data[map[k].start + j]>> : j \in DOMAIN map[k].item}
           : k \in DOMAIN map}

\* prove_plaintext. data is the plaintext (a sequence), recs its records.
ProvePlaintext(dir, data, recs, reveal, commit) ==
    LET all == IsRevealAll(reveal, Len(data))
        S == IF all THEN commit ELSE commit \cup reveal
        refs == AllocPlaintext(dir, S)
        ct == AllocCiphertext(recs, refs)
    IN  [ok |-> all \/ ct.ok, refs |-> refs, assigned |-> Assign(refs, data),
         log |-> Alloc(Cardinality(S))
                 \o IF all THEN RevealAllLog(dir, refs)
                    ELSE PartialLog("mark private", refs, reveal, commit, ct)]

\* Mutant: the verifier allocates revealed ranges in any case.
VerifierRangesAll(all, reveal, commit) == commit \cup reveal

\* alloc_ranges of verify_plaintext.
VerifierRanges(all, reveal, commit) == IF all THEN commit ELSE commit \cup reveal

\* verify_plaintext. Revealed bytes are assigned by the verifier, as claimed;
\* the others are the prover's. The proof left to check is the key's (ct is
\* empty) or the ciphertext's.
VerifyPlaintext(dir, data, recs, reveal, commit) ==
    LET all == IsRevealAll(reveal, Len(data))
        S == VerifierRanges(all, reveal, commit)
        refs == AllocPlaintext(dir, S)
        ct == AllocCiphertext(recs, refs)
    IN  [ok |-> all \/ ct.ok, refs |-> refs, withKey |-> all,
         ct |-> IF all THEN <<>> ELSE ct.map,
         assigned |-> Assign(IF all THEN refs ELSE Index(refs, reveal), data),
         log |-> Alloc(Cardinality(S))
                 \o IF all THEN RevealAllLog(dir, refs)
                    ELSE PartialLog("mark blind", refs, reveal, commit, ct)]

\* The keystream byte of byte j of a record (START_CTR block onwards), as
\* aes_ctr_apply_keystream applies it.
CtrByte(nonce, j) == <<nonce, j \div BLOCK_SIZE, j % BLOCK_SIZE>>

\* The ciphertext of a direction, record after record.
Ciphertext(lens) ==
    LET nonces == FlattenSeq([k \in DOMAIN lens |-> [j \in 1..lens[k] |-> <<k, j - 1>>]])
    IN  [i \in DOMAIN nonces |-> <<i, CtrByte(nonces[i][1], nonces[i][2])>>]

\* Mutant: only the first record is decrypted.
VerifyWithKeyOnce(recs, data, ciphertext) ==
    recs # <<>> => \A j \in 1..Head(recs).len :
        <<data[j], CtrByte(Head(recs).nonce, j - 1)>> = ciphertext[j]

\* verify_plaintext_with_key.
VerifyWithKey(recs, data, ciphertext) ==
    \A k \in DOMAIN recs :
        LET pos == FoldLeft(LAMBDA n, r : n + r.len, 0, SubSeq(recs, 1, k - 1))
        IN  \A j \in 1..recs[k].len :
                <<data[pos + j], CtrByte(recs[k].nonce, j - 1)>> = ciphertext[pos + j]

-----------------------------------------------------------------------------
\* commit/hash.rs. A commitment is [dir, idx, alg].

\* hash_commit_inner: a blinder and a hash for each commitment; the state of
\* an algorithm is set up once.
HashCommitInner(hidden, refs, commits) ==
    FlattenSeq([k \in DOMAIN commits |->
        LET c == commits[k]
            ranges == Ranges(c.idx)
            fresh == \A i \in 1 .. k - 1 : commits[i].alg # c.alg
        IN  <<[op |-> "alloc", on |-> <<16>>], [op |-> hidden, on |-> <<<<"blinder", k>>>>]>>
            \o (IF fresh THEN <<[op |-> "hasher", on |-> <<c.alg>>]>> ELSE <<>>)
            \o <<[op |-> "hash", on |-> FlattenSeq([i \in DOMAIN ranges |->
                                            Get(refs[c.dir], ranges[i])])]>>])

\* prove_hash and verify_hash.
HashLog(hidden, refs, commits) ==
    HashCommitInner(hidden, refs, commits)
    \o FlattenSeq([k \in DOMAIN commits |->
          <<[op |-> "commit", on |-> <<<<"blinder", k>>>>],
            [op |-> "decode hash", on |-> <<k>>]>>])

\* The bytes hashed for a commitment, given the value of every cell.
Hashed(refs, c, value) ==
    LET ranges == Ranges(c.idx)
        cells == FlattenSeq([i \in DOMAIN ranges |-> Get(refs[c.dir], ranges[i])])
    IN  [j \in DOMAIN cells |-> value[cells[j]]]

-----------------------------------------------------------------------------
\* transcript.rs: partial transcripts, and the form they are sent in.

Data(dir) == [i \in 1..SumFunction(records[dir]) |-> i]

\* Transcript::to_partial.
ToPartial(data, S) == [i \in DOMAIN data |-> IF i - 1 \in S THEN data[i] ELSE 0]

\* CompressedPartialTranscript: the revealed bytes only ...
Compress(data, S) ==
    [authed |-> [k \in DOMAIN Indices(S) |-> data[Indices(S)[k] + 1]],
     idx |-> S, total |-> Len(data)]

\* ... the checks on receipt ...
ValidTranscript(c) ==
    Len(c.authed) = Cardinality(c.idx) /\ \A i \in c.idx : i < c.total

\* ... and back, range after range with a running offset.
Decompress(c) ==
    LET chunks == Chunks(c.authed, Ranges(c.idx))
        at(i) == EntryAt(chunks, i)
    IN  IF ~ValidTranscript(c)
        THEN [ok |-> FALSE, data |-> <<>>, idx |-> {}]
        ELSE [ok |-> TRUE, idx |-> c.idx,
              data |-> [i \in 1..c.total |->
                  IF i - 1 \in c.idx
                  THEN chunks[at(i - 1)].item[i - chunks[at(i - 1)].start] ELSE 0]]

-----------------------------------------------------------------------------
\* The proof, step by step. A request is [reveal, commits]: reveal is a
\* sequence of no or one function from directions to range sets.

Revealed(request, dir) == IF request.reveal = <<>> THEN {} ELSE request.reveal[1][dir]

Committed(request, dir) ==
    UNION {request.commits[k].idx : k \in
             {i \in DOMAIN request.commits : request.commits[i].dir = dir}}

\* A byte no transcript has.
WrongByte == 99

\* The transcript of a message as it is sent, with one fault: one byte too
\* many, one index too few, one byte that is not the one in the transcript.
Sent(dir, S, f, at) ==
    LET partial == ToPartial(Data(dir), S)
    IN  CASE f = "length" -> Compress(Append(partial, 0), S)
          [] f = "authed" -> Compress(partial, S \ {at})
          [] f = "value" -> Compress([partial EXCEPT ![at + 1] = WrongByte], S)
          [] OTHER -> Compress(partial, S)

\* Prover::prove sends the request.
Request(reveal, commits, f, dir, at) ==
    /\ stage' = "requested"
    /\ fault' = f
    /\ msg' = [request |-> [reveal |-> reveal, commits |-> commits],
               transcript |->
                 IF reveal = <<>> \/ f = "missing" THEN <<>>
                 ELSE <<[d \in Directions |->
                          Decompress(Sent(d, reveal[1][d], IF d = dir THEN f ELSE "none", at))]>>]
    /\ UNCHANGED <<records, proved, verified, result>>

\* verify checks the transcript that came with the request.
TranscriptMatches ==
    msg.request.reveal # <<>> =>
        /\ msg.transcript # <<>>
        /\ \A d \in Directions :
              LET t == msg.transcript[1][d]
              IN  t.ok /\ Len(t.data) = SumFunction(records[d]) /\ t.idx = msg.request.reveal[1][d]

\* verify up to the execution.
Verify ==
    /\ stage = "requested"
    /\ IF ~TranscriptMatches
       THEN stage' = "done" /\ result' = Failed /\ UNCHANGED verified
       ELSE LET t == [d \in Directions |->
                        IF msg.request.reveal = <<>>
                        THEN [data |-> ToPartial(Data(d), {}), idx |-> {}]
                        ELSE msg.transcript[1][d]]
                sideOf(d) == VerifyPlaintext(d, t[d].data, RecordParams(records[d]), t[d].idx,
                                             Committed(msg.request, d))
                side == [sent |-> sideOf("sent"), recv |-> sideOf("recv")]
                refs == [sent |-> side.sent.refs, recv |-> side.recv.refs]
            IN  /\ stage' = "accepted"
                /\ verified' = [ok |-> side.sent.ok /\ side.recv.ok,
                                side |-> side,
                                data |-> [d \in Directions |-> t[d].data],
                                log |-> side.sent.log \o side.recv.log
                                        \o HashLog("mark blind", refs, msg.request.commits)]
                /\ UNCHANGED result
    /\ UNCHANGED <<records, msg, fault, proved>>

\* prove up to the execution.
Prove ==
    /\ stage = "accepted"
    /\ stage' = "executing"
    /\ LET sideOf(d) == ProvePlaintext(d, Data(d), RecordParams(records[d]),
                                       Revealed(msg.request, d), Committed(msg.request, d))
           side == [sent |-> sideOf("sent"), recv |-> sideOf("recv")]
           refs == [sent |-> side.sent.refs, recv |-> side.recv.refs]
       IN  proved' = [ok |-> side.sent.ok /\ side.recv.ok,
                      assigned |-> side.sent.assigned \cup side.recv.assigned,
                      log |-> side.sent.log \o side.recv.log
                              \o HashLog("mark private", refs, msg.request.commits)]
    /\ UNCHANGED <<records, msg, fault, verified, result>>

\* The value of every cell in the verifier's execution: public cells have the
\* value it assigned, the others the prover's.
CellValue ==
    LET own == verified.side.sent.assigned \cup verified.side.recv.assigned
        all == own \cup {a \in proved.assigned : \A b \in own : b[1] # a[1]}
    IN  [c \in {a[1] : a \in all} |-> (CHOOSE a \in all : a[1] = c)[2]]

\* PlaintextProof::verify.
ProofHolds(d, value) ==
    LET side == verified.side[d]
        ciphertext == Ciphertext(records[d])
    IN  IF side.withKey
        THEN VerifyWithKey(RecordParams(records[d]), verified.data[d], ciphertext)
        ELSE \A k \in DOMAIN side.ct : \A j \in DOMAIN side.ct[k].item :
                <<value[side.ct[k].item[j][1]], side.ct[k].item[j][2]>>
                    = ciphertext[side.ct[k].start + j]

\* The execution, and the rest of verify.
Execute ==
    /\ stage = "executing"
    /\ stage' = "done"
    /\ LET refs == [d \in Directions |-> verified.side[d].refs]
           commits == msg.request.commits
           value == CellValue
       IN  result' = IF ~(verified.ok /\ proved.ok /\ \A d \in Directions : ProofHolds(d, value))
                     THEN Failed
                     ELSE [ok |-> TRUE, transcript |-> msg.transcript,
                           commitments |-> [k \in DOMAIN commits |->
                               Hashed(refs, commits[k], value)]]
    /\ UNCHANGED <<records, msg, fault, proved, verified>>

-----------------------------------------------------------------------------
Total(lens) == SumFunction(lens)

Init ==
    /\ records \in
         {[sent |-> l, recv |-> <<RecvLen>>] : l \in
            {l \in UNION {[1..n -> 0..MaxSent] : n \in 0..MaxRecords} : Total(l) <= MaxSent}}
    /\ stage = "committed"
    /\ fault = "none"
    /\ msg = Error /\ proved = Error /\ verified = Error /\ result = Failed

Bytes(dir) == 0 .. SumFunction(records[dir]) - 1

\* Commitments a builder accepts: any indices within the transcript. The first
\* uses one algorithm, later ones that or another.
CommitChoices(n) ==
    UNION {{[dir |-> d, idx |-> S, alg |-> a] :
              S \in SUBSET Bytes(d), a \in IF n = 1 THEN {"blake3"} ELSE {"blake3", "sha256"}}
           : d \in Directions}

\* The requests an application can make, with and without a fault (a fault
\* only with few commitments, to bound the instance). The builder keeps a set
\* of commitments: none is there twice.
MakeRequest ==
    /\ stage = "committed"
    /\ \E n \in {k \in 0..MaxCommits : k > 1 => Total(records["sent"]) <= MaxSentMany} :
       \E commits \in {c \in [1..n -> CommitChoices(n)] : IsInjective(c)} :
       \E reveal \in {<<>>} \cup {<<[sent |-> s, recv |-> r]>> :
                                    s \in SUBSET Bytes("sent"), r \in SUBSET Bytes("recv")} :
         \/ Request(reveal, commits, "none", "sent", 0)
         \/ reveal # <<>> /\ n = 0 /\ \E f \in {"missing", "length"}, d \in Directions :
                Request(reveal, commits, f, d, 0)
         \/ reveal # <<>> /\ n <= 1 /\ \E f \in {"authed", "value"}, d \in Directions :
                \E at \in reveal[1][d] : Request(reveal, commits, f, d, at)

Next == MakeRequest \/ Verify \/ Prove \/ Execute

Spec == Init /\ [][Next]_vars

-----------------------------------------------------------------------------
\* The hidden cells of the prover are blind to the verifier.
SameStep(p, v) ==
    \/ p.op = v.op /\ p.on = v.on
    \/ p.op = "mark private" /\ v.op = "mark blind" /\ p.on = v.on

\* prove.rs and verify.rs build the same VM program for a request, operation
\* by operation, although they work from different data (the prover's
\* transcript, the verifier's ciphertext and the partial transcript).
ProgramsAgree ==
    stage = "executing" /\ fault = "none" =>
        /\ Len(proved.log) = Len(verified.log)
        /\ \A k \in DOMAIN proved.log : SameStep(proved.log[k], verified.log[k])

\* A faultless request is verified, whatever ranges, records and blocks it
\* cuts across; in particular alloc_keystream never runs out of records, its
\* "internal bug".
HonestVerifies ==
    stage = "done" /\ fault = "none" => result.ok

\* A transcript that is missing, of another length or index, or has another
\* byte at a revealed position is never in the verifier's output.
WrongRefused ==
    stage = "done" /\ fault # "none" => ~result.ok

\* A commitment of the output is to the bytes at the requested indices, in
\* order, whichever allocated chunks they were sliced from.
CommitmentsCover ==
    stage = "done" /\ result.ok =>
        \A k \in DOMAIN msg.request.commits :
            LET idx == Indices(msg.request.commits[k].idx)
            IN  result.commitments[k] = [j \in DOMAIN idx |-> idx[j] + 1]

\* The verifier's output of a proof (verify.rs): a faultless request is verified
\* and its commitments are to the requested bytes.
HonestOutput == HonestVerifies /\ CommitmentsCover
=============================================================================
