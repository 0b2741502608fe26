-------------------------- MODULE TranscriptProof --------------------------
(***************************************************************************)
(* Hash commitments to ranges of a transcript, the proofs that open them    *)
(* and the verification of a proof (crates/core/src/transcript/commit.rs,   *)
(* hash.rs and proof.rs).                                                   *)
(*                                                                         *)
(* A transcript is [sent, recv], two sequences of bytes; an index (a range  *)
(* set) is a set of positions from 0. Hashes are ideal: a hash value is the *)
(* tuple of what was hashed.                                                *)
(***************************************************************************)
EXTENDS Naturals, Sequences, SequencesExt, FiniteSetsExt

Dirs == {"sent", "recv"}

\* The hash algorithms of HashProvider::default, in the order of
\* DEFAULT_COMMITMENT_KINDS.
DEFAULT_COMMITMENT_KINDS == <<"SHA256", "BLAKE3", "KECCAK256">>

\* HashProvider::get: an algorithm the provider does not have is an error.
HasHash(provider, alg) == alg \in provider

\* RangeSet::end().unwrap_or(0)
IdxEnd(idx) == IF idx = {} THEN 0 ELSE Max(idx) + 1

\* The bytes of the ranges of idx, one after another.
Slice(bytes, idx) ==
    LET order == SetToSortSeq(idx, <) IN [k \in DOMAIN order |-> bytes[order[k] + 1]]

\* hash_plaintext: H(msg | blinder), with the algorithm beside it.
HashPlaintext(alg, msg, blinder) == [alg |-> alg, value |-> <<alg, msg, blinder>>]

PlaintextHash(secret, bytes) ==
    [direction |-> secret.direction, idx |-> secret.idx,
     hash |-> HashPlaintext(secret.alg, Slice(bytes, secret.idx), secret.blinder)]

-----------------------------------------------------------------------------
\* TranscriptCommitConfigBuilder: a set of [direction, idx, alg].

\* commit_with_kind_inner refuses an index that ends after the transcript.
CommitAllowed(transcript, dir, idx) == IdxEnd(idx) <= Len(transcript[dir])

CommitWithKind(commits, dir, idx, alg) ==
    commits \cup {[direction |-> dir, idx |-> idx, alg |-> alg]}

\* What proving the commitments leaves with the prover: one blinder each,
\* drawn at random, so no two are the same.
SecretsOf(commits, owner) ==
    {[direction |-> c.direction, idx |-> c.idx, alg |-> c.alg, blinder |-> <<owner, c>>] :
        c \in commits}

CommitmentsOf(secrets, transcript) ==
    {PlaintextHash(s, transcript[s.direction]) : s \in secrets}

-----------------------------------------------------------------------------
\* TranscriptProofBuilder: [transcript, secrets, query, kinds].

ProofBuilder(transcript, secrets) ==
    [transcript |-> transcript, secrets |-> secrets,
     query |-> [d \in Dirs |-> {}], kinds |-> DEFAULT_COMMITMENT_KINDS]

\* committed_sent and committed_recv
CommittedIdx(b, dir) == UNION {s.idx : s \in {t \in b.secrets : t.direction = dir}}

\* reveal_inner: within the transcript and within what is committed to.
RevealAllowed(b, dir, idx) ==
    /\ IdxEnd(idx) <= Len(b.transcript[dir])
    /\ idx \subseteq CommittedIdx(b, dir)

Reveal(b, dir, idx) == [b EXCEPT !.query[dir] = @ \cup idx]

\* commitment_kinds: an empty list is ignored, duplicates are dropped.
SetKinds(b, kinds) ==
    IF kinds = <<>> THEN b
    ELSE [b EXCEPT !.kinds =
            SelectSeq([k \in DOMAIN kinds |->
                         IF \E j \in 1..(k - 1) : kinds[j] = kinds[k] THEN "" ELSE kinds[k]],
                      LAMBDA kind : kind # "")]

\* Cover::cover_by of the rangeset crate: a smallest family of the sets inside
\* the query that covers as much of it as they can.
CoverBy(query, secrets) ==
    LET inside == {s \in secrets : s.idx \subseteq query}
        all == UNION {s.idx : s \in inside}
        covers == {F \in SUBSET inside : UNION {s.idx : s \in F} = all}
    IN  CHOOSE F \in covers : \A G \in covers : Cardinality(F) <= Cardinality(G)

\* Mutant of CoverStep: a set that reaches out of the query may cover it.
CoverStepAnySet(b, dir, acc, alg) ==
    LET chosen == {s \in b.secrets : /\ s.direction = dir
                                     /\ s.alg = alg
                                     /\ s.idx \cap acc.uncovered # {}}
    IN  [uncovered |-> acc.uncovered \ UNION {s.idx : s \in chosen},
         chosen |-> acc.chosen \cup chosen]

\* One turn of the loop of build, for one direction: the preferred kind covers
\* what it can of what the kinds before it left over.
CoverStep(b, dir, acc, alg) ==
    LET chosen == CoverBy(acc.uncovered,
                          {s \in b.secrets : s.direction = dir /\ s.alg = alg})
    IN  [uncovered |-> acc.uncovered \ UNION {s.idx : s \in chosen},
         chosen |-> acc.chosen \cup chosen]

CoverAll(b, dir) ==
    FoldLeft(LAMBDA acc, alg : CoverStep(b, dir, acc, alg),
             [uncovered |-> b.query[dir], chosen |-> {}], b.kinds)

\* Transcript::to_partial: the bytes outside of the index are zero.
PartialOf(transcript, query) ==
    [bytes |-> [d \in Dirs |->
        [k \in DOMAIN transcript[d] |-> IF k - 1 \in query[d] THEN transcript[d][k] ELSE 0]],
     authed |-> query]

\* build fails if a part of the query is left uncovered.
BuildAllowed(b) == \A d \in Dirs : CoverAll(b, d).uncovered = {}

BuildProof(b) ==
    [transcript |-> PartialOf(b.transcript, b.query),
     secrets |-> UNION {CoverAll(b, d).chosen : d \in Dirs}]

-----------------------------------------------------------------------------
\* TranscriptProof::verify_with_provider. A verdict is "ok" or the kind of
\* the error.

\* The opening matches one of the commitments.
OpensCommitment(proof, s, commitments) ==
    PlaintextHash(s, proof.transcript.bytes[s.direction]) \in commitments

SecretAccepted(proof, s, provider, commitments) ==
    /\ HasHash(provider, s.alg)
    /\ IdxEnd(s.idx) <= Len(proof.transcript.bytes[s.direction])
    /\ OpensCommitment(proof, s, commitments)

\* The opened ranges are exactly the ranges the transcript claims.
AllAuthenticated(proof) ==
    \A d \in Dirs :
        UNION {s.idx : s \in {t \in proof.secrets : t.direction = d}}
            = proof.transcript.authed[d]

VerifyProof(proof, provider, length, commitments) ==
    IF \E d \in Dirs : Len(proof.transcript.bytes[d]) # length[d] THEN "proof"
    ELSE IF \E s \in proof.secrets : ~SecretAccepted(proof, s, provider, commitments)
    THEN "hash"
    ELSE IF ~AllAuthenticated(proof) THEN "proof"
    ELSE "ok"
=============================================================================
