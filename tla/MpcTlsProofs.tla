--------------------------- MODULE MpcTlsProofs ---------------------------
(***************************************************************************)
(* The theorems about an MPC-TLS connection.  The steps are in             *)
(* MpcTlsFollowerProofs, MpcTlsLeaderProofs and MpcTlsPropertyProofs; here *)
(* their hypotheses about the helpers are discharged.                      *)
(***************************************************************************)
EXTENDS MpcTlsLeaderProofs, MpcTlsPropertyProofs, RecordLayerOpsProofs

-----------------------------------------------------------------------------
(* The helpers. *)

\* What the proofs assume of the byte counts and of the split of a flush.
LEMMA HelpersHold == HelpersSound
<1>1. \A ops \in Seq(Record) :
        /\ Bytes(ops) \in Nat /\ Blocks(ops) \in Nat
        /\ PublicBlocks(ops) \in Nat /\ PrivateBytes(ops) \in Nat
  BY Zenon, CountsType
<1>2. ASSUME NEW r, NEW dec \in BOOLEAN, r.decrypt_buffer \in Seq(Record)
      PROVE  /\ DecryptOps(r, dec) \in Seq(Record) /\ DeferredOps(r, dec) \in Seq(Record)
             /\ DecryptOps(r, dec) \o DeferredOps(r, dec) = r.decrypt_buffer
  BY Zenon, <1>2, DrainSplits
<1> QED
  BY Zenon, <1>1, <1>2 DEF HelpersSound

\* The numbers of the application data of a transcript with one more record.
LEMMA AppSeqsAppend ==
    ASSUME NEW s \in Seq(Record), NEW e \in Record
    PROVE  AppSeqs(Append(s, e)) = IF Private(e) THEN Append(AppSeqs(s), e.seq) ELSE AppSeqs(s)
<1> DEFINE n == Len(s)
           t == Append(s, e)
           A == {i \in 1..n : Private(s[i])}
           B == {i \in 1..Len(t) : Private(t[i])}
           U(i) == {j \in A : j <= i}
           V(i) == {j \in B : j <= i}
           at(k) == CHOOSE i \in A : Cardinality(U(i)) = k
           bt(k) == CHOOSE i \in B : Cardinality(V(i)) = k
<1>1. n \in Nat /\ Len(t) = n + 1 /\ t[n + 1] = e /\ \A i \in 1..n : t[i] = s[i]
  OBVIOUS
<1>2. AppSeqs(s) = [k \in 1..Cardinality(A) |-> s[at(k)].seq]
  BY Zenon DEF AppSeqs
<1>3. AppSeqs(t) = [k \in 1..Cardinality(B) |-> t[bt(k)].seq]
  BY Zenon DEF AppSeqs
<1>4. A \in SUBSET (1..n) /\ B \in SUBSET (1..(n + 1)) /\ n + 1 \in Nat
  <2>1. n + 1 \in Nat
    BY <1>1
  <2> QED
    BY Zenon, <1>1, <2>1
<1>5. /\ IsFiniteSet(A) /\ Cardinality(A) \in Nat
      /\ \A i \in A : Cardinality(U(i)) \in 1..Cardinality(A)
      /\ \A k \in 1..Cardinality(A) : \E i \in A : Cardinality(U(i)) = k
      /\ \A i, j \in A : Cardinality(U(i)) = Cardinality(U(j)) => i = j
  BY Zenon, <1>1, <1>4, Ranks
<1>6. \A i, j \in B : Cardinality(V(i)) = Cardinality(V(j)) => i = j
  BY Zenon, <1>4, Ranks
<1>7. \A k \in 1..Cardinality(A) : at(k) \in A /\ Cardinality(U(at(k))) = k
  BY Zenon, <1>5
<1>8. CASE ~Private(e)
  <2>1. B = A
    <3>1. \A i \in 1..(n + 1) : i \in 1..n \/ i = n + 1
      BY <1>1
    <3>2. \A i \in 1..n : i \in 1..(n + 1)
      BY <1>1
    <3> QED
      BY Zenon, <1>1, <1>8, <3>1, <3>2
  <2>2. \A k \in 1..Cardinality(A) : bt(k) = at(k) /\ t[at(k)] = s[at(k)]
    BY Zenon, <1>1, <1>4, <1>7, <2>1
  <2> HIDE DEF A, B, t, at, bt
  <2>3. \A k \in 1..Cardinality(A) : t[bt(k)].seq = s[at(k)].seq
    BY Zenon, <2>2
  <2>4. [k \in 1..Cardinality(A) |-> t[bt(k)].seq] = [k \in 1..Cardinality(A) |-> s[at(k)].seq]
    BY Zenon, <2>3
  <2>5. AppSeqs(t) = AppSeqs(s)
    BY Zenon, <1>2, <1>3, <2>1, <2>4
  <2> QED
    BY Zenon, <1>8, <2>5 DEF t
<1>9. CASE Private(e)
  <2>1. B = A \cup {n + 1} /\ n + 1 \notin A
    <3>1. \A i \in 1..(n + 1) : i \in 1..n \/ i = n + 1
      BY <1>1
    <3>2. (\A i \in 1..n : i \in 1..(n + 1)) /\ n + 1 \in 1..(n + 1) /\ n + 1 \notin 1..n
      BY <1>1
    <3> QED
      BY Zenon, <1>1, <1>9, <3>1, <3>2
  <2>2. Cardinality(B) = Cardinality(A) + 1
    <3>1. IsFiniteSet(A)
      BY Zenon, <1>5
    <3> HIDE DEF A, B
    <3> QED
      BY Zenon, <2>1, <3>1, FS_AddElement
  <2>3. \A i \in A : V(i) = U(i)
    <3>1. \A i \in 1..n : ~(n + 1 <= i)
      BY <1>1
    <3> QED
      BY Zenon, <1>4, <2>1, <3>1
  <2>4. V(n + 1) = B
    <3>1. \A i \in 1..(n + 1) : i <= n + 1
      BY <1>1
    <3> QED
      BY Zenon, <1>1, <3>1
  <2>5. \A k \in 1..Cardinality(A) : bt(k) = at(k)
    <3> SUFFICES ASSUME NEW k \in 1..Cardinality(A) PROVE bt(k) = at(k)
      BY Zenon
    <3>1. at(k) \in B /\ Cardinality(V(at(k))) = k
      BY Zenon, <1>7, <2>1, <2>3
    <3>2. bt(k) \in B /\ Cardinality(V(bt(k))) = k
      BY Zenon, <3>1
    <3> QED
      BY Zenon, <1>6, <3>1, <3>2
  <2>6. bt(Cardinality(A) + 1) = n + 1
    <3>1. n + 1 \in B /\ Cardinality(V(n + 1)) = Cardinality(A) + 1
      BY Zenon, <2>1, <2>2, <2>4
    <3>2. /\ bt(Cardinality(A) + 1) \in B
          /\ Cardinality(V(bt(Cardinality(A) + 1))) = Cardinality(A) + 1
      BY Zenon, <3>1
    <3> QED
      BY Zenon, <1>6, <3>1, <3>2
  <2>7. \A k \in 1..Cardinality(A) : t[bt(k)].seq = s[at(k)].seq
    BY Zenon, <1>1, <1>4, <1>7, <2>5
  <2>8. t[bt(Cardinality(A) + 1)].seq = e.seq
    BY Zenon, <1>1, <2>6
  <2> DEFINE c == Cardinality(A)
             f == AppSeqs(s)
             g == AppSeqs(t)
  <2>9. c \in Nat /\ f = [k \in 1..c |-> s[at(k)].seq] /\ g = [k \in 1..(c + 1) |-> t[bt(k)].seq]
    BY Zenon, <1>2, <1>3, <1>5, <2>2
  <2>10. \A m \in Nat : (\A k \in 1..m : k \in 1..(m + 1)) /\ m + 1 \in 1..(m + 1)
    OBVIOUS
  <2>11. /\ \A k \in 1..c : g[k] = f[k]
         /\ g[c + 1] = e.seq
    <3> HIDE DEF c, f, g, at, bt, t
    <3>1. (\A k \in 1..c : k \in 1..(c + 1)) /\ c + 1 \in 1..(c + 1)
      BY Zenon, <2>9, <2>10
    <3>2. \A k \in 1..c : t[bt(k)].seq = s[at(k)].seq
      BY Zenon, <2>7 DEF c
    <3>3. t[bt(c + 1)].seq = e.seq
      BY Zenon, <2>8 DEF c
    <3>4. \A k \in 1..c : f[k] = s[at(k)].seq
      BY Zenon, <2>9
    <3>5. \A k \in 1..(c + 1) : g[k] = t[bt(k)].seq
      BY Zenon, <2>9
    <3> QED
      BY Zenon, <3>1, <3>2, <3>3, <3>4, <3>5
  <2>12. f \in [1..c -> Nat] /\ g \in [1..(c + 1) -> Nat]
    <3>1. \A k \in 1..c : s[at(k)] \in Record
      BY Zenon, <1>4, <1>7, ElementOfSeq
    <3>2. \A k \in 1..c : s[at(k)].seq \in Nat
      BY Zenon, <3>1 DEF Record
    <3>3. e.seq \in Nat
      BY Zenon DEF Record
    <3>4. \A m \in Nat : \A k \in 1..(m + 1) : k \in 1..m \/ k = m + 1
      OBVIOUS
    <3> HIDE DEF c, f, g, at, bt, t
    <3>5. \A k \in 1..(c + 1) : t[bt(k)].seq \in Nat
      BY Zenon, <2>7, <2>8, <2>9, <3>2, <3>3, <3>4 DEF c
    <3> QED
      BY Zenon, <2>9, <3>2, <3>5
  <2>13. g = Append(f, g[c + 1])
    <3>1. c \in Nat
      BY Zenon, <2>9
    <3>2. \A k \in 1..c : g[k] = f[k]
      BY Zenon, <2>11
    <3> HIDE DEF c, f, g
    <3> QED
      BY <2>12, <3>1, <3>2, SeqExtend
  <2> QED
    BY Zenon, <1>9, <2>11, <2>13
<1> QED
  BY Zenon, <1>8, <1>9

\* What the proofs assume of AppSeqs and of a flush's operations.
LEMMA StreamHelpersHold == StreamHelpers
<1>1. AppSeqs(<<>>) = <<>>
  <2> DEFINE A == {i \in 1..Len(<<>>) : Private(<<>>[i])}
             h(k) == <<>>[CHOOSE i \in A : Cardinality({j \in A : j <= i}) = k].seq
  <2>1. AppSeqs(<<>>) = [k \in 1..Cardinality(A) |-> h(k)]
    BY Zenon DEF AppSeqs
  <2>2. A = {}
    OBVIOUS
  <2> HIDE DEF A, h
  <2>3. Cardinality(A) = 0
    BY Zenon, <2>2, FS_EmptySet
  <2>4. [k \in 1..0 |-> h(k)] = <<>>
    OBVIOUS
  <2> QED
    BY Zenon, <2>1, <2>3, <2>4
<1>2. ASSUME NEW r, NEW dec \in BOOLEAN, r.decrypt_buffer \in Seq(Record), r.decrypt_buffer = <<>>
      PROVE  DecryptOps(r, dec) = <<>>
  BY Zenon, <1>2, DrainSettles
<1>3. ASSUME NEW r, NEW q, NEW dec \in BOOLEAN, r.decrypt_buffer \in Seq(Record),
             q.decrypt_buffer = DeferredOps(r, dec)
      PROVE  DecryptOps(q, dec) = <<>>
  <2>1. q.decrypt_buffer \in Seq(Record)
    BY Zenon, <1>3, DrainSplits
  <2> QED
    BY Zenon, <1>3, <2>1, DrainSettles
<1> QED
  BY Zenon, <1>1, <1>2, <1>3, AppSeqsAppend DEF StreamHelpers

-----------------------------------------------------------------------------
\* No step changes what the invariant says.
LEMMA NextInv ==
    ASSUME Inv, [Next]_vars
    PROVE  Inv'
<1>1. CASE Next
  <2>1. CASE Environment
    BY Zenon, <2>1, AppSteps, ServerStep DEF Environment
  <2>2. CASE UNCHANGED vars
    BY Zenon, <2>2, StutterInv
  <2> QED
    BY Zenon, <1>1, <2>1, <2>2, LeaderSteps, FollowerSteps, JointSteps,
       HelpersHold DEF Next, Terminated
<1>2. CASE UNCHANGED vars
  BY Zenon, <1>2, StutterInv
<1> QED
  BY Zenon, <1>1, <1>2

-----------------------------------------------------------------------------
\* The inductive invariant: the leader and its TLS client are at matching points of
\* their code, the follower's position plus the messages on their way is the
\* leader's position, and the parties are in the same computation or will be
\* (MpcTlsLeader, MpcTlsFollower::run and the messages between them).
THEOREM MpcTlsInvariant == Spec => []Inv
<1>1. Init => Inv
  BY InitInv
<1>2. Inv /\ [Next]_vars => Inv'
  BY NextInv
<1> QED
  BY <1>1, <1>2, PTL DEF Spec

\* The two parties compute together or not at all: whenever the follower has caught
\* up they have the same operations, counters and transcript, and they are never in
\* two different computations (MpcTlsLeader against MpcTlsFollower::run).
THEOREM PartiesInStep == Spec => []InStep
<1>1. Inv => InStep
  BY InvInStep
<1> QED
  BY <1>1, MpcTlsInvariant, PTL

\* close_connection succeeds for the leader only when the follower's run does, and
\* the commit always finds both Finished records in the transcript
\* (TlsTranscriptBuilder::build).
THEOREM CloseAlwaysAgreed == Spec => []CloseAgreed
<1>1. Inv => CloseAgreed
  BY InvCloseAgreed
<1> QED
  BY <1>1, MpcTlsInvariant, PTL

\* The stream's invariant: what the TLS client has taken is the beginning of the
\* transcript, nothing is private before the server's Finished message was checked,
\* and a pass leaves no frames and nothing that could be decrypted to the next one
\* (process_new_packets and InnerState::run over the leader's Backend).
THEOREM StreamInvariant == Spec => []StreamInv
<1>1. Init => StreamInv
  BY StreamInit, StreamHelpersHold
<1>2. Inv /\ StreamInv /\ [Next]_vars => StreamInv'
  BY StreamNext, StreamHelpersHold, HelpersHold
<1> QED
  BY <1>1, <1>2, MpcTlsInvariant, PTL DEF Spec

\* The application receives the application data of the transcript in order and
\* without gaps, however often decryption is switched on and off, and all of it when
\* the client is done; none before the server's Finished message was checked; and a
\* run of the TLS client leaves nothing to encrypt for the commit to refuse
\* (MpcTlsLeader's Backend, InnerState::run).
THEOREM StreamIsWhole == Spec => []ApplicationStream
<1>1. Inv /\ StreamInv => ApplicationStream
  BY InvApplicationStream
<1> QED
  BY <1>1, MpcTlsInvariant, StreamInvariant, PTL
=============================================================================
