----------------------- MODULE RecordLayerOpsProofs -----------------------
(***************************************************************************)
(* Lemmas about the helpers of RecordLayerOps, for the proofs about one    *)
(* record layer (RecordLayerProofs) and about the two of a connection      *)
(* (MpcTlsProofs).                                                         *)
(***************************************************************************)
EXTENDS RecordLayerOps, SequenceTheorems, FiniteSetTheorems, WellFoundedInduction, TLAPS

-----------------------------------------------------------------------------
\* Sets of positions in a queue are finite, so the byte and block counts that
\* record_layer.rs sums up are natural numbers.
LEMMA PositionsFinite ==
    ASSUME NEW ops \in Seq(Record), NEW T \in SUBSET ((1..Len(ops)) \X (1..MaxLen))
    PROVE  IsFiniteSet(T) /\ Cardinality(T) \in Nat
<1>1. Len(ops) \in Int /\ MaxLen \in Int
  BY LimitsAssumption
<1>2. IsFiniteSet(1..Len(ops)) /\ IsFiniteSet(1..MaxLen)
  BY <1>1, FS_Interval
<1>3. IsFiniteSet((1..Len(ops)) \X (1..MaxLen))
  BY <1>2, FS_Product, Zenon
<1>4. IsFiniteSet(T)
  BY <1>3, FS_Subset, Zenon
<1> QED
  BY <1>4, FS_CardinalityType, Zenon

\* The byte and block counts of a queue are natural numbers, and application
\* data is at most the whole.
LEMMA CountsType ==
    ASSUME NEW ops \in Seq(Record)
    PROVE  /\ Bytes(ops) \in Nat
           /\ Blocks(ops) \in Nat
           /\ PublicBlocks(ops) \in Nat
           /\ PrivateBytes(ops) \in Nat
           /\ PrivateBytes(ops) <= Bytes(ops)
<1> DEFINE P == (1..Len(ops)) \X (1..MaxLen)
           B == {ib \in P : ib[2] <= ops[ib[1]].len}
           V == {ib \in P : Private(ops[ib[1]]) /\ ib[2] <= ops[ib[1]].len}
<1>1. Bytes(ops) \in Nat
  BY PositionsFinite DEF Bytes
<1>2. Blocks(ops) \in Nat
  BY PositionsFinite DEF Blocks
<1>3. PublicBlocks(ops) \in Nat
  BY PositionsFinite DEF PublicBlocks
<1>4. PrivateBytes(ops) \in Nat
  BY PositionsFinite DEF PrivateBytes
<1>5. PrivateBytes(ops) <= Bytes(ops)
  <2>1. B \in SUBSET P /\ V \in SUBSET B
    OBVIOUS
  <2>2. IsFiniteSet(B)
    BY <2>1, PositionsFinite
  <2>3. Cardinality(V) <= Cardinality(B)
    BY <2>1, <2>2, FS_Subset, Zenon
  <2> QED
    BY <2>3 DEF Bytes, PrivateBytes
<1> QED
  BY <1>1, <1>2, <1>3, <1>4, <1>5

\* A non-empty set of natural numbers has a least element.
LEMMA LeastNat ==
    ASSUME NEW T \in SUBSET Nat, T # {}
    PROVE  \E x \in T : \A y \in T : x <= y
<1> DEFINE R == OpToRel(<, Nat)
<1>1. IsWellFoundedOn(R, Nat)
  BY Zenon, NatLessThanWellFounded
<1> HIDE DEF R
<1>2. PICK x \in T : \A y \in T : ~(<<y, x>> \in R)
  BY <1>1, WFMin, Zenon
<1>3. \A y \in T : ~(y < x)
  BY Zenon, <1>2 DEF R, OpToRel
<1> QED
  BY <1>3

\* flush's search for the first application data record of the decrypt buffer
\* ends within the buffer or one past its end, with no application data before.
LEMMA FirstAppDataProperty ==
    ASSUME NEW buffer \in Seq(Record)
    PROVE  /\ FirstAppData(buffer) \in 1..(Len(buffer) + 1)
           /\ \A i \in 1..(FirstAppData(buffer) - 1) : ~Private(buffer[i])
           /\ FirstAppData(buffer) <= Len(buffer) => Private(buffer[FirstAppData(buffer)])
<1> DEFINE T == {n \in 1..(Len(buffer) + 1) : n <= Len(buffer) => Private(buffer[n])}
           First(n) == /\ \A i \in 1..(n - 1) : ~Private(buffer[i])
                       /\ n <= Len(buffer) => Private(buffer[n])
<1>1. Len(buffer) + 1 \in T /\ T \in SUBSET Nat
  OBVIOUS
<1>2. PICK n \in T : \A m \in T : n <= m
  BY Zenon, <1>1, LeastNat
<1>3. n \in 1..(Len(buffer) + 1) /\ First(n)
  <2>1. ASSUME NEW i \in 1..(n - 1)  PROVE ~Private(buffer[i])
    BY <1>2, <2>1
  <2> QED
    BY <2>1, <1>2
<1>4. FirstAppData(buffer) \in 1..(Len(buffer) + 1) /\ First(FirstAppData(buffer))
  BY <1>3 DEF FirstAppData
<1> QED
  BY <1>4

\* What a flush drains from the decrypt buffer and what it leaves there are the
\* buffer, in order; a flush that is not decrypting drains no application data.
LEMMA DrainSplits ==
    ASSUME NEW r, r.decrypt_buffer \in Seq(Record), NEW dec \in BOOLEAN
    PROVE  /\ DecryptOps(r, dec) \in Seq(Record)
           /\ DeferredOps(r, dec) \in Seq(Record)
           /\ DecryptOps(r, dec) \o DeferredOps(r, dec) = r.decrypt_buffer
           /\ ~dec => PrivateBytes(DecryptOps(r, dec)) = 0
<1> DEFINE b == r.decrypt_buffer
           n == FirstAppData(b)
<1>1. n \in 1..(Len(b) + 1) /\ \A i \in 1..(n - 1) : ~Private(b[i])
  BY FirstAppDataProperty
<1>2. CASE dec
  BY <1>2, ConcatEmptySeq DEF DecryptOps, DeferredOps
<1>3. CASE ~dec
  <2>1. /\ SubSeq(b, 1, n - 1) \in Seq(Record)
        /\ SubSeq(b, n, Len(b)) \in Seq(Record)
    BY <1>1
  <2>2. SubSeq(b, 1, n - 1) \o SubSeq(b, n, Len(b)) = b
    <3>1. SubSeq(b, 1, n - 1) \o SubSeq(b, n - 1 + 1, Len(b)) = SubSeq(b, 1, Len(b))
      <4>1. 1 \in 1..(Len(b) + 1) /\ n - 1 \in (1 - 1)..Len(b) /\ Len(b) \in (n - 1)..Len(b)
        BY <1>1
      <4> QED
        BY Zenon, <4>1, ConcatAdjacentSubSeq
    <3>2. SubSeq(b, 1, Len(b)) = b
      BY SubSeqFull
    <3>3. n - 1 + 1 = n
      BY <1>1
    <3> QED
      BY <3>1, <3>2, <3>3, Zenon
  <2>3. PrivateBytes(SubSeq(b, 1, n - 1)) = 0
    <3> DEFINE s == SubSeq(b, 1, n - 1)
    <3>1. \A i \in 1..Len(s) : ~Private(s[i])
      BY <1>1
    <3>2. {ib \in (1..Len(s)) \X (1..MaxLen) :
              Private(s[ib[1]]) /\ ib[2] <= s[ib[1]].len} = {}
      BY Zenon, <3>1
    <3> QED
      BY Zenon, <3>2, FS_EmptySet DEF PrivateBytes
  <2> QED
    BY Zenon, <1>3, <2>1, <2>2, <2>3 DEF DecryptOps, DeferredOps
<1> QED
  BY <1>2, <1>3

\* An empty decrypt buffer leaves a flush nothing to decrypt, and so does what a flush
\* has deferred: it is empty or starts with application data.
LEMMA DrainSettles ==
    ASSUME NEW q, q.decrypt_buffer \in Seq(Record), NEW dec \in BOOLEAN,
           \/ q.decrypt_buffer = <<>>
           \/ \E r : r.decrypt_buffer \in Seq(Record) /\ q.decrypt_buffer = DeferredOps(r, dec)
    PROVE  DecryptOps(q, dec) = <<>>
<1> DEFINE b == q.decrypt_buffer
<1>1. CASE b = <<>>
  <2>1. FirstAppData(<<>>) \in 1..(Len(<<>>) + 1)
    BY Zenon, <1>1, FirstAppDataProperty
  <2>2. SubSeq(<<>>, 1, FirstAppData(<<>>) - 1) = <<>>
    BY <2>1
  <2> QED
    BY Zenon, <1>1, <2>2 DEF DecryptOps
<1>2. ASSUME NEW r, r.decrypt_buffer \in Seq(Record), b = DeferredOps(r, dec), b # <<>>
      PROVE  DecryptOps(q, dec) = <<>>
  <2> DEFINE c == r.decrypt_buffer
             n == FirstAppData(c)
  <2>1. ~dec /\ b = SubSeq(c, n, Len(c))
    BY Zenon, <1>2 DEF DeferredOps
  <2>2. n \in 1..(Len(c) + 1) /\ (n <= Len(c) => Private(c[n]))
    BY <1>2, FirstAppDataProperty
  <2> HIDE DEF n, c
  <2>3. b[1] = c[n] /\ Len(b) >= 1 /\ n <= Len(c)
    BY <1>2, <2>1, <2>2 DEF c
  <2>4. FirstAppData(b) \in 1..(Len(b) + 1) /\ \A i \in 1..(FirstAppData(b) - 1) : ~Private(b[i])
    BY FirstAppDataProperty
  <2>5. FirstAppData(b) = 1
    BY <2>2, <2>3, <2>4
  <2>6. SubSeq(b, 1, 1 - 1) = <<>>
    OBVIOUS
  <2> QED
    BY Zenon, <2>1, <2>5, <2>6 DEF DecryptOps
<1> QED
  BY Zenon, <1>1, <1>2

\* A function that is one element longer than another is that one with the element.
LEMMA SeqExtend ==
    ASSUME NEW S, NEW c \in Nat, NEW f \in [1..c -> S], NEW g \in [1..(c + 1) -> S],
           \A k \in 1..c : g[k] = f[k]
    PROVE  g = Append(f, g[c + 1])
<1> DEFINE x == g[c + 1]
<1>1. x \in S
  OBVIOUS
<1> HIDE DEF x
<1>2. f \in Seq(S) /\ g \in Seq(S)
  <2>1. c + 1 \in Nat
    OBVIOUS
  <2> QED
    BY <2>1, SeqDef
<1>3. Len(f) = c /\ Len(g) = c + 1
  BY <1>2
<1>4. /\ Append(f, x) \in Seq(S) /\ Len(Append(f, x)) = Len(f) + 1
      /\ \A k \in 1..Len(f) : Append(f, x)[k] = f[k]
      /\ Append(f, x)[Len(f) + 1] = x
  BY <1>1, <1>2
<1>5. \A k \in 1..(c + 1) : k \in 1..c \/ k = c + 1
  OBVIOUS
<1>6. \A k \in 1..(c + 1) : g[k] = Append(f, x)[k]
  BY Zenon, <1>3, <1>4, <1>5 DEF x
<1>7. g = Append(f, x)
  BY Zenon, <1>2, <1>3, <1>4, <1>6, SeqEqual
<1> QED
  BY Zenon, <1>7 DEF x

\* The elements of a set of positions are numbered without gaps: there is exactly one
\* for every number up to the size of the set.
LEMMA Ranks ==
    ASSUME NEW n \in Nat, NEW A \in SUBSET (1..n)
    PROVE  /\ IsFiniteSet(A) /\ Cardinality(A) \in Nat
           /\ \A i \in A : Cardinality({j \in A : j <= i}) \in 1..Cardinality(A)
           /\ \A k \in 1..Cardinality(A) : \E i \in A : Cardinality({j \in A : j <= i}) = k
           /\ \A i, j \in A :
                Cardinality({m \in A : m <= i}) = Cardinality({m \in A : m <= j}) => i = j
<1> DEFINE U(i) == {j \in A : j <= i}
<1>0. \A x \in A : x \in Nat /\ 1 <= x /\ x <= n
  OBVIOUS
<1>1. IsFiniteSet(A) /\ Cardinality(A) \in Nat
  <2>1. IsFiniteSet(1..n)
    BY FS_Interval
  <2>2. IsFiniteSet(A)
    BY Zenon, <2>1, FS_Subset
  <2> QED
    BY Zenon, <2>2, FS_CardinalityType
<1>2. \A T \in SUBSET A : IsFiniteSet(T) /\ Cardinality(T) \in Nat /\ Cardinality(T) <= Cardinality(A)
  BY Zenon, <1>1, FS_Subset, FS_CardinalityType
<1>3. \A i : U(i) \in SUBSET A
  BY Zenon
<1>4. ASSUME NEW i \in A, NEW j \in A, i < j
      PROVE  Cardinality(U(i)) < Cardinality(U(j))
  <2>1. U(i) \in SUBSET U(j) /\ j \in U(j) /\ j \notin U(i)
    <3>1. (\A x \in A : x <= i => x <= j) /\ j <= j /\ ~(j <= i)
      BY <1>0, <1>4
    <3> QED
      BY Zenon, <3>1
  <2>2. Cardinality(U(i)) <= Cardinality(U(j)) /\ Cardinality(U(i)) # Cardinality(U(j))
    <3>1. IsFiniteSet(U(j))
      BY Zenon, <1>2, <1>3
    <3> HIDE DEF U
    <3> QED
      BY Zenon, <2>1, <3>1, FS_Subset
  <2>3. Cardinality(U(i)) \in Nat /\ Cardinality(U(j)) \in Nat
    BY Zenon, <1>2, <1>3
  <2> HIDE DEF U
  <2> QED
    BY <2>2, <2>3
<1>5. \A i, j \in A : Cardinality(U(i)) = Cardinality(U(j)) => i = j
  <2> SUFFICES ASSUME NEW i \in A, NEW j \in A, i # j
               PROVE  Cardinality(U(i)) # Cardinality(U(j))
    BY Zenon
  <2>1. i < j \/ j < i
    OBVIOUS
  <2>2. Cardinality(U(i)) \in Nat /\ Cardinality(U(j)) \in Nat
    BY Zenon, <1>2, <1>3
  <2>3. \/ Cardinality(U(i)) < Cardinality(U(j)) \/ Cardinality(U(j)) < Cardinality(U(i))
    BY Zenon, <1>4, <2>1
  <2> HIDE DEF U
  <2> QED
    BY <2>2, <2>3
<1>6. \A i \in A : Cardinality(U(i)) \in 1..Cardinality(A)
  <2> SUFFICES ASSUME NEW i \in A PROVE Cardinality(U(i)) \in 1..Cardinality(A)
    BY Zenon
  <2>1. U(i) # {}
    BY DEF U
  <2>2. Cardinality(U(i)) # 0
    BY Zenon, <1>2, <1>3, <2>1, FS_EmptySet
  <2>3. Cardinality(U(i)) \in Nat /\ Cardinality(U(i)) <= Cardinality(A)
    BY Zenon, <1>2, <1>3
  <2> HIDE DEF U
  <2> QED
    BY <1>1, <2>2, <2>3
<1>7. ASSUME NEW k \in 1..Cardinality(A)
      PROVE  \E i \in A : Cardinality(U(i)) = k
  <2> DEFINE T == {m \in Nat : k <= Cardinality(U(m))}
  <2>1. n \in T
    <3>1. U(n) = A
      BY Zenon, <1>0
    <3> QED
      BY <1>1, <1>7, <3>1
  <2>2. PICK m \in T : \A l \in T : m <= l
    <3>1. T \in SUBSET Nat /\ T # {}
      BY Zenon, <2>1
    <3> HIDE DEF T
    <3> QED
      BY Zenon, <3>1, LeastNat
  <2>3. m \in Nat /\ k <= Cardinality(U(m))
    BY Zenon, <2>2
  <2>4. m # 0
    <3>1. U(0) = {}
      <4>1. \A x \in A : ~(x <= 0)
        BY <1>0
      <4> QED
        BY Zenon, <4>1
    <3>2. Cardinality(U(0)) = 0
      BY Zenon, <3>1, FS_EmptySet
    <3> HIDE DEF U
    <3> QED
      BY <1>7, <2>3, <3>2
  <2>5. m - 1 \in Nat /\ m - 1 \notin T
    <3>1. m - 1 \in Nat /\ ~(m <= m - 1)
      BY <2>3, <2>4
    <3> QED
      BY Zenon, <2>2, <3>1
  <2>6. Cardinality(U(m - 1)) < k
    <3>1. ~(k <= Cardinality(U(m - 1)))
      BY Zenon, <2>5
    <3>2. Cardinality(U(m - 1)) \in Nat
      BY Zenon, <1>2, <1>3
    <3> HIDE DEF U
    <3> QED
      BY <1>1, <1>7, <3>1, <3>2
  <2>7. m \in A
    <3> SUFFICES ASSUME m \notin A PROVE FALSE
      BY Zenon
    <3>1. U(m) = U(m - 1)
      <4>1. \A x \in A : x <= m <=> x <= m - 1
        BY <1>0, <2>3
      <4> QED
        BY Zenon, <4>1
    <3>2. k <= Cardinality(U(m - 1))
      BY Zenon, <2>3, <3>1
    <3> QED
      BY Zenon, <2>5, <3>2
  <2>8. Cardinality(U(m)) = Cardinality(U(m - 1)) + 1
    <3>1. U(m) = U(m - 1) \cup {m} /\ m \notin U(m - 1)
      <4>1. \A x \in A : x <= m <=> x <= m - 1 \/ x = m
        BY <1>0, <2>3
      <4>2. ~(m <= m - 1) /\ m <= m
        BY <2>3
      <4> QED
        BY Zenon, <2>7, <4>1, <4>2
    <3>2. IsFiniteSet(U(m - 1))
      BY Zenon, <1>2, <1>3
    <3> HIDE DEF U
    <3> QED
      BY Zenon, <3>1, <3>2, FS_AddElement
  <2>9. Cardinality(U(m - 1)) \in Nat
    BY Zenon, <1>2, <1>3
  <2>10. Cardinality(U(m)) = k
    <3> HIDE DEF U
    <3> QED
      BY <1>1, <1>7, <2>3, <2>6, <2>8, <2>9
  <2> QED
    BY Zenon, <2>7, <2>10
<1> QED
  BY Zenon, <1>1, <1>5, <1>6, <1>7

\* An empty queue has no bytes and takes no blocks.
LEMMA CountsOfNothing ==
    /\ Bytes(<<>>) = 0 /\ Blocks(<<>>) = 0
    /\ PublicBlocks(<<>>) = 0 /\ PrivateBytes(<<>>) = 0
<1>1. \A T : T \in SUBSET ((1..Len(<<>>)) \X (1..MaxLen)) => T = {}
  OBVIOUS
<1>2. Bytes(<<>>) = 0
  BY <1>1, FS_EmptySet DEF Bytes
<1>3. Blocks(<<>>) = 0
  BY <1>1, FS_EmptySet DEF Blocks
<1>4. PublicBlocks(<<>>) = 0
  BY <1>1, FS_EmptySet DEF PublicBlocks
<1>5. PrivateBytes(<<>>) = 0
  BY <1>1, FS_EmptySet DEF PrivateBytes
<1> QED
  BY <1>2, <1>3, <1>4, <1>5

\* Concatenation of queues is associative.
LEMMA ConcatAssoc ==
    \A a, b, c \in Seq(Record) : (a \o b) \o c = a \o (b \o c)
  BY ConcatAssociative

\* Taking the head of a queue moves it behind what was taken before.
LEMMA TakeHead ==
    ASSUME NEW s \in Seq(Record), NEW q \in Seq(Record), q # <<>>
    PROVE  /\ Append(s, Head(q)) \in Seq(Record)
           /\ Tail(q) \in Seq(Record)
           /\ Append(s, Head(q)) \o Tail(q) = s \o q
<1>1. Head(q) \in Record /\ Tail(q) \in Seq(Record) /\ Append(s, Head(q)) \in Seq(Record)
  BY HeadTailProperties
<1>2. /\ Append(s, Head(q)) \o Tail(q) \in Seq(Record)
      /\ s \o q \in Seq(Record)
  BY <1>1
<1>3. Len(Append(s, Head(q)) \o Tail(q)) = Len(s \o q)
  BY <1>1
<1>4. \A i \in 1..Len(s \o q) : (Append(s, Head(q)) \o Tail(q))[i] = (s \o q)[i]
  BY <1>1
<1> QED
  BY <1>2, <1>3, <1>4, SeqEqual

\* C holds the positions of A, in a queue of m records, and, behind them, those of
\* B, in a queue of n records.
Joins(m, n, k, A, B, C) ==
    /\ A \in SUBSET ((1..m) \X (1..k))
    /\ B \in SUBSET ((1..n) \X (1..k))
    /\ C \in SUBSET ((1..(m + n)) \X (1..k))
    /\ \A i \in 1..m, j \in 1..k : <<i, j>> \in C <=> <<i, j>> \in A
    /\ \A i \in 1..n, j \in 1..k : <<m + i, j>> \in C <=> <<i, j>> \in B

\* Counting the positions of a queue that follows another: they are the positions
\* of the first and, shifted behind them, those of the second.
LEMMA CountConcat ==
    ASSUME NEW m \in Nat, NEW n \in Nat, NEW k \in Nat, NEW A, NEW B, NEW C,
           Joins(m, n, k, A, B, C)
    PROVE  Cardinality(C) = Cardinality(A) + Cardinality(B)
<1> USE DEF Joins
<1> DEFINE D == {p \in C : p[1] > m}
           f == [p \in B |-> <<m + p[1], p[2]>>]
<1>1. /\ IsFiniteSet((1..m) \X (1..k)) /\ IsFiniteSet((1..n) \X (1..k))
      /\ IsFiniteSet((1..(m + n)) \X (1..k))
  <2>1. IsFiniteSet(1..m) /\ IsFiniteSet(1..n) /\ IsFiniteSet(1..k) /\ IsFiniteSet(1..(m + n))
    BY FS_Interval
  <2> QED
    BY <2>1, FS_Product, Zenon
<1>2. IsFiniteSet(A) /\ IsFiniteSet(B) /\ IsFiniteSet(C)
  BY <1>1, FS_Subset, Zenon
<1>3. D \in SUBSET C
  OBVIOUS
<1>4. IsFiniteSet(D)
  BY <1>2, <1>3, FS_Subset, Zenon
<1>5. C = A \cup D
  <2>1. ASSUME NEW p \in C PROVE p \in A \cup D
    <3>1. PICK i \in 1..(m + n), j \in 1..k : p = <<i, j>>
      OBVIOUS
    <3>2. CASE i <= m
      <4>1. i \in 1..m
        BY <3>2
      <4> QED
        BY <4>1, <3>1
    <3>3. CASE ~(i <= m)
      BY <3>1, <3>3
    <3> QED
      BY <3>2, <3>3
  <2>2. ASSUME NEW p \in A PROVE p \in C
    <3>1. PICK i \in 1..m, j \in 1..k : p = <<i, j>>
      OBVIOUS
    <3> QED
      BY <3>1
  <2> QED
    BY <2>1, <2>2, <1>3
<1>6. A \cap D = {}
  <2>1. ASSUME NEW p \in A PROVE ~(p[1] > m)
    OBVIOUS
  <2> QED
    BY <2>1, Zenon
<1>7. f \in Bijection(B, D)
  <2>1. ASSUME NEW p \in B PROVE f[p] \in D
    <3>1. PICK i \in 1..n, j \in 1..k : p = <<i, j>>
      OBVIOUS
    <3>2. <<m + i, j>> \in C
      BY <3>1
    <3> QED
      BY <3>1, <3>2
  <2>2. f \in [B -> D]
    BY <2>1
  <2>3. ASSUME NEW p \in B, NEW q \in B, f[p] = f[q] PROVE p = q
    <3>1. PICK i \in 1..n, j \in 1..k : p = <<i, j>>
      OBVIOUS
    <3>2. PICK x \in 1..n, y \in 1..k : q = <<x, y>>
      OBVIOUS
    <3>3. <<m + i, j>> = <<m + x, y>>
      BY <3>1, <3>2, <2>3
    <3> QED
      BY <3>1, <3>2, <3>3
  <2>4. ASSUME NEW d \in D PROVE \E p \in B : f[p] = d
    <3>1. PICK i \in 1..(m + n), j \in 1..k : d = <<i, j>>
      OBVIOUS
    <3>2. i - m \in 1..n /\ m + (i - m) = i
      BY <3>1
    <3>3. <<i - m, j>> \in B
      BY <3>1, <3>2
    <3>4. f[<<i - m, j>>] = d
      BY <3>1, <3>2, <3>3
    <3> QED
      BY <3>3, <3>4
  <2> HIDE DEF f
  <2> QED
    BY Zenon, <2>2, <2>3, <2>4 DEF Bijection, Injection, IsInjective, Surjection
<1>8. Cardinality(D) = Cardinality(B)
  <2>1. ExistsBijection(B, D)
    BY <1>7 DEF ExistsBijection
  <2> QED
    BY <1>2, <2>1, FS_Bijection, Zenon
<1>9. Cardinality(A \cup D) = Cardinality(A) + Cardinality(D) - Cardinality(A \cap D)
  BY <1>2, <1>4, FS_Union, Zenon
<1>10. Cardinality(A) \in Nat /\ Cardinality(D) \in Nat /\ Cardinality(A \cap D) = 0
  BY <1>2, <1>4, <1>6, FS_CardinalityType, FS_EmptySet, Zenon
<1> HIDE DEF D
<1> QED
  BY <1>5, <1>8, <1>9, <1>10

\* Bytes, and application data bytes, add up over a concatenation.
LEMMA BytesConcat ==
    ASSUME NEW a \in Seq(Record), NEW b \in Seq(Record)
    PROVE  /\ Bytes(a \o b) = Bytes(a) + Bytes(b)
           /\ PrivateBytes(a \o b) = PrivateBytes(a) + PrivateBytes(b)
<1> DEFINE c == a \o b
           P(ops) == (1..Len(ops)) \X (1..MaxLen)
           S(ops) == {ib \in P(ops) : ib[2] <= ops[ib[1]].len}
           V(ops) == {ib \in P(ops) : Private(ops[ib[1]]) /\ ib[2] <= ops[ib[1]].len}
           Sa == S(a)  Sb == S(b)  Sc == S(c)
           Va == V(a)  Vb == V(b)  Vc == V(c)
<1>1. /\ Len(a) \in Nat /\ Len(b) \in Nat /\ MaxLen \in Nat /\ Len(c) = Len(a) + Len(b)
      /\ \A i \in 1..Len(a) : c[i] = a[i]
      /\ \A i \in 1..Len(b) : c[Len(a) + i] = b[i]
  BY LimitsAssumption, ConcatProperties
<1>0. Len(a) \in Nat /\ Len(b) \in Nat /\ MaxLen \in Nat
  BY <1>1
<1> HIDE DEF c
<1>2. Cardinality(Sc) = Cardinality(Sa) + Cardinality(Sb)
  <2>1. /\ Sa \in SUBSET ((1..Len(a)) \X (1..MaxLen))
        /\ Sb \in SUBSET ((1..Len(b)) \X (1..MaxLen))
        /\ Sc \in SUBSET ((1..(Len(a) + Len(b))) \X (1..MaxLen))
    BY <1>1
  <2>2. \A i \in 1..Len(a), j \in 1..MaxLen : <<i, j>> \in Sc <=> <<i, j>> \in Sa
    BY <1>1
  <2>3. \A i \in 1..Len(b), j \in 1..MaxLen : <<Len(a) + i, j>> \in Sc <=> <<i, j>> \in Sb
    BY <1>1
  <2>4. Joins(Len(a), Len(b), MaxLen, Sa, Sb, Sc)
    BY <2>1, <2>2, <2>3, Zenon DEF Joins
  <2> HIDE DEF Sa, Sb, Sc
  <2> QED
    BY ONLY <1>0, <2>4, CountConcat, SMT
<1>3. Cardinality(Vc) = Cardinality(Va) + Cardinality(Vb)
  <2>1. /\ Va \in SUBSET ((1..Len(a)) \X (1..MaxLen))
        /\ Vb \in SUBSET ((1..Len(b)) \X (1..MaxLen))
        /\ Vc \in SUBSET ((1..(Len(a) + Len(b))) \X (1..MaxLen))
    BY <1>1
  <2>2. \A i \in 1..Len(a), j \in 1..MaxLen : <<i, j>> \in Vc <=> <<i, j>> \in Va
    BY <1>1
  <2>3. \A i \in 1..Len(b), j \in 1..MaxLen : <<Len(a) + i, j>> \in Vc <=> <<i, j>> \in Vb
    <3>1. ASSUME NEW i \in 1..Len(b), NEW j \in 1..MaxLen
          PROVE  <<Len(a) + i, j>> \in Vc <=> <<i, j>> \in Vb
      <4>1. Len(a) + i \in 1..Len(c) /\ c[Len(a) + i] = b[i]
        BY <1>1
      <4>2. <<Len(a) + i, j>> \in Vc <=> Private(c[Len(a) + i]) /\ j <= c[Len(a) + i].len
        BY Zenon, <4>1
      <4>3. <<i, j>> \in Vb <=> Private(b[i]) /\ j <= b[i].len
        BY Zenon
      <4> QED
        BY Zenon, <4>1, <4>2, <4>3
    <3> QED
      BY Zenon, <3>1
  <2>4. Joins(Len(a), Len(b), MaxLen, Va, Vb, Vc)
    BY <2>1, <2>2, <2>3, Zenon DEF Joins
  <2> HIDE DEF Va, Vb, Vc
  <2> QED
    BY ONLY <1>0, <2>4, CountConcat, SMT
<1> QED
  BY Zenon, <1>2, <1>3 DEF Bytes, PrivateBytes, c

\* A record counts with its length.
LEMMA BytesAppend ==
    ASSUME NEW q \in Seq(Record), NEW e \in Record
    PROVE  Bytes(Append(q, e)) = Bytes(q) + e.len
<1>1. <<e>> \in Seq(Record) /\ Append(q, e) = q \o <<e>>
  BY AppendIsConcat
<1>2. Bytes(<<e>>) = e.len
  <2> DEFINE T == {ib \in (1..Len(<<e>>)) \X (1..MaxLen) : ib[2] <= <<e>>[ib[1]].len}
             f == [j \in 1..e.len |-> <<1, j>>]
  <2>1. e.len \in 0..MaxLen /\ Len(<<e>>) = 1 /\ <<e>>[1] = e /\ MaxLen \in Nat
    BY LimitsAssumption DEF Record
  <2>2. T = {<<1, j>> : j \in 1..e.len}
    BY <2>1
  <2>3. f \in Bijection(1..e.len, T)
    <3>1. f \in [1..e.len -> T]
      BY <2>2
    <3>2. \A i, j \in 1..e.len : f[i] = f[j] => i = j
      OBVIOUS
    <3>3. \A t \in T : \E j \in 1..e.len : f[j] = t
      BY <2>2
    <3> HIDE DEF f, T
    <3> QED
      BY Zenon, <3>1, <3>2, <3>3 DEF Bijection, Injection, IsInjective, Surjection
  <2> HIDE DEF f, T
  <2>4. ExistsBijection(1..e.len, T) /\ e.len \in Nat
    BY <2>1, <2>3 DEF ExistsBijection
  <2>5. Cardinality(T) = e.len
    BY <2>4, FS_CountingElements, Zenon
  <2> QED
    BY <2>5 DEF Bytes, T
<1> QED
  BY Zenon, <1>1, <1>2, BytesConcat

\* A queue followed by the queue with one more record has the bytes of both and the
\* record's.
LEMMA BytesPush ==
    ASSUME NEW s \in Seq(Record), NEW q \in Seq(Record), NEW e \in Record
    PROVE  Bytes(s \o Append(q, e)) = Bytes(s \o q) + e.len
<1>1. Append(q, e) \in Seq(Record)
  BY AppendProperties
<1>2. Bytes(s) \in Nat /\ Bytes(q) \in Nat /\ e.len \in Nat
  <2>1. Bytes(s) \in Nat /\ Bytes(q) \in Nat
    BY CountsType, Zenon
  <2> QED
    BY <2>1, LimitsAssumption DEF Record
<1>3. /\ Bytes(s \o Append(q, e)) = Bytes(s) + Bytes(Append(q, e))
      /\ Bytes(s \o q) = Bytes(s) + Bytes(q)
  BY <1>1, BytesConcat, Zenon
<1>4. Bytes(Append(q, e)) = Bytes(q) + e.len
  BY BytesAppend
<1> QED
  BY <1>2, <1>3, <1>4
=============================================================================
