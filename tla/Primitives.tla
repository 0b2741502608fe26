----------------------------- MODULE Primitives -----------------------------
(***************************************************************************)
(* The two-party arithmetic under the record layer and the key exchange:    *)
(*   - GHASH from shares of the powers of its key (MpcGhash);               *)
(*   - the keystream and the tag masks of AES-GCM as material that is       *)
(*     handed out piece by piece (Aes128, Keystream, MpcAesGcm);            *)
(*   - the x-coordinate of the sum of two secret points (point_addition);   *)
(*   - the map between the memories of two virtual machines (MemoryMap).    *)
(* The fields are small: GF(2^6) for GF(2^128), a prime field for that of   *)
(* P-256.  A block is two bytes of three bits.                              *)
(***************************************************************************)
EXTENDS Integers, Sequences, SequencesExt, FiniteSets, TLC

CONSTANTS
    MaxRecord,      \* bytes of the longest record (2^14)
    Prime,          \* the field of the curve
    CurveB          \* the curve y^2 = x^3 - 3x + CurveB

BlockLen == 2

\* Enough powers of H for the longest record, one block of additional data and
\* the block of the lengths (1026).
MAX_POWER == (MaxRecord + BlockLen - 1) \div BlockLen + 2

ASSUME PrimitiveConstants ==
    /\ MaxRecord \in 1..7                   \* a length fits in a byte
    /\ Prime \in {5, 7, 11, 13, 17} /\ CurveB \in 1..Prime - 1

DivCeil(n, k) == (n + k - 1) \div k

-----------------------------------------------------------------------------
(* The binary field.  An element is the set of the exponents of its terms.  *)

Element == SUBSET (0..5)
Xor(a, b) == (a \ b) \cup (b \ a)

\* x^n modulo x^6 + x + 1
XPower ==
    <<{0}, {1}, {2}, {3}, {4}, {5}, {0, 1}, {1, 2}, {2, 3}, {3, 4}, {4, 5}>>

Mul(a, b) ==
    {k \in 0..5 : Cardinality({p \in a \X b : k \in XPower[p[1] + p[2] + 1]}) % 2 = 1}

Inverse2(a) == CHOOSE b \in Element : Mul(a, b) = {0}

\* The powers m, m^2, ..., m^n.
Powers(m, n) ==
    LET pow[i \in 1..n] == IF i = 1 THEN m ELSE Mul(pow[i - 1], m) IN pow

\* GHASH reflects the bits of its blocks and of its key.
Reflect(e) == {5 - i : i \in e}
BitsOf(block) == block[2] \cup {i + 3 : i \in block[1]}
ToField(block) == Reflect(BitsOf(block))

-----------------------------------------------------------------------------
(* Shares *)

\* OneTimePadShared: a value masked by both parties is decoded to the
\* follower, who takes its own mask off again.
OneTimePadShared(value, otpLeader, otpFollower) ==
    LET decoded == Xor(Xor(value, otpLeader), otpFollower)
    IN  [leader |-> otpLeader, follower |-> Xor(decoded, otpFollower)]

\* The conversions of mpz: any shares of the same value in the other form.
A2M(s, r) == [leader |-> r, follower |-> Mul(Xor(s.leader, s.follower), Inverse2(r))]
M2A(s, r) == [leader |-> r, follower |-> Xor(Mul(s.leader, s.follower), r)]

-----------------------------------------------------------------------------
(* GHASH *)

\* Counting from the second power.
OddPowersFromTwo(m) ==
    LET all == Powers(m, MAX_POWER)
    IN  [i \in 1..(MAX_POWER - 1) \div 2 |-> all[2 * i]]

\* What is converted to additive shares: the odd powers from the third.
OddPowers(m) ==
    LET all == Powers(m, MAX_POWER)
    IN  [i \in 1..(MAX_POWER - 1) \div 2 |-> all[2 * i + 1]]

\* compute_shares: even powers by squaring, odd powers from the conversion.
ComputeShares(key, odd) ==
    LET shares[i \in 1..MAX_POWER] ==
            IF i = 1 THEN key
            ELSE IF i % 2 = 0 THEN Mul(shares[i \div 2], shares[i \div 2])
            ELSE odd[(i - 1) \div 2]
    IN  shares

\* MpcGhash::set_key: once, of the length of a block.
GhashSetKey(state, key) ==
    IF Len(key) # BlockLen THEN state
    ELSE IF state.stage # "Init" THEN [state EXCEPT !.stage = "Error"]
    ELSE [stage |-> "SetKey", shares |-> <<ToField(key)>>]

\* MpcGhash::setup of both parties.
GhashSetup(key, mask, oddMask) ==
    LET mult == A2M(key, mask)
        odd == [p \in {"leader", "follower"} |-> OddPowers(mult[p])]
        additive == [i \in 1..Len(odd.leader) |->
                        M2A([leader |-> odd.leader[i], follower |-> odd.follower[i]], oddMask)]
    IN  [p \in {"leader", "follower"} |->
            ComputeShares(key[p], [i \in 1..Len(additive) |-> additive[i][p]])]

Pad(bytes) ==
    bytes \o [i \in 1..BlockLen * DivCeil(Len(bytes), BlockLen) - Len(bytes) |-> {}]

LengthByte(n) == {i \in 0..2 : (n \div 2^i) % 2 = 1}

\* build_ghash_data: both texts padded to blocks, then their lengths.
BuildGhashData(aad, ciphertext) ==
    Pad(aad) \o Pad(ciphertext) \o <<LengthByte(Len(aad)), LengthByte(Len(ciphertext))>>

BlocksOf(data) ==
    [i \in 1..DivCeil(Len(data), BlockLen) |->
        SubSeq(Pad(data), BlockLen * (i - 1) + 1, BlockLen * i)]

\* MpcGhash::compute: the last block meets the first power.  `ok` is FALSE when
\* there are more blocks than powers.
GhashCompute(shares, data) ==
    LET blocks == BlocksOf(data)
        offset == Len(shares) - Len(blocks)
        term(i) == Mul(ToField(blocks[i]), Reverse(shares)[offset + i])
    IN  IF Len(blocks) > MAX_POWER THEN [ok |-> FALSE, tag |-> {}]
        ELSE [ok |-> TRUE,
              tag |-> Reflect(FoldLeft(LAMBDA acc, i : Xor(acc, term(i)), {},
                                       [i \in 1..Len(blocks) |-> i]))]

\* The share of a tag: the share of the mask and the share of the hash.
TagShare(j0, shares, aad, ciphertext) ==
    LET h == GhashCompute(shares, BuildGhashData(aad, ciphertext))
    IN  [ok |-> h.ok, tag |-> Xor(j0, h.tag)]

\* VerifyTags::run at the leader: nothing to check, or as many shares from the
\* follower as its own, every sum being the tag that came with the record.
VerifyTags(own, peer, tags) ==
    own # <<>> =>
        /\ Len(peer) = Len(own)
        /\ tags = [i \in 1..Len(own) |-> Xor(own[i], peer[i])]

\* GHASH as the standard defines it.
GhashReference(h, aad, ciphertext) ==
    LET blocks == BlocksOf(BuildGhashData(aad, ciphertext))
    IN  Reflect(FoldLeft(LAMBDA y, b : Mul(Xor(y, ToField(b)), h), {}, blocks))

-----------------------------------------------------------------------------
(* Keystream.  The material is cells that exist once; what a record takes   *)
(* is recorded as uses of cells with the nonce and counter assigned to them.*)

START_CTR == 2

\* Aes128: whether key and iv are set, and the key schedules computed in the vm.
NewAes == [key |-> FALSE, iv |-> FALSE, schedules |-> 0]
SetAesKey(aes) == [aes EXCEPT !.key = TRUE]
SetAesIv(aes) == [aes EXCEPT !.iv = TRUE]

\* The key schedule is computed with the first block and kept.
WithSchedule(aes) == IF aes.schedules = 0 THEN [aes EXCEPT !.schedules = 1] ELSE aes

\* Aes128::alloc_block, alloc_ctr_block and alloc_keystream: <<>> is an error.
AllocBlock(aes) == IF aes.key THEN <<WithSchedule(aes)>> ELSE <<>>
AllocCtrBlock(aes) == IF aes.key /\ aes.iv THEN <<WithSchedule(aes)>> ELSE <<>>
AllocKeystream(aes, len) ==
    IF aes.key /\ aes.iv
    THEN <<[aes    |-> IF len = 0 THEN aes ELSE WithSchedule(aes),
            blocks |-> [i \in 1..DivCeil(len, BlockLen) |-> i]]>>
    ELSE <<>>

\* MpcAesGcm::new
NewAead(aes) == [stage |-> "Init", aes |-> aes, input |-> <<>>, blocks |-> <<>>, j0s |-> <<>>]

\* MpcAesGcm::alloc: the block of the GHASH key, a mask for the tag of each
\* record, the input and the keystream for `len` bytes rounded up to blocks.
\* An error anywhere leaves the state that was taken out.
AllocAead(aead, records, len) ==
    LET failed == [aead EXCEPT !.stage = "Error"]
        padded == BlockLen * DivCeil(len, BlockLen)
    IN  IF aead.stage # "Init" \/ AllocBlock(aead.aes) = <<>> THEN failed
        ELSE LET key == AllocBlock(aead.aes)[1]
             IN  IF (records > 0 /\ AllocCtrBlock(key) = <<>>) \/ AllocKeystream(key, padded) = <<>>
                 THEN [failed EXCEPT !.aes = key]
                 ELSE [stage  |-> "Setup",
                       aes    |-> AllocKeystream(key, padded)[1].aes,
                       input  |-> [i \in 1..padded |-> i],
                       blocks |-> AllocKeystream(key, padded)[1].blocks,
                       j0s    |-> [i \in 1..records |-> i]]

\* MpcAesGcm::setup
SetupAead(aead) == [aead EXCEPT !.stage = IF @ = "Setup" THEN "Ready" ELSE "Error"]

DropLast(s, n) == SubSeq(s, 1, Len(s) - n)
TakeLast(s, n) == SubSeq(s, Len(s) - n + 1, Len(s))

\* Keystream::consume, which forgets to take the blocks away.
ConsumeKept(blocks, len) ==
    LET n == DivCeil(len, BlockLen)
    IN  IF n > Len(blocks) THEN <<>> ELSE <<[rest |-> blocks, taken |-> TakeLast(blocks, n)]>>

\* Keystream::consume: blocks from the end, or an error.
Consume(blocks, len) ==
    LET n == DivCeil(len, BlockLen)
    IN  IF n > Len(blocks) THEN <<>>
        ELSE <<[rest |-> DropLast(blocks, n), taken |-> TakeLast(blocks, n)]>>

\* Keystream::apply and to_vector: what they ask of the material.
CanApply(blocks, inputLen) == inputLen = BlockLen * Len(blocks) /\ blocks # <<>>
CanToVector(blocks, len) == len > 0 /\ blocks # <<>> /\ DivCeil(len, BlockLen) = Len(blocks)

\* Keystream::assign, with the counter starting at START_CTR.
Assign(blocks, nonce) ==
    [i \in 1..Len(blocks) |->
        [kind |-> "keystream", cell |-> blocks[i], nonce |-> nonce, ctr |-> START_CTR + i - 1]]

\* What an operation leaves of the material, what it used of it and the input
\* and output bytes it handed out.
Outcome(aead, uses, input) == [aead |-> aead, uses |-> uses, input |-> input]
Nothing(aead) == Outcome(aead, <<>>, <<>>)

\* MpcAesGcm::apply_keystream: the input is split off before the keystream is
\* consumed, and is gone when that fails.
ApplyKeystream(aead, nonce, len) ==
    LET padded == BlockLen * DivCeil(len, BlockLen)
        cut == [aead EXCEPT !.input = DropLast(@, padded)]
        ks == Consume(aead.blocks, padded)
    IN  IF aead.stage # "Ready" \/ padded > Len(aead.input) THEN Nothing(aead)
        ELSE IF ks = <<>> THEN Nothing(cut)
        ELSE LET left == [cut EXCEPT !.blocks = ks[1].rest]
             IN  IF ~CanApply(ks[1].taken, padded) THEN Nothing(left)
                 ELSE Outcome(left, Assign(ks[1].taken, nonce),
                              SubSeq(TakeLast(aead.input, padded), 1, len))

\* MpcAesGcm::take_keystream: the input is measured and left alone.
TakeKeystream(aead, nonce, len) ==
    LET ks == Consume(aead.blocks, len)
    IN  IF \/ aead.stage # "Ready"
           \/ BlockLen * DivCeil(len, BlockLen) > Len(aead.input)
           \/ ks = <<>>
        THEN Nothing(aead)
        ELSE LET left == [aead EXCEPT !.blocks = ks[1].rest]
             IN  IF CanToVector(ks[1].taken, len)
                 THEN Outcome(left, Assign(ks[1].taken, nonce), <<>>) ELSE Nothing(left)

\* compute_tags and verify_tags of one record: the last mask, to which
\* assign_j0 gives the counter 1.
AssignJ0(cell, nonce) == [kind |-> "j0", cell |-> cell, nonce |-> nonce, ctr |-> 1]

ComputeTag(aead, nonce) ==
    IF aead.stage # "Ready" \/ aead.j0s = <<>> THEN Nothing(aead)
    ELSE Outcome([aead EXCEPT !.j0s = Front(@)], <<AssignJ0(Last(aead.j0s), nonce)>>, <<>>)

-----------------------------------------------------------------------------
(* The x-coordinate of the sum of two points *)

InverseP(a) == CHOOSE b \in 1..Prime - 1 : (a * b) % Prime = 1

Points ==
    {p \in (0..Prime - 1) \X (0..Prime - 1) :
        (p[2] * p[2]) % Prime = (p[1] * p[1] * p[1] - 3 * p[1] + CurveB) % Prime}

\* The conversions over the prime field.
A2MPrime(a, b, r) == [leader |-> r, follower |-> ((a + b) * InverseP(r)) % Prime]
M2APrime(a, b, r) == [leader |-> r, follower |-> (a * b - r) % Prime]

\* derive_x_coord_share without the follower's negation of the x-coordinate.
DeriveXCoordSharesSameSign(p, q, ry, rx, rc) ==
    LET a == A2MPrime(p[2], -q[2], ry)
        b == A2MPrime(p[1], q[1], rx)
        c(i) == LET e == a[i] * InverseP(b[i]) IN (e * e) % Prime
        d == M2APrime(c("leader"), c("follower"), rc)
    IN  [leader |-> (d.leader - p[1]) % Prime, follower |-> (d.follower - q[1]) % Prime]

\* derive_x_coord_share of both parties: the slope of the line through the
\* points, shared as a quotient, squared, and both x-coordinates taken off.
DeriveXCoordShares(p, q, ry, rx, rc) ==
    LET a == A2MPrime(p[2], -q[2], ry)
        b == A2MPrime(p[1], -q[1], rx)
        c(i) == LET e == a[i] * InverseP(b[i]) IN (e * e) % Prime
        d == M2APrime(c("leader"), c("follower"), rc)
    IN  [leader |-> (d.leader - p[1]) % Prime, follower |-> (d.follower - q[1]) % Prime]

\* The line through two points meets the curve in a third, which is one of the
\* two when the line is its tangent.
OnLine(p, q, r) ==
    ((p[2] - q[2]) * (r[1] - p[1]) - (r[2] - p[2]) * (p[1] - q[1])) % Prime = 0

Tangent(p, q, x) ==
    LET t == IF p[1] = x THEN p ELSE q
    IN  (2 * t[2] * (p[2] - q[2]) - (3 * t[1] * t[1] - 3) * (p[1] - q[1])) % Prime = 0

-----------------------------------------------------------------------------
(* MemoryMap *)

\* MemoryMap::insert: of the same length, in the order of allocation.
CanInsert(map, mpc, zk) ==
    /\ mpc[2] - mpc[1] = zk[2] - zk[1]
    /\ map # <<>> => Last(map).mpc[2] <= mpc[1]

\* The search by the start of the slice: an exact hit, or the entry before the
\* place it would be inserted at; 0 when there is none.
PositionOfInsertion(map, start) ==
    IF \E i \in 1..Len(map) : map[i].mpc[1] = start
    THEN CHOOSE i \in 1..Len(map) : map[i].mpc[1] = start
    ELSE IF map = <<>> \/ Head(map).mpc[1] > start THEN 0
    ELSE LET after == Cardinality({i \in 1..Len(map) : map[i].mpc[1] < start}) + 1
         IN  IF after > Len(map) THEN Len(map) ELSE after

Position(map, start) == Cardinality({i \in 1..Len(map) : map[i].mpc[1] <= start})

\* MemoryMap::try_get: the slice inside its entry, moved to the other memory.
TryGet(map, slice) ==
    LET pos == Position(map, slice[1])
    IN  IF pos = 0 THEN <<>>
        ELSE LET found == map[pos]
                 start == found.zk[1] + slice[1] - found.mpc[1]
             IN  IF found.mpc[1] <= slice[1] /\ slice[2] <= found.mpc[2]
                 THEN <<<<start, start + slice[2] - slice[1]>>>> ELSE <<>>

=============================================================================
