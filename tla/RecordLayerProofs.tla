------------------------- MODULE RecordLayerProofs -------------------------
(***************************************************************************)
(* What RecordLayer's runs check on a small instance, proved for every     *)
(* value of the limits, every record length and both roles.                *)
(***************************************************************************)
EXTENDS RecordLayer, RecordLayerOpsProofs

-----------------------------------------------------------------------------
(* The record layer's numbers. *)

\* Pushing a record with the next number keeps a transcript and its queue
\* numbered.
LEMMA PushKeepsNumbered ==
    ASSUME NEW s \in Seq(Record), NEW q \in Seq(Record), NEW n \in Nat,
           NEW e \in Record, e.seq = n, Numbered(s \o q, n)
    PROVE  Numbered(s \o Append(q, e), n + 1)
<1>1. s \o Append(q, e) \in Seq(Record) /\ s \o q \in Seq(Record)
  OBVIOUS
<1>2. Len(s \o Append(q, e)) = n + 1 /\ Len(s) + Len(q) = n
  BY DEF Numbered
<1>3. ASSUME NEW i \in 1..(n + 1)
      PROVE  (s \o Append(q, e))[i].seq = i - 1
  <2>1. CASE i <= n
    <3>1. (s \o Append(q, e))[i] = (s \o q)[i]
      BY <1>2, <2>1
    <3> QED
      BY <3>1, <2>1 DEF Numbered
  <2>2. CASE i = n + 1
    <3>1. (s \o Append(q, e))[i] = e
      BY <1>2, <2>2
    <3> QED
      BY <3>1, <2>2
  <2>3. i <= n \/ i = n + 1
    OBVIOUS
  <2> QED
    BY <2>1, <2>2, <2>3, Zenon
<1> QED
  BY <1>2, <1>3 DEF Numbered

-----------------------------------------------------------------------------
(* The inductive invariant. *)

\* The role is fixed, and recv_online keeps within its limit in every state.
OnlineBound ==
    /\ rl.role = Role
    /\ rl.recv_online <= MaxRecvOnline

\* The strengthening that makes the safety properties inductive.
IInv ==
    /\ TypeOK
    /\ OnlineBound
    /\ NoRecordLostOrReordered
    /\ OutputIsTranscript
    /\ OtpCoversOnlineLimit
    /\ LeaderAuthenticated

\* The initial record layer satisfies the invariant.
LEMMA InitIInv == Init => IInv
<1> SUFFICES ASSUME Init PROVE IInv
  OBVIOUS
<1> USE LimitsAssumption, RecordLayerAssumption DEF Init, NewRecordLayer
<1>1. TypeOK
  <2>1. <<>> \in Seq(Record)
    BY EmptySeq
  <2> QED
    BY Zenon, <2>1 DEF TypeOK, RecordLayerType
<1>2. OnlineBound
  BY DEF OnlineBound
<1>3. NoRecordLostOrReordered
  BY DEF NoRecordLostOrReordered, Numbered
<1>4. OutputIsTranscript
  BY DEF OutputIsTranscript
<1>5. OtpCoversOnlineLimit
  BY DEF OtpCoversOnlineLimit
<1>6. LeaderAuthenticated
  BY DEF LeaderAuthenticated
<1> QED
  BY <1>1, <1>2, <1>3, <1>4, <1>5, <1>6 DEF IInv

\* alloc starts from a record layer that has processed nothing.
LEMMA AllocIInv == IInv /\ Alloc => IInv'
<1> SUFFICES ASSUME IInv, Alloc PROVE IInv'
  OBVIOUS
<1> USE LimitsAssumption, RecordLayerAssumption DEF IInv, Alloc, Ok, alloc
<1>1. AllocBlocks(MaxSent) \in Nat /\ AllocBlocks(MaxRecvOnline) \in Nat
  BY DEF AllocBlocks
<1>2. TypeOK'
  BY Zenon, <1>1 DEF TypeOK, RecordLayerType
<1>3. OnlineBound'
  BY DEF OnlineBound, TypeOK, RecordLayerType
<1>4. NoRecordLostOrReordered'
  BY DEF NoRecordLostOrReordered, TypeOK, RecordLayerType
<1>5. OutputIsTranscript'
  BY Zenon DEF OutputIsTranscript, TypeOK, RecordLayerType
<1>6. OtpCoversOnlineLimit'
  <2>1. /\ rl'.role = rl.role
        /\ rl'.recv_online = rl.recv_online /\ rl.recv_online \in Nat
        /\ rl.role = "Leader" => rl'.recv_otp = MaxRecvOnline
    BY DEF TypeOK, RecordLayerType
  <2> QED
    BY ONLY <2>1, LimitsAssumption DEF OtpCoversOnlineLimit
<1>7. LeaderAuthenticated'
  BY DEF LeaderAuthenticated, TypeOK, RecordLayerType
<1> QED
  BY <1>2, <1>3, <1>4, <1>5, <1>6, <1>7

\* setup, start_traffic and a refused push leave the buffers, the transcript
\* and the counters alone.
LEMMA QuietIInv ==
    ASSUME IInv, failed' \in BOOLEAN, ready' \in BOOLEAN, failed => failed',
           rl' = rl \/ rl' = start_traffic(rl), UNCHANGED <<wire, delivered>>
    PROVE  IInv'
<1> USE DEF IInv, start_traffic
<1>1. TypeOK'
  BY Zenon DEF TypeOK, RecordLayerType
<1>2. OnlineBound'
  BY Zenon DEF OnlineBound, TypeOK, RecordLayerType
<1>3. NoRecordLostOrReordered'
  BY Zenon DEF NoRecordLostOrReordered, TypeOK, RecordLayerType
<1>4. OutputIsTranscript'
  BY Zenon DEF OutputIsTranscript, TypeOK, RecordLayerType
<1>5. OtpCoversOnlineLimit'
  BY Zenon DEF OtpCoversOnlineLimit, TypeOK, RecordLayerType
<1>6. LeaderAuthenticated'
  BY Zenon DEF LeaderAuthenticated, TypeOK, RecordLayerType
<1> QED
  BY <1>1, <1>2, <1>3, <1>4, <1>5, <1>6
\* What push_encrypt writes and what it leaves.
LEMMA PushEncryptFields ==
    ASSUME NEW r \in RecordLayerType, NEW typ \in Types, NEW len \in Lens,
           NEW q, q = push_encrypt(r, typ, len)
    PROVE  /\ q \in RecordLayerType
           /\ q.write_seq = r.write_seq + 1
           /\ q.encrypt_buffer = Append(r.encrypt_buffer,
                    [seq |-> r.write_seq, typ |-> typ, len |-> len, ok |-> TRUE])
           /\ q.role = r.role /\ q.state = r.state
           /\ q.recv_online = r.recv_online /\ q.recv_otp = r.recv_otp
           /\ q.read_seq = r.read_seq /\ q.decrypt_buffer = r.decrypt_buffer
           /\ q.sent_records = r.sent_records /\ q.recv_records = r.recv_records
           /\ q.encrypted_buffer = r.encrypted_buffer
           /\ q.decrypted_buffer = r.decrypted_buffer
<1> DEFINE e == [seq |-> r.write_seq, typ |-> typ, len |-> len, ok |-> TRUE]
<1>1. /\ e \in Record
      /\ len \in Nat /\ r.write_seq \in Nat /\ r.sent \in Nat
      /\ r.encrypt_buffer \in Seq(Record)
  BY RecordLayerAssumption, LimitsAssumption DEF RecordLayerType, Record
<1>2. Append(r.encrypt_buffer, e) \in Seq(Record) /\ r.write_seq + 1 \in Nat /\ r.sent + len \in Nat
  BY <1>1
<1>3. PICK b \in Seq(Record), n \in Nat, c \in Nat :
        b = Append(r.encrypt_buffer, e) /\ n = r.write_seq + 1 /\ c = r.sent + len
  BY <1>2, Zenon
<1>4. q = [r EXCEPT !.write_seq = n, !.sent = c, !.encrypt_buffer = b]
  BY <1>3, Zenon DEF push_encrypt
<1>5. q \in RecordLayerType
  BY Zenon, <1>4 DEF RecordLayerType
<1> QED
  BY <1>5 DEF RecordLayerType, push_encrypt

\* push_encrypt queues a record under the next number.
LEMMA PushEncryptIInv ==
    ASSUME IInv, NEW typ \in Types, NEW len \in Lens,
           Ok(push_encrypt(rl, typ, len))
    PROVE  IInv'
<1> DEFINE e == [seq |-> rl.write_seq, typ |-> typ, len |-> len, ok |-> TRUE]
<1>1. e \in Record /\ e.seq = rl.write_seq /\ rl \in RecordLayerType
  BY RecordLayerAssumption, LimitsAssumption DEF IInv, TypeOK, RecordLayerType, Record
<1>2. rl.sent_records \in Seq(Record) /\ rl.encrypt_buffer \in Seq(Record) /\ rl.write_seq \in Nat
  BY <1>1 DEF RecordLayerType
<1>3. rl' = push_encrypt(rl, typ, len) /\ UNCHANGED <<ready, failed, wire, delivered>>
  BY DEF Ok
<1>4. /\ rl' \in RecordLayerType
      /\ rl'.role = rl.role /\ rl'.state = rl.state
      /\ rl'.recv_online = rl.recv_online /\ rl'.recv_otp = rl.recv_otp
      /\ rl'.write_seq = rl.write_seq + 1
      /\ rl'.encrypt_buffer = Append(rl.encrypt_buffer, e)
      /\ rl'.sent_records = rl.sent_records /\ rl'.recv_records = rl.recv_records
      /\ rl'.decrypt_buffer = rl.decrypt_buffer /\ rl'.read_seq = rl.read_seq
      /\ rl'.encrypted_buffer = rl.encrypted_buffer
      /\ rl'.decrypted_buffer = rl.decrypted_buffer
  BY <1>1, <1>3, PushEncryptFields
<1>5. TypeOK'
  BY <1>3, <1>4 DEF IInv, TypeOK
<1>6. NoRecordLostOrReordered'
  <2>1. ~failed => Numbered(rl.sent_records \o Append(rl.encrypt_buffer, e), rl.write_seq + 1)
    BY <1>1, <1>2, PushKeepsNumbered DEF IInv, NoRecordLostOrReordered
  <2> QED
    BY <2>1, <1>3, <1>4 DEF IInv, NoRecordLostOrReordered
<1>7. OnlineBound' /\ OtpCoversOnlineLimit'
  BY <1>4 DEF IInv, OnlineBound, OtpCoversOnlineLimit
<1>8. OutputIsTranscript' /\ LeaderAuthenticated'
  BY <1>3, <1>4 DEF IInv, OutputIsTranscript, LeaderAuthenticated
<1> QED
  BY <1>5, <1>6, <1>7, <1>8 DEF IInv

\* What push_decrypt writes and what it leaves.
LEMMA PushDecryptFields ==
    ASSUME NEW r \in RecordLayerType, NEW typ \in Types, NEW len \in Lens, NEW ok \in BOOLEAN,
           NEW q, q = push_decrypt(r, typ, len, ok)
    PROVE  /\ q \in RecordLayerType
           /\ q.read_seq = r.read_seq + 1
           /\ q.decrypt_buffer = Append(r.decrypt_buffer,
                    [seq |-> r.read_seq, typ |-> typ, len |-> len, ok |-> ok])
           /\ q.role = r.role /\ q.state = r.state
           /\ q.recv_online = r.recv_online /\ q.recv_otp = r.recv_otp
           /\ q.write_seq = r.write_seq /\ q.encrypt_buffer = r.encrypt_buffer
           /\ q.sent_records = r.sent_records /\ q.recv_records = r.recv_records
           /\ q.encrypted_buffer = r.encrypted_buffer
           /\ q.decrypted_buffer = r.decrypted_buffer
<1> DEFINE e == [seq |-> r.read_seq, typ |-> typ, len |-> len, ok |-> ok]
<1>1. /\ e \in Record
      /\ len \in Nat /\ r.read_seq \in Nat /\ r.recv \in Nat
      /\ r.decrypt_buffer \in Seq(Record)
  BY RecordLayerAssumption, LimitsAssumption DEF RecordLayerType, Record
<1>2. Append(r.decrypt_buffer, e) \in Seq(Record) /\ r.read_seq + 1 \in Nat /\ r.recv + len \in Nat
  BY <1>1
<1>3. PICK b \in Seq(Record), n \in Nat, c \in Nat :
        b = Append(r.decrypt_buffer, e) /\ n = r.read_seq + 1 /\ c = r.recv + len
  BY <1>2, Zenon
<1>4. q = [r EXCEPT !.read_seq = n, !.recv = c, !.decrypt_buffer = b]
  BY <1>3, Zenon DEF push_decrypt
<1>5. q \in RecordLayerType
  BY Zenon, <1>4 DEF RecordLayerType
<1> QED
  BY <1>5 DEF RecordLayerType, push_decrypt

\* push_decrypt queues a record under the next number.
LEMMA PushDecryptIInv ==
    ASSUME IInv, NEW typ \in Types, NEW len \in Lens, NEW ok \in BOOLEAN,
           Ok(push_decrypt(rl, typ, len, ok))
    PROVE  IInv'
<1> DEFINE e == [seq |-> rl.read_seq, typ |-> typ, len |-> len, ok |-> ok]
<1>1. e \in Record /\ e.seq = rl.read_seq /\ rl \in RecordLayerType
  BY RecordLayerAssumption, LimitsAssumption DEF IInv, TypeOK, RecordLayerType, Record
<1>2. rl.recv_records \in Seq(Record) /\ rl.decrypt_buffer \in Seq(Record) /\ rl.read_seq \in Nat
  BY <1>1 DEF RecordLayerType
<1>3. rl' = push_decrypt(rl, typ, len, ok) /\ UNCHANGED <<ready, failed, wire, delivered>>
  BY DEF Ok
<1>4. /\ rl' \in RecordLayerType
      /\ rl'.role = rl.role /\ rl'.state = rl.state
      /\ rl'.recv_online = rl.recv_online /\ rl'.recv_otp = rl.recv_otp
      /\ rl'.read_seq = rl.read_seq + 1
      /\ rl'.decrypt_buffer = Append(rl.decrypt_buffer, e)
      /\ rl'.sent_records = rl.sent_records /\ rl'.recv_records = rl.recv_records
      /\ rl'.encrypt_buffer = rl.encrypt_buffer /\ rl'.write_seq = rl.write_seq
      /\ rl'.encrypted_buffer = rl.encrypted_buffer
      /\ rl'.decrypted_buffer = rl.decrypted_buffer
  BY <1>1, <1>3, PushDecryptFields
<1>5. TypeOK'
  BY <1>3, <1>4 DEF IInv, TypeOK
<1>6. NoRecordLostOrReordered'
  <2>1. ~failed => Numbered(rl.recv_records \o Append(rl.decrypt_buffer, e), rl.read_seq + 1)
    BY <1>1, <1>2, PushKeepsNumbered DEF IInv, NoRecordLostOrReordered
  <2> QED
    BY <2>1, <1>3, <1>4 DEF IInv, NoRecordLostOrReordered
<1>7. OnlineBound' /\ OtpCoversOnlineLimit'
  BY <1>4 DEF IInv, OnlineBound, OtpCoversOnlineLimit
<1>8. OutputIsTranscript' /\ LeaderAuthenticated'
  BY <1>3, <1>4 DEF IInv, OutputIsTranscript, LeaderAuthenticated
<1> QED
  BY <1>5, <1>6, <1>7, <1>8 DEF IInv

\* next_encrypted moves the head of its buffer to the outside.
LEMMA NextEncryptedIInv == IInv /\ NextEncrypted => IInv'
<1> SUFFICES ASSUME IInv, NextEncrypted PROVE IInv'
  OBVIOUS
<1>1. /\ rl \in RecordLayerType /\ wire \in Seq(Record)
      /\ rl.encrypted_buffer \in Seq(Record) /\ rl.encrypted_buffer # <<>>
  BY DEF IInv, TypeOK, RecordLayerType, NextEncrypted, CanTakeEncrypted, CanTake
<1>2. /\ Append(wire, Head(rl.encrypted_buffer)) \in Seq(Record)
      /\ Tail(rl.encrypted_buffer) \in Seq(Record)
      /\ Append(wire, Head(rl.encrypted_buffer)) \o Tail(rl.encrypted_buffer) = wire \o rl.encrypted_buffer
  BY Zenon, <1>1, TakeHead
<1>3. /\ rl' = [rl EXCEPT !.encrypted_buffer = Tail(rl.encrypted_buffer)]
      /\ wire' = Append(wire, Head(rl.encrypted_buffer))
      /\ UNCHANGED <<ready, failed, delivered>>
  BY DEF NextEncrypted, next_encrypted
<1>4. /\ rl' \in RecordLayerType
      /\ rl'.role = rl.role /\ rl'.state = rl.state
      /\ rl'.recv_online = rl.recv_online /\ rl'.recv_otp = rl.recv_otp
      /\ rl'.write_seq = rl.write_seq /\ rl'.read_seq = rl.read_seq
      /\ rl'.sent_records = rl.sent_records /\ rl'.recv_records = rl.recv_records
      /\ rl'.encrypt_buffer = rl.encrypt_buffer /\ rl'.decrypt_buffer = rl.decrypt_buffer
      /\ rl'.encrypted_buffer = Tail(rl.encrypted_buffer) /\ rl'.decrypted_buffer = rl.decrypted_buffer
  BY Zenon, <1>1, <1>2, <1>3 DEF RecordLayerType
<1>5. TypeOK'
  BY <1>2, <1>3, <1>4 DEF IInv, TypeOK
<1>6. OutputIsTranscript'
  BY Zenon, <1>2, <1>3, <1>4 DEF IInv, OutputIsTranscript
<1>7. NoRecordLostOrReordered' /\ OnlineBound' /\ OtpCoversOnlineLimit' /\ LeaderAuthenticated'
  BY <1>3, <1>4
     DEF IInv, NoRecordLostOrReordered, OnlineBound, OtpCoversOnlineLimit, LeaderAuthenticated
<1> QED
  BY <1>5, <1>6, <1>7 DEF IInv

\* next_decrypted moves the head of its buffer to the outside.
LEMMA NextDecryptedIInv == IInv /\ NextDecrypted => IInv'
<1> SUFFICES ASSUME IInv, NextDecrypted PROVE IInv'
  OBVIOUS
<1>1. /\ rl \in RecordLayerType /\ delivered \in Seq(Record)
      /\ rl.decrypted_buffer \in Seq(Record) /\ rl.decrypted_buffer # <<>>
  BY DEF IInv, TypeOK, RecordLayerType, NextDecrypted, CanTakeDecrypted, CanTake
<1>2. /\ Append(delivered, Head(rl.decrypted_buffer)) \in Seq(Record)
      /\ Tail(rl.decrypted_buffer) \in Seq(Record)
      /\ Append(delivered, Head(rl.decrypted_buffer)) \o Tail(rl.decrypted_buffer) = delivered \o rl.decrypted_buffer
  BY Zenon, <1>1, TakeHead
<1>3. /\ rl' = [rl EXCEPT !.decrypted_buffer = Tail(rl.decrypted_buffer)]
      /\ delivered' = Append(delivered, Head(rl.decrypted_buffer))
      /\ UNCHANGED <<ready, failed, wire>>
  BY DEF NextDecrypted, next_decrypted
<1>4. /\ rl' \in RecordLayerType
      /\ rl'.role = rl.role /\ rl'.state = rl.state
      /\ rl'.recv_online = rl.recv_online /\ rl'.recv_otp = rl.recv_otp
      /\ rl'.write_seq = rl.write_seq /\ rl'.read_seq = rl.read_seq
      /\ rl'.sent_records = rl.sent_records /\ rl'.recv_records = rl.recv_records
      /\ rl'.encrypt_buffer = rl.encrypt_buffer /\ rl'.decrypt_buffer = rl.decrypt_buffer
      /\ rl'.decrypted_buffer = Tail(rl.decrypted_buffer) /\ rl'.encrypted_buffer = rl.encrypted_buffer
  BY Zenon, <1>1, <1>2, <1>3 DEF RecordLayerType
<1>5. TypeOK'
  BY <1>2, <1>3, <1>4 DEF IInv, TypeOK
<1>6. OutputIsTranscript'
  BY Zenon, <1>2, <1>3, <1>4 DEF IInv, OutputIsTranscript
<1>7. NoRecordLostOrReordered' /\ OnlineBound' /\ OtpCoversOnlineLimit' /\ LeaderAuthenticated'
  BY <1>3, <1>4
     DEF IInv, NoRecordLostOrReordered, OnlineBound, OtpCoversOnlineLimit, LeaderAuthenticated
<1> QED
  BY <1>5, <1>6, <1>7 DEF IInv
\* A flush that returns Ok had the resources its operations take.
LEMMA FlushAffordable ==
    ASSUME NEW r \in RecordLayerType, NEW dec \in BOOLEAN, CanFlush(r, dec),
           r.recv_online <= MaxRecvOnline
    PROVE  LET ops == DecryptOps(r, dec)
           IN /\ Blocks(r.encrypt_buffer) <= r.enc_keystream
              /\ Blocks(ops) <= r.dec_keystream
              /\ Len(r.encrypt_buffer) <= r.enc_j0s
              /\ Len(ops) <= r.dec_j0s
              /\ r.role = "Leader" => PrivateBytes(ops) <= r.recv_otp
              /\ dec => r.recv_online + Bytes(ops) <= MaxRecvOnline
              /\ r.role = "Leader" => \A i \in 1..Len(ops) : ops[i].ok
<1> DEFINE ops == DecryptOps(r, dec)
<1>1. CASE HasOps(r, dec)
  <2>1. dec => ops = r.decrypt_buffer
    BY DEF DecryptOps
  <2> QED
    BY <1>1, <2>1
       DEF CanFlush, WithinOnlineLimit, EncrypterServes, DecrypterServes, OtpServes, TagsVerify
<1>2. CASE ~HasOps(r, dec)
  <2>1. r.encrypt_buffer = <<>> /\ ops = <<>>
    BY <1>2 DEF HasOps
  <2>2. /\ r.enc_keystream \in Nat /\ r.dec_keystream \in Nat /\ r.recv_otp \in Nat
        /\ r.enc_j0s \in Nat /\ r.dec_j0s \in Nat /\ r.recv_online \in Nat
    BY DEF RecordLayerType
  <2>3. Len(<<>>) = 0 /\ \A i \in 1..0 : FALSE
    OBVIOUS
  <2> HIDE DEF ops
  <2>4. /\ Blocks(r.encrypt_buffer) = 0 /\ Blocks(ops) = 0 /\ Bytes(ops) = 0
        /\ PrivateBytes(ops) = 0 /\ Len(r.encrypt_buffer) = 0 /\ Len(ops) = 0
    BY <2>1, <2>3, CountsOfNothing
  <2>5. /\ Blocks(r.encrypt_buffer) <= r.enc_keystream
        /\ Blocks(ops) <= r.dec_keystream
        /\ Len(r.encrypt_buffer) <= r.enc_j0s
        /\ Len(ops) <= r.dec_j0s
        /\ PrivateBytes(ops) <= r.recv_otp
        /\ r.recv_online + Bytes(ops) <= MaxRecvOnline
        /\ \A i \in 1..Len(ops) : ops[i].ok
    BY <2>2, <2>4
  <2> QED
    BY <2>5 DEF ops
<1> QED
  BY <1>1, <1>2

\* A flush that returns Ok keeps the record layer well typed.
LEMMA FlushType ==
    ASSUME NEW r \in RecordLayerType, NEW dec \in BOOLEAN, CanFlush(r, dec),
           r.recv_online <= MaxRecvOnline
    PROVE  flush(r, dec) \in RecordLayerType
<1> DEFINE ops == DecryptOps(r, dec)
<1>1. /\ r.encrypt_buffer \in Seq(Record) /\ r.decrypt_buffer \in Seq(Record)
      /\ r.encrypted_buffer \in Seq(Record) /\ r.decrypted_buffer \in Seq(Record)
      /\ r.sent_records \in Seq(Record) /\ r.recv_records \in Seq(Record)
  BY DEF RecordLayerType
<1>2. /\ r.enc_keystream \in Nat /\ r.dec_keystream \in Nat /\ r.recv_otp \in Nat
      /\ r.enc_j0s \in Nat /\ r.dec_j0s \in Nat /\ r.recv_online \in Nat
  BY DEF RecordLayerType
<1>3. ops \in Seq(Record) /\ DeferredOps(r, dec) \in Seq(Record)
  BY <1>1, DrainSplits
<1>4. /\ Blocks(r.encrypt_buffer) \in Nat /\ Blocks(ops) \in Nat /\ Bytes(ops) \in Nat
      /\ PrivateBytes(ops) \in Nat
  BY Zenon, <1>1, <1>3, CountsType
<1> HIDE DEF ops
<1>5. /\ Blocks(r.encrypt_buffer) <= r.enc_keystream
      /\ Blocks(ops) <= r.dec_keystream
      /\ Len(r.encrypt_buffer) <= r.enc_j0s
      /\ Len(ops) <= r.dec_j0s
      /\ r.role = "Leader" => PrivateBytes(ops) <= r.recv_otp
  BY FlushAffordable DEF ops
<1>6. Len(ops) \in Nat /\ Len(r.encrypt_buffer) \in Nat
  BY <1>1, <1>3
<1>7. PICK g \in Nat, h \in Nat, i \in Nat, j \in Nat, k \in Nat, l \in Nat :
        /\ g = (IF dec THEN r.recv_online + Bytes(ops) ELSE r.recv_online)
        /\ h = r.enc_keystream - Blocks(r.encrypt_buffer)
        /\ i = r.dec_keystream - Blocks(ops)
        /\ j = r.enc_j0s - Len(r.encrypt_buffer)
        /\ k = r.dec_j0s - Len(ops)
        /\ l = (IF r.role = "Leader" THEN r.recv_otp - PrivateBytes(ops) ELSE r.recv_otp)
  <2>1. /\ (IF dec THEN r.recv_online + Bytes(ops) ELSE r.recv_online) \in Nat
    BY <1>2, <1>4
  <2>2. /\ r.enc_keystream - Blocks(r.encrypt_buffer) \in Nat
        /\ r.dec_keystream - Blocks(ops) \in Nat
    <3>1. \A m, n \in Nat : m <= n => n - m \in Nat
      OBVIOUS
    <3> QED
      BY <1>2, <1>4, <1>5, <3>1, Zenon
  <2>3. /\ r.enc_j0s - Len(r.encrypt_buffer) \in Nat
        /\ r.dec_j0s - Len(ops) \in Nat
    BY <1>2, <1>5, <1>6
  <2>4. (IF r.role = "Leader" THEN r.recv_otp - PrivateBytes(ops) ELSE r.recv_otp) \in Nat
    BY <1>2, <1>4, <1>5
  <2> QED
    BY <2>1, <2>2, <2>3, <2>4, Zenon
<1>8. PICK a \in Seq(Record), b \in Seq(Record), c \in Seq(Record), d \in Seq(Record),
           e \in Seq(Record), f \in Seq(Record) :
        /\ a = <<>> /\ b = DeferredOps(r, dec)
        /\ c = r.encrypted_buffer \o r.encrypt_buffer
        /\ d = r.sent_records \o r.encrypt_buffer
        /\ e = r.decrypted_buffer \o ops
        /\ f = r.recv_records \o ops
  <2>1. /\ <<>> \in Seq(Record)
        /\ r.encrypted_buffer \o r.encrypt_buffer \in Seq(Record)
        /\ r.sent_records \o r.encrypt_buffer \in Seq(Record)
        /\ r.decrypted_buffer \o ops \in Seq(Record)
        /\ r.recv_records \o ops \in Seq(Record)
    BY <1>1, <1>3, ConcatProperties, EmptySeq
  <2> QED
    BY <2>1, <1>3, Zenon
<1>9. flush(r, dec) =
        [r EXCEPT !.encrypt_buffer = a, !.decrypt_buffer = b, !.recv_online = g,
                  !.enc_keystream = h, !.dec_keystream = i, !.enc_j0s = j, !.dec_j0s = k,
                  !.recv_otp = l, !.encrypted_buffer = c, !.sent_records = d,
                  !.decrypted_buffer = e, !.recv_records = f]
  BY <1>7, <1>8, Zenon DEF flush, ops
<1>10. [r EXCEPT !.encrypt_buffer = a, !.decrypt_buffer = b, !.recv_online = g,
                   !.enc_keystream = h, !.dec_keystream = i, !.enc_j0s = j, !.dec_j0s = k,
                   !.recv_otp = l, !.encrypted_buffer = c, !.sent_records = d,
                   !.decrypted_buffer = e, !.recv_records = f] \in RecordLayerType
  BY Zenon DEF RecordLayerType
<1> QED
  BY <1>9, <1>10, Zenon
\* A flush that returns Ok moves queued records to the transcript in order,
\* and takes no more one-time pad than the online limit lets it.
LEMMA FlushIInv ==
    ASSUME IInv, NEW dec \in BOOLEAN, CanFlush(rl, dec), Ok(flush(rl, dec))
    PROVE  IInv'
<1> DEFINE ops == DecryptOps(rl, dec)
           rest == DeferredOps(rl, dec)
<1>1. /\ rl \in RecordLayerType /\ rl.recv_online <= MaxRecvOnline /\ rl.role = Role
      /\ wire \in Seq(Record) /\ delivered \in Seq(Record)
  BY DEF IInv, TypeOK, OnlineBound
<1>2. /\ rl.encrypt_buffer \in Seq(Record) /\ rl.decrypt_buffer \in Seq(Record)
      /\ rl.encrypted_buffer \in Seq(Record) /\ rl.decrypted_buffer \in Seq(Record)
      /\ rl.sent_records \in Seq(Record) /\ rl.recv_records \in Seq(Record)
      /\ rl.recv_online \in Nat /\ rl.recv_otp \in Nat
  BY <1>1 DEF RecordLayerType
<1>3. /\ ops \in Seq(Record) /\ rest \in Seq(Record) /\ ops \o rest = rl.decrypt_buffer
      /\ ~dec => PrivateBytes(ops) = 0
  BY Zenon, <1>2, DrainSplits
<1>4. rl' = flush(rl, dec) /\ UNCHANGED <<ready, failed, wire, delivered>>
  BY DEF Ok
<1>5. /\ rl'.encrypt_buffer = <<>> /\ rl'.decrypt_buffer = rest
      /\ rl'.role = rl.role /\ rl'.state = rl.state
      /\ rl'.write_seq = rl.write_seq /\ rl'.read_seq = rl.read_seq
      /\ rl'.recv_online = (IF dec THEN rl.recv_online + Bytes(ops) ELSE rl.recv_online)
      /\ rl'.recv_otp = (IF rl.role = "Leader" THEN rl.recv_otp - PrivateBytes(ops)
                                                ELSE rl.recv_otp)
      /\ rl'.encrypted_buffer = rl.encrypted_buffer \o rl.encrypt_buffer
      /\ rl'.sent_records = rl.sent_records \o rl.encrypt_buffer
      /\ rl'.decrypted_buffer = rl.decrypted_buffer \o ops
      /\ rl'.recv_records = rl.recv_records \o ops
  BY Zenon, <1>1, <1>4 DEF RecordLayerType, flush
<1>6. TypeOK'
  BY <1>1, <1>4, FlushType DEF IInv, TypeOK
<1>7. /\ dec => rl.recv_online + Bytes(ops) <= MaxRecvOnline
      /\ rl.role = "Leader" => \A i \in 1..Len(ops) : ops[i].ok
  BY <1>1, FlushAffordable
<1>8. Bytes(ops) \in Nat /\ PrivateBytes(ops) \in Nat /\ PrivateBytes(ops) <= Bytes(ops)
  BY <1>3, CountsType
<1> HIDE DEF ops, rest
<1>9. OnlineBound'
  BY <1>1, <1>5, <1>7 DEF OnlineBound
<1>10. OtpCoversOnlineLimit'
  <2>1. rl.role = "Leader" /\ rl.state = "Online"
          => MaxRecvOnline <= rl.recv_online + rl.recv_otp
    BY DEF IInv, OtpCoversOnlineLimit
  <2>2. CASE dec
    BY <2>1, <2>2, <1>2, <1>5, <1>8, LimitsAssumption DEF OtpCoversOnlineLimit
  <2>3. CASE ~dec
    BY <2>1, <2>3, <1>2, <1>3, <1>5, LimitsAssumption DEF OtpCoversOnlineLimit
  <2> QED
    BY <2>2, <2>3
<1>11. NoRecordLostOrReordered'
  <2>1. (rl.sent_records \o rl.encrypt_buffer) \o <<>> = rl.sent_records \o rl.encrypt_buffer
    BY <1>2, ConcatProperties, ConcatEmptySeq
  <2>2. (rl.recv_records \o ops) \o rest = rl.recv_records \o rl.decrypt_buffer
    <3>1. rl.recv_records \in Seq(Record) /\ ops \in Seq(Record) /\ rest \in Seq(Record)
      BY <1>2, <1>3
    <3>2. (rl.recv_records \o ops) \o rest = rl.recv_records \o (ops \o rest)
      BY ONLY <3>1, ConcatAssoc, Zenon
    <3> QED
      BY <3>2, <1>3
  <2> QED
    BY Zenon, <2>1, <2>2, <1>4, <1>5 DEF IInv, NoRecordLostOrReordered
<1>12. OutputIsTranscript'
  <2>1. wire \o (rl.encrypted_buffer \o rl.encrypt_buffer)
          = (wire \o rl.encrypted_buffer) \o rl.encrypt_buffer
    <3>1. /\ wire \in Seq(Record) /\ rl.encrypted_buffer \in Seq(Record)
          /\ rl.encrypt_buffer \in Seq(Record)
      BY <1>1, <1>2
    <3> QED
      BY ONLY <3>1, ConcatAssoc, Zenon
  <2>2. delivered \o (rl.decrypted_buffer \o ops) = (delivered \o rl.decrypted_buffer) \o ops
    <3>1. delivered \in Seq(Record) /\ rl.decrypted_buffer \in Seq(Record) /\ ops \in Seq(Record)
      BY <1>1, <1>2, <1>3
    <3> QED
      BY ONLY <3>1, ConcatAssoc, Zenon
  <2> QED
    BY Zenon, <2>1, <2>2, <1>4, <1>5 DEF IInv, OutputIsTranscript
<1>13. LeaderAuthenticated'
  <2>1. SUFFICES ASSUME rl.role = "Leader", NEW i \in 1..Len(rl.recv_records \o ops),
                        Private((rl.recv_records \o ops)[i])
                 PROVE  (rl.recv_records \o ops)[i].ok
    BY <1>5 DEF LeaderAuthenticated
  <2>2. CASE i <= Len(rl.recv_records)
    <3>1. i \in 1..Len(rl.recv_records) /\ (rl.recv_records \o ops)[i] = rl.recv_records[i]
      BY <2>2, <1>2, <1>3
    <3> QED
      BY <3>1, <2>1 DEF IInv, LeaderAuthenticated
  <2>3. CASE i > Len(rl.recv_records)
    <3>1. /\ i - Len(rl.recv_records) \in 1..Len(ops)
          /\ (rl.recv_records \o ops)[i] = ops[i - Len(rl.recv_records)]
      BY <2>3, <1>2, <1>3
    <3> QED
      BY <3>1, <2>1, <1>7
  <2>4. i <= Len(rl.recv_records) \/ i > Len(rl.recv_records)
    BY <1>2, <1>3
  <2> QED
    BY <2>2, <2>3, <2>4, Zenon
<1> QED
  BY <1>6, <1>9, <1>10, <1>11, <1>12, <1>13 DEF IInv

\* A flush or a commit that returns Err leaves the transcript and the outputs
\* alone; the queues are no longer accounted for, and no call follows.
LEMMA ErrIInv ==
    ASSUME IInv, NEW dec \in BOOLEAN,
           Err(FlushErr(rl, dec)) \/ Err(CommitErr(rl))
    PROVE  IInv'
<1>1. rl \in RecordLayerType /\ rl.decrypt_buffer \in Seq(Record)
  BY DEF IInv, TypeOK, RecordLayerType
<1>2. DeferredOps(rl, dec) \in Seq(Record) /\ <<>> \in Seq(Record)
  BY <1>1, DrainSplits, EmptySeq
<1>3. failed' = TRUE /\ UNCHANGED <<ready, wire, delivered>>
  BY DEF Err
<1>4. PICK st \in {rl.state, "Error"}, a \in Seq(Record), b \in Seq(Record) :
        rl' = [rl EXCEPT !.state = st, !.encrypt_buffer = a, !.decrypt_buffer = b]
  <2>1. CASE Err(FlushErr(rl, dec))
    <3>1. rl' = [rl EXCEPT !.encrypt_buffer = <<>>, !.decrypt_buffer = DeferredOps(rl, dec)]
      BY <2>1 DEF Err, FlushErr
    <3>2. PICK b \in Seq(Record) : b = DeferredOps(rl, dec)
      BY <1>2
    <3>3. rl' = [rl EXCEPT !.state = rl.state, !.encrypt_buffer = <<>>, !.decrypt_buffer = b]
      BY Zenon, <3>1, <3>2, <1>1 DEF RecordLayerType
    <3> QED
      BY Zenon, <3>3, <1>2
  <2>2. CASE Err(CommitErr(rl))
    <3>1. PICK b \in Seq(Record) : b = IF rl.encrypt_buffer = <<>> THEN <<>> ELSE rl.decrypt_buffer
      BY Zenon, <1>1, <1>2
    <3>2. rl' = [rl EXCEPT !.state = "Error", !.decrypt_buffer = b]
      BY <2>2, <3>1 DEF Err, CommitErr
    <3>3. rl' = [rl EXCEPT !.state = "Error", !.encrypt_buffer = rl.encrypt_buffer,
                           !.decrypt_buffer = b]
      BY Zenon, <3>2, <1>1 DEF RecordLayerType
    <3>4. rl.encrypt_buffer \in Seq(Record)
      BY <1>1 DEF RecordLayerType
    <3> QED
      BY Zenon, <3>3, <3>4
  <2> QED
    BY Zenon, <2>1, <2>2
<1>5. /\ rl'.role = rl.role /\ (rl'.state = rl.state \/ rl'.state = "Error")
      /\ rl'.recv_online = rl.recv_online /\ rl'.recv_otp = rl.recv_otp
      /\ rl'.sent_records = rl.sent_records /\ rl'.recv_records = rl.recv_records
      /\ rl'.encrypted_buffer = rl.encrypted_buffer
      /\ rl'.decrypted_buffer = rl.decrypted_buffer
  BY <1>1, <1>4 DEF RecordLayerType
<1>6. rl' \in RecordLayerType
  BY Zenon, <1>1, <1>4 DEF RecordLayerType
<1>7. TypeOK'
  BY <1>3, <1>6 DEF IInv, TypeOK
<1>8. NoRecordLostOrReordered'
  BY <1>3 DEF NoRecordLostOrReordered
<1>9. OnlineBound' /\ OtpCoversOnlineLimit' /\ OutputIsTranscript' /\ LeaderAuthenticated'
  BY Zenon, <1>3, <1>5
     DEF IInv, OnlineBound, OtpCoversOnlineLimit, OutputIsTranscript, LeaderAuthenticated
<1> QED
  BY <1>7, <1>8, <1>9 DEF IInv
\* A commit that returns Ok appends the deferred records, whose application
\* data the leader has just authenticated.
LEMMA CommitIInv ==
    ASSUME IInv, CanCommit(rl), Ok(commit(rl))
    PROVE  IInv'
<1> DEFINE ops == rl.decrypt_buffer
           k == rl.dec_keystream - PublicBlocks(ops)
           e == rl.decrypted_buffer \o ops
           f == rl.recv_records \o ops
<1>1. rl \in RecordLayerType /\ delivered \in Seq(Record)
  BY DEF IInv, TypeOK
<1>2. /\ ops \in Seq(Record) /\ rl.decrypted_buffer \in Seq(Record)
      /\ rl.recv_records \in Seq(Record) /\ rl.dec_keystream \in Nat
  BY <1>1 DEF RecordLayerType
<1>3. /\ PublicBlocks(ops) <= rl.dec_keystream
      /\ rl.role = "Leader" => \A i \in 1..Len(ops) : Private(ops[i]) => ops[i].ok
  BY DEF CanCommit
<1>4. rl' = commit(rl) /\ UNCHANGED <<ready, failed, wire, delivered>>
  BY DEF Ok
<1>5. k \in Nat /\ e \in Seq(Record) /\ f \in Seq(Record) /\ <<>> \in Seq(Record)
  <2>1. PublicBlocks(ops) \in Nat
    BY Zenon, <1>2, CountsType
  <2>2. k \in Nat
    BY <2>1, <1>2, <1>3
  <2> QED
    BY <2>2, <1>2, ConcatProperties, EmptySeq
<1>6. /\ rl'.role = rl.role /\ rl'.state = "Complete"
      /\ rl'.recv_online = rl.recv_online /\ rl'.recv_otp = rl.recv_otp
      /\ rl'.write_seq = rl.write_seq /\ rl'.read_seq = rl.read_seq
      /\ rl'.encrypt_buffer = rl.encrypt_buffer /\ rl'.decrypt_buffer = <<>>
      /\ rl'.encrypted_buffer = rl.encrypted_buffer /\ rl'.decrypted_buffer = e
      /\ rl'.sent_records = rl.sent_records /\ rl'.recv_records = f
  BY Zenon, <1>1, <1>4 DEF RecordLayerType, commit
<1>7. rl' \in RecordLayerType
  <2>1. PICK k1 \in Nat, e1 \in Seq(Record), f1 \in Seq(Record), g1 \in Seq(Record) :
          rl' = [rl EXCEPT !.state = "Complete", !.decrypt_buffer = g1, !.dec_keystream = k1,
                           !.decrypted_buffer = e1, !.recv_records = f1]
    BY <1>4, <1>5, Zenon DEF commit
  <2> QED
    BY Zenon, <2>1, <1>1 DEF RecordLayerType
<1>8. TypeOK'
  BY <1>4, <1>7 DEF IInv, TypeOK
<1>9. OnlineBound' /\ OtpCoversOnlineLimit'
  BY <1>6 DEF IInv, OnlineBound, OtpCoversOnlineLimit
<1>10. NoRecordLostOrReordered'
  <2>1. f \o <<>> = f
    BY <1>5, ConcatEmptySeq
  <2> QED
    BY <2>1, <1>4, <1>6 DEF IInv, NoRecordLostOrReordered
<1>11. OutputIsTranscript'
  <2>1. delivered \o e = (delivered \o rl.decrypted_buffer) \o ops
    BY ONLY <1>1, <1>2, ConcatAssoc, Zenon
  <2> QED
    BY Zenon, <2>1, <1>4, <1>6 DEF IInv, OutputIsTranscript
<1>12. LeaderAuthenticated'
  <2>1. SUFFICES ASSUME rl.role = "Leader", NEW i \in 1..Len(f), Private(f[i])
                 PROVE  f[i].ok
    BY Zenon, <1>6 DEF LeaderAuthenticated
  <2>2. CASE i <= Len(rl.recv_records)
    <3>1. i \in 1..Len(rl.recv_records) /\ f[i] = rl.recv_records[i]
      BY <2>2, <1>2
    <3> QED
      BY <3>1, <2>1 DEF IInv, LeaderAuthenticated
  <2>3. CASE i > Len(rl.recv_records)
    <3>1. /\ Len(f) = Len(rl.recv_records) + Len(ops)
          /\ Len(ops) \in Nat /\ Len(rl.recv_records) \in Nat
          /\ i > Len(rl.recv_records) => f[i] = ops[i - Len(rl.recv_records)]
      BY <1>2
    <3>2. i - Len(rl.recv_records) \in 1..Len(ops)
      <4>1. \A a, b \in Nat : \A j \in 1..(a + b) : j > a => j - a \in 1..b
        OBVIOUS
      <4>2. i \in 1..(Len(rl.recv_records) + Len(ops))
        BY <3>1, Zenon
      <4> QED
        BY <4>1, <4>2, <3>1, <2>3, Zenon
    <3> QED
      BY <3>1, <3>2, <2>3, <2>1, <1>3
  <2>4. i <= Len(rl.recv_records) \/ i > Len(rl.recv_records)
    BY <1>2, <1>5
  <2> QED
    BY <2>2, <2>3, <2>4, Zenon
<1> QED
  BY <1>8, <1>9, <1>10, <1>11, <1>12 DEF IInv

\* Every step of the record layer keeps the invariant.
LEMMA NextIInv == IInv /\ [Next]_vars => IInv'
<1> SUFFICES ASSUME IInv, [Next]_vars PROVE IInv'
  OBVIOUS
<1>1. CASE Alloc
  BY <1>1, AllocIInv
<1>2. CASE Setup
  BY <1>2, QuietIInv DEF Setup, IInv, TypeOK
<1>3. CASE PushEncrypt
  <2>1. PICK typ \in Types, len \in Lens : Ok(push_encrypt(rl, typ, len)) \/ Err(rl)
    BY <1>3 DEF PushEncrypt
  <2>2. CASE Ok(push_encrypt(rl, typ, len))
    BY <2>2, PushEncryptIInv
  <2>3. CASE Err(rl)
    BY <2>3, QuietIInv DEF Err, IInv, TypeOK
  <2> QED
    BY <2>1, <2>2, <2>3
<1>4. CASE PushDecrypt
  <2>1. PICK typ \in Types, len \in Lens, ok \in BOOLEAN :
          Ok(push_decrypt(rl, typ, len, ok)) \/ Err(rl)
    BY <1>4 DEF PushDecrypt
  <2>2. CASE Ok(push_decrypt(rl, typ, len, ok))
    BY <2>2, PushDecryptIInv
  <2>3. CASE Err(rl)
    BY <2>3, QuietIInv DEF Err, IInv, TypeOK
  <2> QED
    BY <2>1, <2>2, <2>3
<1>5. CASE StartTraffic
  BY <1>5, QuietIInv DEF StartTraffic, Ok, IInv, TypeOK
<1>6. CASE Flush
  <2>1. PICK dec \in BOOLEAN : \/ CanFlush(rl, dec) /\ Ok(flush(rl, dec))
                               \/ Err(FlushErr(rl, dec))
    BY <1>6 DEF Flush
  <2> QED
    BY <2>1, FlushIInv, ErrIInv
<1>7. CASE NextEncrypted
  BY <1>7, NextEncryptedIInv
<1>8. CASE NextDecrypted
  BY <1>8, NextDecryptedIInv
<1>9. CASE Commit
  BY Zenon, <1>9, CommitIInv, ErrIInv DEF Commit
<1>10. CASE UNCHANGED vars
  BY <1>10, QuietIInv DEF vars, IInv, TypeOK
<1> QED
  BY <1>1, <1>2, <1>3, <1>4, <1>5, <1>6, <1>7, <1>8, <1>9, <1>10 DEF Next

\* The invariant holds in every reachable state of the record layer.
THEOREM RecordLayerInvariant == Spec => []IInv
  BY InitIInv, NextIInv, PTL DEF Spec

-----------------------------------------------------------------------------
(* The byte counts. *)

\* The strengthening of ReceiveLimits: before alloc too, no application data is in
\* the transcript that recv_online does not count.
LimitInv ==
    /\ rl.state \in {"Init", "Online"} => PrivateBytes(rl.recv_records) <= rl.recv_online
    /\ ByteLimits

\* A new record layer has counted nothing.
LEMMA InitLimit == Init => LimitInv
<1> SUFFICES ASSUME Init PROVE LimitInv
  OBVIOUS
<1>1. <<>> \o <<>> = <<>>
  OBVIOUS
<1>2. /\ rl.recv_records = <<>> /\ rl.sent_records = <<>>
      /\ rl.encrypt_buffer = <<>> /\ rl.decrypt_buffer = <<>>
      /\ rl.sent = 0 /\ rl.recv = 0 /\ rl.recv_online = 0
  BY DEF Init, NewRecordLayer
<1> QED
  BY <1>1, <1>2, CountsOfNothing, LimitsAssumption DEF LimitInv, ByteLimits

\* A step that leaves the transcript and recv_online alone, and either the queues
\* and the byte counts too or an error, keeps the limits.
LEMMA QuietLimit ==
    ASSUME LimitInv, failed => failed',
           rl'.state \in {"Init", "Online"} => rl.state \in {"Init", "Online"},
           rl'.recv_records = rl.recv_records, rl'.recv_online = rl.recv_online,
           failed' \/ /\ rl'.sent = rl.sent /\ rl'.recv = rl.recv
                      /\ rl'.sent_records = rl.sent_records
                      /\ rl'.encrypt_buffer = rl.encrypt_buffer
                      /\ rl'.decrypt_buffer = rl.decrypt_buffer
    PROVE  LimitInv'
  BY Zenon DEF LimitInv, ByteLimits

\* alloc, setup, start_traffic, the calls that take a record out, and every call that
\* returns Err count nothing.
LEMMA UncountedLimit ==
    ASSUME IInv, LimitInv,
           \/ Alloc \/ Setup \/ StartTraffic \/ NextEncrypted \/ NextDecrypted
           \/ UNCHANGED vars \/ Err(rl) \/ Err(CommitErr(rl))
           \/ \E dec \in BOOLEAN : Err(FlushErr(rl, dec))
    PROVE  LimitInv'
<1>1. rl \in RecordLayerType
  BY DEF IInv, TypeOK
<1>2. CASE Alloc
  BY <1>1, <1>2, QuietLimit DEF Alloc, Ok, alloc, RecordLayerType
<1>3. CASE Setup \/ UNCHANGED vars \/ Err(rl)
  BY <1>3, QuietLimit DEF Setup, vars, Err
<1>4. CASE StartTraffic
  BY <1>1, <1>4, QuietLimit DEF StartTraffic, Ok, start_traffic, RecordLayerType
<1>5. CASE NextEncrypted
  BY <1>1, <1>5, QuietLimit DEF NextEncrypted, next_encrypted, RecordLayerType
<1>6. CASE NextDecrypted
  BY <1>1, <1>6, QuietLimit DEF NextDecrypted, next_decrypted, RecordLayerType
<1>7. CASE Err(CommitErr(rl))
  BY <1>1, <1>7, QuietLimit DEF Err, CommitErr, RecordLayerType
<1>8. CASE \E dec \in BOOLEAN : Err(FlushErr(rl, dec))
  BY Zenon, <1>1, <1>8, QuietLimit DEF Err, FlushErr, RecordLayerType
<1> QED
  BY <1>2, <1>3, <1>4, <1>5, <1>6, <1>7, <1>8

\* push_encrypt counts the record and refuses what would exceed max_sent.
LEMMA PushEncryptLimit ==
    ASSUME IInv, LimitInv, NEW typ \in Types, NEW len \in Lens,
           CanPushEncrypt(rl, len), Ok(push_encrypt(rl, typ, len))
    PROVE  LimitInv'
<1> DEFINE e == [seq |-> rl.write_seq, typ |-> typ, len |-> len, ok |-> TRUE]
<1>1. rl \in RecordLayerType
  BY DEF IInv, TypeOK
<1>2. rl.sent_records \in Seq(Record) /\ rl.encrypt_buffer \in Seq(Record) /\ e \in Record
  BY <1>1, RecordLayerAssumption, LimitsAssumption DEF RecordLayerType, Record
<1>3. rl' = push_encrypt(rl, typ, len) /\ UNCHANGED failed
  BY DEF Ok
<1>4. /\ rl'.encrypt_buffer = Append(rl.encrypt_buffer, e) /\ rl'.sent = rl.sent + len
      /\ rl'.state = rl.state /\ rl'.sent_records = rl.sent_records
      /\ rl'.recv = rl.recv /\ rl'.recv_online = rl.recv_online
      /\ rl'.recv_records = rl.recv_records /\ rl'.decrypt_buffer = rl.decrypt_buffer
  BY <1>1, <1>3 DEF push_encrypt, RecordLayerType
<1>5. Bytes(rl.sent_records \o Append(rl.encrypt_buffer, e))
        = Bytes(rl.sent_records \o rl.encrypt_buffer) + len
  BY <1>2, BytesPush
<1>6. rl.sent + len <= MaxSent
  BY DEF CanPushEncrypt
<1> HIDE DEF e
<1> QED
  BY Zenon, <1>3, <1>4, <1>5, <1>6 DEF LimitInv, ByteLimits

\* push_decrypt counts the record and refuses what would exceed max_recv.
LEMMA PushDecryptLimit ==
    ASSUME IInv, LimitInv, NEW typ \in Types, NEW len \in Lens, NEW ok \in BOOLEAN,
           CanPushDecrypt(rl, len), Ok(push_decrypt(rl, typ, len, ok))
    PROVE  LimitInv'
<1> DEFINE e == [seq |-> rl.read_seq, typ |-> typ, len |-> len, ok |-> ok]
<1>1. rl \in RecordLayerType
  BY DEF IInv, TypeOK
<1>2. rl.recv_records \in Seq(Record) /\ rl.decrypt_buffer \in Seq(Record) /\ e \in Record
  BY <1>1, RecordLayerAssumption, LimitsAssumption DEF RecordLayerType, Record
<1>3. rl' = push_decrypt(rl, typ, len, ok) /\ UNCHANGED failed
  BY DEF Ok
<1>4. /\ rl'.decrypt_buffer = Append(rl.decrypt_buffer, e) /\ rl'.recv = rl.recv + len
      /\ rl'.state = rl.state /\ rl'.sent_records = rl.sent_records
      /\ rl'.sent = rl.sent /\ rl'.recv_online = rl.recv_online
      /\ rl'.recv_records = rl.recv_records /\ rl'.encrypt_buffer = rl.encrypt_buffer
  BY <1>1, <1>3 DEF push_decrypt, RecordLayerType
<1>5. Bytes(rl.recv_records \o Append(rl.decrypt_buffer, e))
        = Bytes(rl.recv_records \o rl.decrypt_buffer) + len
  BY <1>2, BytesPush
<1>6. rl.recv + len <= MaxRecv
  BY DEF CanPushDecrypt
<1> HIDE DEF e
<1> QED
  BY Zenon, <1>3, <1>4, <1>5, <1>6 DEF LimitInv, ByteLimits

\* A flush moves what was counted when it was pushed, and counts the application
\* data it decrypts in recv_online.
LEMMA FlushLimit ==
    ASSUME IInv, LimitInv, NEW dec \in BOOLEAN, Ok(flush(rl, dec))
    PROVE  LimitInv'
<1> DEFINE ops == DecryptOps(rl, dec)
           rest == DeferredOps(rl, dec)
<1>1. rl \in RecordLayerType
  BY DEF IInv, TypeOK
<1>2. /\ rl.encrypt_buffer \in Seq(Record) /\ rl.decrypt_buffer \in Seq(Record)
      /\ rl.sent_records \in Seq(Record) /\ rl.recv_records \in Seq(Record)
      /\ rl.recv_online \in Nat
  BY <1>1 DEF RecordLayerType
<1>3. /\ ops \in Seq(Record) /\ rest \in Seq(Record) /\ ops \o rest = rl.decrypt_buffer
      /\ ~dec => PrivateBytes(ops) = 0
  BY Zenon, <1>2, DrainSplits
<1>4. rl' = flush(rl, dec) /\ UNCHANGED failed
  BY DEF Ok
<1>5. /\ rl'.encrypt_buffer = <<>> /\ rl'.decrypt_buffer = rest
      /\ rl'.state = rl.state /\ rl'.sent = rl.sent /\ rl'.recv = rl.recv
      /\ rl'.recv_online = (IF dec THEN rl.recv_online + Bytes(ops) ELSE rl.recv_online)
      /\ rl'.sent_records = rl.sent_records \o rl.encrypt_buffer
      /\ rl'.recv_records = rl.recv_records \o ops
  BY Zenon, <1>1, <1>4 DEF RecordLayerType, flush
<1> HIDE DEF ops, rest
<1>6. /\ Bytes(ops) \in Nat /\ PrivateBytes(ops) \in Nat /\ PrivateBytes(ops) <= Bytes(ops)
      /\ PrivateBytes(rl.recv_records) \in Nat
      /\ PrivateBytes(rl.recv_records \o ops) = PrivateBytes(rl.recv_records) + PrivateBytes(ops)
  BY Zenon, <1>2, <1>3, CountsType, BytesConcat
<1>7. rl'.state \in {"Init", "Online"} => PrivateBytes(rl'.recv_records) <= rl'.recv_online
  <2>1. rl.state \in {"Init", "Online"} => PrivateBytes(rl.recv_records) <= rl.recv_online
    BY DEF LimitInv
  <2>2. CASE dec
    BY <2>1, <2>2, <1>2, <1>5, <1>6
  <2>3. CASE ~dec
    BY <2>1, <2>3, <1>2, <1>3, <1>5, <1>6
  <2> QED
    BY <2>2, <2>3
<1>8. ByteLimits'
  <2>1. (rl.sent_records \o rl.encrypt_buffer) \o <<>> = rl.sent_records \o rl.encrypt_buffer
    BY <1>2, ConcatProperties, ConcatEmptySeq
  <2>2. (rl.recv_records \o ops) \o rest = rl.recv_records \o (ops \o rest)
    BY <1>2, <1>3, ConcatAssoc, Zenon
  <2>3. (rl.recv_records \o ops) \o rest = rl.recv_records \o rl.decrypt_buffer
    BY <2>2, <1>3, Zenon
  <2> QED
    BY Zenon, <2>1, <2>3, <1>4, <1>5 DEF LimitInv, ByteLimits
<1> QED
  BY <1>7, <1>8 DEF LimitInv

\* A commit moves the deferred records to the transcript.
LEMMA CommitLimit ==
    ASSUME IInv, LimitInv, Ok(commit(rl))
    PROVE  LimitInv'
<1>1. rl \in RecordLayerType
  BY DEF IInv, TypeOK
<1>2. rl.recv_records \in Seq(Record) /\ rl.decrypt_buffer \in Seq(Record)
  BY <1>1 DEF RecordLayerType
<1>3. rl' = commit(rl) /\ UNCHANGED failed
  BY DEF Ok
<1>4. /\ rl'.encrypt_buffer = rl.encrypt_buffer /\ rl'.decrypt_buffer = <<>>
      /\ rl'.state = "Complete" /\ rl'.sent = rl.sent /\ rl'.recv = rl.recv
      /\ rl'.sent_records = rl.sent_records
      /\ rl'.recv_records = rl.recv_records \o rl.decrypt_buffer
  BY Zenon, <1>1, <1>3 DEF RecordLayerType, commit
<1>5. (rl.recv_records \o rl.decrypt_buffer) \o <<>> = rl.recv_records \o rl.decrypt_buffer
  BY <1>2, ConcatProperties, ConcatEmptySeq
<1> QED
  BY Zenon, <1>3, <1>4, <1>5 DEF LimitInv, ByteLimits

\* Every step of the record layer keeps the limits.
LEMMA NextLimit == IInv /\ LimitInv /\ [Next]_vars => LimitInv'
<1> SUFFICES ASSUME IInv, LimitInv, [Next]_vars PROVE LimitInv'
  OBVIOUS
<1>1. CASE PushEncrypt
  <2>1. PICK typ \in Types, len \in Lens :
          (CanPushEncrypt(rl, len) /\ Ok(push_encrypt(rl, typ, len))) \/ Err(rl)
    BY Zenon, <1>1 DEF PushEncrypt
  <2> QED
    BY Zenon, <2>1, PushEncryptLimit, UncountedLimit
<1>2. CASE PushDecrypt
  <2>1. PICK typ \in Types, len \in Lens, ok \in BOOLEAN :
          (CanPushDecrypt(rl, len) /\ Ok(push_decrypt(rl, typ, len, ok))) \/ Err(rl)
    BY Zenon, <1>2 DEF PushDecrypt
  <2> QED
    BY Zenon, <2>1, PushDecryptLimit, UncountedLimit
<1>3. CASE Flush
  <2>1. PICK dec \in BOOLEAN : Ok(flush(rl, dec)) \/ Err(FlushErr(rl, dec))
    BY Zenon, <1>3 DEF Flush
  <2> QED
    BY Zenon, <2>1, FlushLimit, UncountedLimit
<1>4. CASE Commit
  BY Zenon, <1>4, CommitLimit, UncountedLimit DEF Commit
<1> QED
  BY Zenon, <1>1, <1>2, <1>3, <1>4, UncountedLimit DEF Next

-----------------------------------------------------------------------------
(* The properties the runs check, for every value of the constants. *)

\* Every component keeps its type: no flush or commit drives a counter of
\* keystream, J0 blocks or one-time pad below zero.
THEOREM TypeCorrect == Spec => []TypeOK
<1>1. IInv => TypeOK
  BY DEF IInv
<1> QED
  BY <1>1, RecordLayerInvariant, PTL

\* As long as no operation failed, every number next_write and next_read hand
\* out is in the transcript or queued, once and in order.
THEOREM RecordsNumbered == Spec => []NoRecordLostOrReordered
<1>1. IInv => NoRecordLostOrReordered
  BY DEF IInv
<1> QED
  BY <1>1, RecordLayerInvariant, PTL

\* What leaves the record layer through next_encrypted and next_decrypted is the
\* transcript commit returns, in order.
THEOREM OutputsInOrder == Spec => []OutputIsTranscript
<1>1. IInv => OutputIsTranscript
  BY DEF IInv
<1> QED
  BY <1>1, RecordLayerInvariant, PTL

\* The leader's one-time pad never runs out before the online limit does.
THEOREM OtpSuffices == Spec => []OtpCoversOnlineLimit
<1>1. IInv => OtpCoversOnlineLimit
  BY DEF IInv
<1> QED
  BY <1>1, RecordLayerInvariant, PTL

\* The leader hands out no application data with an unchecked tag.
THEOREM LeaderChecksTags == Spec => []LeaderAuthenticated
<1>1. IInv => LeaderAuthenticated
  BY DEF IInv
<1> QED
  BY <1>1, RecordLayerInvariant, PTL

\* Application data decrypted online keeps within max_recv_online and is all
\* counted, and what was pushed in either direction keeps within max_sent and
\* max_recv and is all counted.
THEOREM LimitsKept == Spec => []ReceiveLimits
<1>1. IInv /\ LimitInv => ReceiveLimits
  BY DEF IInv, OnlineBound, LimitInv, ReceiveLimits, OnlineLimit
<1> QED
  BY <1>1, InitLimit, NextLimit, RecordLayerInvariant, PTL DEF Spec
=============================================================================
