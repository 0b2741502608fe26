--------------------------- MODULE RecordLayerOps ---------------------------
(***************************************************************************)
(* The operations of one party's MPC-TLS record layer                      *)
(* (crates/mpc-tls/src/record_layer.rs and its encrypt, decrypt and AEAD   *)
(* helpers) as functions from a record-layer value to a record-layer value.*)
(* RecordLayer.tla makes a state machine of one record layer, MpcTls.tla   *)
(* composes the leader's and the follower's.                               *)
(*                                                                         *)
(* A TLS record is abstracted to what the control flow tells apart: its    *)
(* sequence number (which is also its explicit nonce), its content type,   *)
(* its length in bytes and, for a received record, whether its tag is the  *)
(* right one.  Keystream is counted in cipher blocks.                      *)
(***************************************************************************)
EXTENDS Integers, Sequences, FiniteSets

CONSTANTS
    MaxBuffer,          \* MAX_BUFFER_SIZE: most operations a buffer holds
    BlockSize,          \* bytes in a cipher block (16 for AES)
    MaxLen,             \* no record is longer than this
    MaxSent,            \* max_sent, protocol bytes included
    MaxRecv,            \* max_recv, protocol bytes included
    MaxRecvOnline,      \* max_recv_online, protocol bytes included
    MaxSentRecords,     \* max_sent_records: J0 blocks of the encrypter
    MaxRecvRecords      \* max_recv_records_online: J0 blocks of the decrypter

\* Limits are natural numbers, a block is not empty, and the online limit is
\* within the total (config.rs refuses the other case).
ASSUME LimitsAssumption ==
    /\ MaxBuffer \in Nat /\ MaxLen \in Nat
    /\ MaxSent \in Nat /\ MaxRecv \in Nat /\ MaxRecvOnline \in Nat
    /\ MaxSentRecords \in Nat /\ MaxRecvRecords \in Nat
    /\ BlockSize \in Nat \ {0}
    /\ MaxRecvOnline <= MaxRecv

\* ContentType of an encrypted record (ChangeCipherSpec is never encrypted).  Alert
\* stands for a close_notify alert, OtherAlert for an alert of any other kind.
ContentType == {"Handshake", "Alert", "OtherAlert", "ApplicationData"}

\* EncryptOp, DecryptOp, Record, EncryptedRecord and PlainRecord.  `ok' is
\* whether the tag matches (TRUE for what we encrypt ourselves).
Record == [seq : Nat, typ : ContentType, len : 0..MaxLen, ok : BOOLEAN]

\* The mode the leader picks: application data is private, the rest public.
Private(op) == op.typ = "ApplicationData"

\* Total length of a sequence of operations: the number of its bytes.
Bytes(ops) ==
    Cardinality({ib \in (1..Len(ops)) \X (1..MaxLen) : ib[2] <= ops[ib[1]].len})

\* Keystream blocks the operations take: every record starts a new block.
Blocks(ops) ==
    Cardinality({ib \in (1..Len(ops)) \X (1..MaxLen) :
                    (ib[2] - 1) * BlockSize < ops[ib[1]].len})

\* The same for the public operations alone.
PublicBlocks(ops) ==
    Cardinality({ib \in (1..Len(ops)) \X (1..MaxLen) :
                    /\ ~Private(ops[ib[1]])
                    /\ (ib[2] - 1) * BlockSize < ops[ib[1]].len})

\* Blocks allocated for a byte limit (MpcAesGcm::alloc rounds up).
AllocBlocks(len) == (len + BlockSize - 1) \div BlockSize

-----------------------------------------------------------------------------
\* RecordLayer::new
NewRecordLayer(role) ==
    [ role |-> role, state |-> "Init", started |-> FALSE,
      sent |-> 0, recv |-> 0, recv_online |-> 0,
      write_seq |-> 0, read_seq |-> 0,
      encrypt_buffer |-> <<>>, decrypt_buffer |-> <<>>,
      encrypted_buffer |-> <<>>, decrypted_buffer |-> <<>>,
      sent_records |-> <<>>, recv_records |-> <<>>,
      enc_keystream |-> 0, dec_keystream |-> 0,
      enc_j0s |-> 0, dec_j0s |-> 0, recv_otp |-> 0 ]

\* Faulty: allocates the one-time pad in blocks.
AllocShortOtp(r) ==
    [ r EXCEPT
        !.state = "Online",
        !.enc_keystream = AllocBlocks(MaxSent), !.dec_keystream = AllocBlocks(MaxRecvOnline),
        !.enc_j0s = MaxSentRecords, !.dec_j0s = MaxRecvRecords,
        !.recv_otp = AllocBlocks(MaxRecvOnline) ]

\* alloc: keystream and J0 blocks for both directions, and the leader's
\* one-time pad for what is decrypted online.
alloc(r) ==
    [ r EXCEPT
        !.state = "Online",
        !.enc_keystream = AllocBlocks(MaxSent),
        !.dec_keystream = AllocBlocks(MaxRecvOnline),
        !.enc_j0s = MaxSentRecords,
        !.dec_j0s = MaxRecvRecords,
        !.recv_otp = IF r.role = "Leader" THEN MaxRecvOnline ELSE 0 ]

is_empty(r) ==
    /\ r.encrypt_buffer = <<>> /\ r.decrypt_buffer = <<>>
    /\ r.encrypted_buffer = <<>> /\ r.decrypted_buffer = <<>>

wants_flush(r) == r.encrypt_buffer # <<>> \/ r.decrypt_buffer # <<>>

start_traffic(r) == [r EXCEPT !.started = TRUE]

-----------------------------------------------------------------------------
\* push_encrypt returns Ok.
CanPushEncrypt(r, len) ==
    /\ Len(r.encrypt_buffer) < MaxBuffer
    /\ r.sent + len <= MaxSent

\* push_encrypt with next_write: the record takes the next write number.
push_encrypt(r, typ, len) ==
    [ r EXCEPT
        !.write_seq = @ + 1,
        !.sent = @ + len,
        !.encrypt_buffer =
            Append(@, [seq |-> r.write_seq, typ |-> typ, len |-> len, ok |-> TRUE]) ]

\* push_decrypt returns Ok.
CanPushDecrypt(r, len) ==
    /\ Len(r.decrypt_buffer) < MaxBuffer
    /\ r.recv + len <= MaxRecv

\* push_decrypt with next_read: the record takes the next read number.
push_decrypt(r, typ, len, ok) ==
    [ r EXCEPT
        !.read_seq = @ + 1,
        !.recv = @ + len,
        !.decrypt_buffer =
            Append(@, [seq |-> r.read_seq, typ |-> typ, len |-> len, ok |-> ok]) ]

-----------------------------------------------------------------------------
\* A record at the head of an output buffer may be taken: application data
\* only once traffic has started.
CanTake(r, buffer) ==
    /\ buffer # <<>>
    /\ r.started \/ Head(buffer).typ # "ApplicationData"

CanTakeEncrypted(r) == CanTake(r, r.encrypted_buffer)

\* next_encrypted, the Some case.
next_encrypted(r) == [r EXCEPT !.encrypted_buffer = Tail(@)]

CanTakeDecrypted(r) == CanTake(r, r.decrypted_buffer)

\* next_decrypted, the Some case.
next_decrypted(r) == [r EXCEPT !.decrypted_buffer = Tail(@)]

-----------------------------------------------------------------------------
\* The first application data operation of the decrypt buffer, or one past
\* its end when there is none.
FirstAppData(buffer) ==
    CHOOSE n \in 1..(Len(buffer) + 1) :
        /\ \A i \in 1..(n - 1) : ~Private(buffer[i])
        /\ n <= Len(buffer) => Private(buffer[n])

\* The decrypt operations a flush drains: all of them, or, when the leader is
\* not decrypting, only those before the first application data record.
DecryptOps(r, is_decrypting) ==
    IF is_decrypting
    THEN r.decrypt_buffer
    ELSE SubSeq(r.decrypt_buffer, 1, FirstAppData(r.decrypt_buffer) - 1)

\* Faulty: clears the buffer after a partial drain.
DeferredOpsLost(r, is_decrypting) == <<>>

\* What a flush leaves in the decrypt buffer.
DeferredOps(r, is_decrypting) ==
    IF is_decrypting
    THEN <<>>
    ELSE SubSeq(r.decrypt_buffer, FirstAppData(r.decrypt_buffer),
                Len(r.decrypt_buffer))

\* The flush has something to do.
HasOps(r, is_decrypting) ==
    r.encrypt_buffer # <<>> \/ DecryptOps(r, is_decrypting) # <<>>

\* Faulty: looks at one flush at a time.
WithinOnlineLimitEach(r, is_decrypting) ==
    is_decrypting => Bytes(r.decrypt_buffer) <= MaxRecvOnline

\* The online decryption limit admits these operations.  Only a decrypting
\* flush checks it and counts against it.
WithinOnlineLimit(r, is_decrypting) ==
    is_decrypting => r.recv_online + Bytes(r.decrypt_buffer) <= MaxRecvOnline

\* The application data among the operations, which alone takes one-time pad.
PrivateBytes(ops) ==
    Cardinality({ib \in (1..Len(ops)) \X (1..MaxLen) :
                    Private(ops[ib[1]]) /\ ib[2] <= ops[ib[1]].len})

\* The AEAD can serve the operations: no empty record, enough keystream, and a
\* J0 block for every record.  (The cipher input allocated beside the keystream
\* never runs out first: what takes input takes as much keystream.)
EncrypterServes(r) ==
    /\ \A i \in 1..Len(r.encrypt_buffer) : r.encrypt_buffer[i].len > 0
    /\ Blocks(r.encrypt_buffer) <= r.enc_keystream
    /\ Len(r.encrypt_buffer) <= r.enc_j0s

DecrypterServes(r, ops) ==
    /\ \A i \in 1..Len(ops) : ops[i].len > 0
    /\ Blocks(ops) <= r.dec_keystream
    /\ Len(ops) <= r.dec_j0s

OtpServes(r, ops) == r.role = "Leader" => PrivateBytes(ops) <= r.recv_otp

\* Faulty: leaves out the tags of application data.
TagsVerifyPublic(r, ops) ==
    r.role = "Leader" => \A i \in 1..Len(ops) : Private(ops[i]) \/ ops[i].ok

\* Tags are checked by the leader only: the follower sends its shares.
TagsVerify(r, ops) ==
    r.role = "Leader" => \A i \in 1..Len(ops) : ops[i].ok

\* flush returns Ok.
CanFlush(r, is_decrypting) ==
    LET ops == DecryptOps(r, is_decrypting)
    IN HasOps(r, is_decrypting) =>
        /\ WithinOnlineLimit(r, is_decrypting)
        /\ EncrypterServes(r)
        /\ DecrypterServes(r, ops)
        /\ OtpServes(r, ops)
        /\ TagsVerify(r, ops)

\* flush returns Ok: the operations leave the input buffers, take their share
\* of the AEAD's resources, and go to the output buffers and the transcript.
\* (With no operation to process this is the identity.)
flush(r, is_decrypting) ==
    LET ops == DecryptOps(r, is_decrypting)
    IN [ r EXCEPT
          !.encrypt_buffer = <<>>,
          !.decrypt_buffer = DeferredOps(r, is_decrypting),
          !.recv_online = IF is_decrypting THEN @ + Bytes(ops) ELSE @,
          !.enc_keystream = @ - Blocks(r.encrypt_buffer),
          !.dec_keystream = @ - Blocks(ops),
          !.enc_j0s = @ - Len(r.encrypt_buffer),
          !.dec_j0s = @ - Len(ops),
          !.recv_otp = IF r.role = "Leader" THEN @ - PrivateBytes(ops) ELSE @,
          !.encrypted_buffer = @ \o r.encrypt_buffer,
          !.sent_records = @ \o r.encrypt_buffer,
          !.decrypted_buffer = @ \o ops,
          !.recv_records = @ \o ops ]

\* flush returns Err: the operations were drained before the failing check and
\* are lost.
FlushErr(r, is_decrypting) ==
    [ r EXCEPT !.encrypt_buffer = <<>>,
               !.decrypt_buffer = DeferredOps(r, is_decrypting) ]

-----------------------------------------------------------------------------
\* commit returns Ok.  The key is revealed to the leader, who decrypts the
\* deferred application data locally and checks its tags; the other deferred
\* records still take MPC keystream and their tags are not checked here.
CanCommit(r) ==
    LET ops == r.decrypt_buffer
    IN /\ r.encrypt_buffer = <<>>
       /\ PublicBlocks(ops) <= r.dec_keystream
       /\ \A i \in 1..Len(ops) :
            /\ ~Private(ops[i]) => ops[i].len > 0
            /\ Private(ops[i]) /\ r.role = "Leader" => ops[i].ok

\* Faulty: the deferred records are committed and not handed out.
CommitUndelivered(r) ==
    [ r EXCEPT
        !.state = "Complete",
        !.decrypt_buffer = <<>>,
        !.dec_keystream = @ - PublicBlocks(r.decrypt_buffer),
        !.recv_records = @ \o r.decrypt_buffer ]

\* commit returns Ok: the deferred records are handed out and committed.
commit(r) ==
    [ r EXCEPT
        !.state = "Complete",
        !.decrypt_buffer = <<>>,
        !.dec_keystream = @ - PublicBlocks(r.decrypt_buffer),
        !.decrypted_buffer = @ \o r.decrypt_buffer,
        !.recv_records = @ \o r.decrypt_buffer ]

\* commit returns Err: the state was taken and Error is left in its place, and
\* unless the encrypt buffer was the reason the deferred records are lost.
CommitErr(r) ==
    [ r EXCEPT !.state = "Error",
               !.decrypt_buffer = IF r.encrypt_buffer = <<>> THEN <<>> ELSE @ ]
=============================================================================
