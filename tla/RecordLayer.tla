---------------------------- MODULE RecordLayer ----------------------------
(***************************************************************************)
(* One party's record layer as a state machine: the operations of          *)
(* RecordLayerOps called in any order its caller may call them in.         *)
(*                                                                         *)
(* The callers (MpcTlsLeader and MpcTlsFollower) give up at the first Err  *)
(* an operation returns: `failed' records it, and no call follows.         *)
(***************************************************************************)
EXTENDS RecordLayerOps

CONSTANTS
    Role,               \* "Leader" or "Follower"
    Types,              \* the content types that occur
    Lens                \* the record lengths that occur

ASSUME RecordLayerAssumption ==
    /\ Role \in {"Leader", "Follower"}
    /\ Types \subseteq ContentType
    /\ Lens \subseteq 0..MaxLen

VARIABLES
    rl,                 \* the record layer
    ready,              \* set up (the caller is in its Active state)
    failed,             \* an operation has returned Err
    wire,               \* history: what next_encrypted returned
    delivered           \* history: what next_decrypted returned

vars == <<rl, ready, failed, wire, delivered>>

Init ==
    /\ rl = NewRecordLayer(Role)
    /\ ready = FALSE
    /\ failed = FALSE
    /\ wire = <<>>
    /\ delivered = <<>>

\* An operation that returns Ok, leaving r.
Ok(r) ==
    /\ rl' = r
    /\ UNCHANGED <<ready, failed, wire, delivered>>

\* An operation that returns Err, leaving r.
Err(r) ==
    /\ rl' = r
    /\ failed' = TRUE
    /\ UNCHANGED <<ready, wire, delivered>>

Alloc ==
    /\ ~failed /\ rl.state = "Init"
    /\ Ok(alloc(rl))

\* set_keys and setup: the AEADs become ready.
Setup ==
    /\ ~failed /\ rl.state = "Online" /\ ~ready
    /\ ready' = TRUE
    /\ UNCHANGED <<rl, failed, wire, delivered>>

\* An alert of the client is a level and a description.
PushEncrypt ==
    /\ ~failed /\ rl.state = "Online"
    /\ \E typ \in Types, len \in Lens :
        /\ typ = "Alert" => len = 2
        /\ IF CanPushEncrypt(rl, len) THEN Ok(push_encrypt(rl, typ, len)) ELSE Err(rl)

PushDecrypt ==
    /\ ~failed /\ rl.state = "Online"
    /\ \E typ \in Types, len \in Lens, ok \in BOOLEAN :
        IF CanPushDecrypt(rl, len) THEN Ok(push_decrypt(rl, typ, len, ok)) ELSE Err(rl)

StartTraffic ==
    /\ ~failed /\ ready /\ ~rl.started
    /\ Ok(start_traffic(rl))

\* The leader flushes only when it wants to; the follower whenever it is told.
Flush ==
    /\ ~failed /\ ready /\ rl.state = "Online" /\ wants_flush(rl)
    /\ \E is_decrypting \in BOOLEAN :
        IF CanFlush(rl, is_decrypting)
        THEN Ok(flush(rl, is_decrypting))
        ELSE Err(FlushErr(rl, is_decrypting))

NextEncrypted ==
    /\ ~failed /\ CanTakeEncrypted(rl)
    /\ rl' = next_encrypted(rl)
    /\ wire' = Append(wire, Head(rl.encrypted_buffer))
    /\ UNCHANGED <<ready, failed, delivered>>

NextDecrypted ==
    /\ ~failed /\ CanTakeDecrypted(rl)
    /\ rl' = next_decrypted(rl)
    /\ delivered' = Append(delivered, Head(rl.decrypted_buffer))
    /\ UNCHANGED <<ready, failed, wire>>

Commit ==
    /\ ~failed /\ ready /\ rl.state = "Online"
    /\ IF CanCommit(rl) THEN Ok(commit(rl)) ELSE Err(CommitErr(rl))

Next ==
    \/ Alloc \/ Setup \/ PushEncrypt \/ PushDecrypt \/ StartTraffic
    \/ Flush \/ NextEncrypted \/ NextDecrypted \/ Commit

Spec == Init /\ [][Next]_vars

-----------------------------------------------------------------------------
RecordLayerType ==
    [ role : {"Leader", "Follower"}, state : {"Init", "Online", "Complete", "Error"},
      started : BOOLEAN,
      sent : Nat, recv : Nat, recv_online : Nat, write_seq : Nat, read_seq : Nat,
      encrypt_buffer : Seq(Record), decrypt_buffer : Seq(Record),
      encrypted_buffer : Seq(Record), decrypted_buffer : Seq(Record),
      sent_records : Seq(Record), recv_records : Seq(Record),
      enc_keystream : Nat, dec_keystream : Nat,
      enc_j0s : Nat, dec_j0s : Nat, recv_otp : Nat ]

\* Every component of the record layer has its type; in particular no resource
\* counter is ever driven below zero by a flush or a commit that succeeds.
TypeOK ==
    /\ rl \in RecordLayerType
    /\ ready \in BOOLEAN
    /\ failed \in BOOLEAN
    /\ wire \in Seq(Record)
    /\ delivered \in Seq(Record)

\* The records of a direction are numbered from 0 without gap or repetition,
\* up to the next number to hand out.
Numbered(records, next) ==
    /\ Len(records) = next
    /\ \A i \in 1..Len(records) : records[i].seq = i - 1

\* As long as no operation failed, every record number handed out by next_write
\* and next_read is in the transcript or still queued, exactly once and in
\* order, however pushes, decrypting and deferring flushes and the commit
\* interleave.  The numbers are the AES-GCM nonces, so this is also that no
\* nonce encrypts twice.
NoRecordLostOrReordered ==
    ~failed =>
        /\ Numbered(rl.sent_records \o rl.encrypt_buffer, rl.write_seq)
        /\ Numbered(rl.recv_records \o rl.decrypt_buffer, rl.read_seq)

\* What next_encrypted and next_decrypted have returned, followed by what they
\* will return, is the transcript: nothing is sent or delivered that commit does
\* not return, and nothing out of order, also when decryption is toggled while
\* application data is deferred.
OutputIsTranscript ==
    /\ wire \o rl.encrypted_buffer = rl.sent_records
    /\ delivered \o rl.decrypted_buffer = rl.recv_records

\* Application data decrypted while the connection is online is all counted
\* against max_recv_online, and the count keeps within it: the flushes that do
\* not check the limit decrypt no application data.
OnlineLimit ==
    rl.state = "Online" =>
        /\ PrivateBytes(rl.recv_records) <= rl.recv_online
        /\ rl.recv_online <= MaxRecvOnline

\* The leader's one-time pad covers whatever the online limit still admits, so
\* private_mpc's "ciphertext length exceeds allocated" error, which only the
\* leader could raise, never splits the parties.
OtpCoversOnlineLimit ==
    rl.role = "Leader" /\ rl.state = "Online" =>
        MaxRecvOnline <= rl.recv_online + rl.recv_otp

\* The byte counters that enforce max_sent and max_recv count the transcript
\* and the queues, and keep within the limits.
ByteLimits ==
    ~failed =>
        /\ rl.sent = Bytes(rl.sent_records \o rl.encrypt_buffer) /\ rl.sent <= MaxSent
        /\ rl.recv = Bytes(rl.recv_records \o rl.decrypt_buffer) /\ rl.recv <= MaxRecv

\* What the party receives keeps within what was allocated for it, online and in
\* all, and so does what it sends, however the calls are ordered
\* (RecordLayer::push_decrypt, push_encrypt and flush).
ReceiveLimits == OnlineLimit /\ ByteLimits

\* The leader hands out no application data whose tag it has not checked,
\* whether it was decrypted online by a flush or locally by the commit.
LeaderAuthenticated ==
    rl.role = "Leader" =>
        \A i \in 1..Len(rl.recv_records) :
            Private(rl.recv_records[i]) => rl.recv_records[i].ok

-----------------------------------------------------------------------------
\* What was pushed for encryption since the connection was made.
Pushed == rl.sent_records \o rl.encrypt_buffer

\* PROTOCOL_RECORD_COUNT_SENT: the Finished message and the closing alert.
ProtocolRecordsSent == 2

\* As the configuration's "Maximum number of application data records that can
\* be sent" says, a flush does not run out of J0 blocks while no more than
\* max_sent_records application data records were sent.
SentRecordsAreAllocated ==
    LET app == {i \in 1..Len(Pushed) : Private(Pushed[i])}
    IN rl.state = "Online" /\ ~failed
       /\ Cardinality(app) <= MaxSentRecords
       /\ Len(Pushed) - Cardinality(app) <= ProtocolRecordsSent
       => Len(rl.encrypt_buffer) <= rl.enc_j0s
=============================================================================
