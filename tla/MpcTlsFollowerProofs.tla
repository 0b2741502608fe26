----------------------- MODULE MpcTlsFollowerProofs -----------------------
(***************************************************************************)
(* What MpcTls's run checks on one small connection, proved for every      *)
(* number of writes and records and every limit of the record layer.       *)
(*                                                                         *)
(* The inductive invariant says what the messages on their way to the      *)
(* follower stand for: handled one after the other they take the           *)
(* follower's queues and values to the leader's.  This module defines it,  *)
(* shows what the operations of a record layer do to it, and that the      *)
(* follower's steps keep it; MpcTlsLeaderProofs does the same for the      *)
(* other steps.  The theorems are in MpcTlsProofs.                         *)
(*                                                                         *)
(* These modules leave the library's theorems alone: a fact that needs     *)
(* them is a hypothesis (HelpersSound) that MpcTlsProofs discharges.       *)
(***************************************************************************)
EXTENDS MpcTls, TLAPS

-----------------------------------------------------------------------------
(* The inductive invariant: types and the counters of a record layer. *)

\* Messages without contents.
PlainKinds == {"SetClientRandom", "StartHandshake", "SetServerRandom", "SetServerKey",
               "ClientFinishedVd", "ServerFinishedVd", "StartTraffic", "CloseConnection"}

Message ==
    [kind : PlainKinds] \cup [kind : {"Encrypt"}, typ : ContentType]
    \cup [kind : {"Decrypt"}, typ : ContentType, ok : BOOLEAN]
    \cup [kind : {"Flush"}, is_decrypting : BOOLEAN]

RecordFrame == [typ : ContentType, ok : BOOLEAN]

Frame == [kind : {"ServerHello", "ServerHelloDone", "ChangeCipherSpec"}] \cup RecordFrame

RlType ==
    [ role : {"Leader", "Follower"}, state : {"Init", "Online", "Complete", "Error"},
      started : BOOLEAN, sent : Nat, recv : Nat, recv_online : Nat,
      write_seq : Nat, read_seq : Nat,
      encrypt_buffer : Seq(Record), decrypt_buffer : Seq(Record),
      encrypted_buffer : Seq(Record), decrypted_buffer : Seq(Record),
      sent_records : Seq(Record), recv_records : Seq(Record),
      enc_keystream : Int, dec_keystream : Int,
      enc_j0s : Int, dec_j0s : Int, recv_otp : Int ]

Calls == {"none", "Preprocess", "Setup", "CfVd", "SfVd", "Flush", "Commit"}

LeaderType ==
    [ state : {"Init", "Setup", "Handshake", "Active", "Closed", "Error"},
      rl : RlType, join : Calls, cf_vd : BOOLEAN, sf_vd : BOOLEAN, is_decrypting : BOOLEAN ]

FollowerType ==
    [ state : {"Init", "Setup", "Ready", "Done", "Error"},
      rl : RlType, join : Calls, have : SUBSET Everything, dec : BOOLEAN ]

ClientType ==
    [ pc : {"off", "active", "start", "frames", "incoming", "traffic",
            "close_active", "done", "failed"},
      task : {"run", "client_close", "server_close", "close_run"}, pass : {1, 2},
      changed : BOOLEAN, hs : {"ServerHello", "ServerDone", "Ccs", "Finished", "Traffic"},
      frames : Seq(Frame), plaintext : Nat, written : Nat, received : Seq(Nat),
      unread : BOOLEAN, decrypt : BOOLEAN, wants_close : BOOLEAN, client_closed : BOOLEAN,
      close_notify : BOOLEAN ]

ServerType ==
    [ next : {"ServerHello", "ServerDone", "Ccs", "Records"}, sent : Nat, closed : BOOLEAN ]

\* Every record is one byte and has its number, so a record layer's counters are
\* the lengths of its transcript and its queue; outputs are part of the transcript.
Counted(r) ==
    /\ r.write_seq = r.sent /\ r.sent = Len(r.sent_records) + Len(r.encrypt_buffer)
    /\ r.read_seq = r.recv /\ r.recv = Len(r.recv_records) + Len(r.decrypt_buffer)
    /\ r.sent <= MaxSent /\ r.recv <= MaxRecv
    /\ Len(r.encrypted_buffer) <= Len(r.sent_records)
    /\ Len(r.decrypted_buffer) <= Len(r.recv_records)

-----------------------------------------------------------------------------
(* The inductive invariant: the leader and its TLS client. *)

\* Where the connection is, for the leader, its call and the TLS client.
Phases ==
    /\ leader.state \in {"Init", "Setup"} <=> client.pc = "off"
    /\ client.pc = "off" => client.hs = "ServerHello" /\ client.frames = <<>>
    /\ client.pc = "off" => leader.join = IF leader.state = "Init" THEN "none" ELSE "Preprocess"
    /\ leader.state = "Error" <=> client.pc = "failed"
    /\ leader.state = "Error" => leader.join = "none"
    /\ leader.state = "Handshake" =>
         \/ leader.join = "none" /\ client.hs \in {"ServerHello", "ServerDone"}
         \/ leader.join = "Setup" /\ client.hs = "ServerDone"
    /\ leader.state = "Active" =>
         \/ leader.join \in {"none", "Flush"} /\ client.hs \in {"Ccs", "Finished", "Traffic"}
         \/ leader.join = "CfVd" /\ client.hs = "ServerDone"
         \/ leader.join = "SfVd" /\ client.hs = "Finished"
         \/ leader.join = "Commit" /\ client.hs = "Traffic"
    /\ leader.state = "Closed" =>
         /\ leader.join = "none" /\ client.hs = "Traffic"
         /\ leader.rl.encrypt_buffer = <<>> /\ leader.rl.decrypt_buffer = <<>>
         /\ \/ client.pc \in {"close_active", "done"}
            \/ client.pc \in {"start", "frames", "incoming"} /\ client.task = "close_run"
    /\ client.pc \in {"close_active", "done"} => leader.state = "Closed"
    /\ client.task # "run" => client.hs = "Traffic"
    /\ client.task = "close_run" => leader.state \in {"Closed", "Error"}
    /\ leader.join \in {"Setup", "CfVd", "Flush"} => client.pc = "frames"
    /\ leader.join \in {"SfVd", "Commit"} => client.pc = "incoming"
    /\ leader.join = "Flush" => HasOps(leader.rl, leader.is_decrypting)

\* How many of the server's three messages before its records have been taken.
Passed ==
    CASE client.hs = "ServerHello" -> 0
      [] client.hs = "ServerDone" -> IF leader.join \in {"Setup", "CfVd"} THEN 2 ELSE 1
      [] client.hs = "Ccs" -> 2
      [] OTHER -> 3

\* How many of them the server has sent.
Greeted ==
    CASE server.next = "ServerHello" -> 0
      [] server.next = "ServerDone" -> 1
      [] server.next = "Ccs" -> 2
      [] OTHER -> 3

\* What comes after those three messages is a record.
FramesInOrder ==
    leader.state # "Error" =>
        /\ server.next # "Records" => Len(client.frames) + Passed = Greeted
        /\ \A i \in 1..Len(client.frames) : i + Passed > 3 => client.frames[i] \in RecordFrame

\* The Finished messages leave their records in the transcript.
FinishedSeen ==
    leader.state # "Error" =>
        /\ client.hs \in {"Ccs", "Finished", "Traffic"} => leader.rl.sent >= 1
        /\ client.hs = "Traffic" \/ leader.join = "SfVd" => leader.rl.recv_records # <<>>
        /\ leader.join = "Commit" => leader.rl.encrypt_buffer = <<>>

\* The leader, its TLS client and the server.
LeaderInv ==
    /\ leader \in LeaderType /\ client \in ClientType /\ server \in ServerType
    /\ Counted(leader.rl) /\ leader.rl.role = "Leader"
    /\ Phases /\ FramesInOrder /\ FinishedSeen

-----------------------------------------------------------------------------
(* The inductive invariant: the follower and the messages on their way. *)

FollowerInv(f) ==
    /\ f \in FollowerType /\ Counted(f.rl) /\ f.rl.role = "Follower"
    /\ f.state = "Ready" => f.join # "Preprocess"
    /\ f.state \in {"Done", "Error"} => f.join = "none"

\* What the messages so far have told the follower.
Told ==
    (IF leader.state \in {"Init", "Setup"} THEN {} ELSE {"client_random"})
    \cup (IF client.hs = "ServerHello" THEN {} ELSE {"time", "server_random"})
    \cup (IF leader.join = "Setup" THEN {"server_key"} ELSE {})
    \cup (IF leader.state \in {"Active", "Closed"} THEN {"server_key", "cf_vd"} ELSE {})
    \cup (IF leader.join = "SfVd" \/ client.hs = "Traffic" THEN {"sf_vd"} ELSE {})

\* What one message tells.
Tells(kind) ==
    CASE kind = "SetClientRandom" -> {"client_random"}
      [] kind = "StartHandshake" -> {"time"}
      [] kind = "SetServerRandom" -> {"server_random"}
      [] kind = "SetServerKey" -> {"server_key"}
      [] kind = "ClientFinishedVd" -> {"cf_vd"}
      [] kind = "ServerFinishedVd" -> {"sf_vd"}
      [] OTHER -> {}

\* What a message changes at the follower: its queues and its values.
Position ==
    [encrypt_buffer : Seq(Record), decrypt_buffer : Seq(Record), have : SUBSET Everything]

PositionOf(r, have) ==
    [encrypt_buffer |-> r.encrypt_buffer, decrypt_buffer |-> r.decrypt_buffer, have |-> have]

\* A position before a message and the one after it, when sent and recv records are
\* already in the transcripts.
Handled(m, v, sent, recv) ==
    [ encrypt_buffer |->
        IF m.kind = "Encrypt"
        THEN Append(v.encrypt_buffer, [seq |-> sent + Len(v.encrypt_buffer), typ |-> m.typ,
                                       len |-> RecordLen, ok |-> TRUE])
        ELSE v.encrypt_buffer,
      decrypt_buffer |->
        IF m.kind = "Decrypt"
        THEN Append(v.decrypt_buffer, [seq |-> recv + Len(v.decrypt_buffer), typ |-> m.typ,
                                       len |-> RecordLen, ok |-> m.ok])
        ELSE v.decrypt_buffer,
      have |-> v.have \cup Tells(m.kind) ]

\* A message that makes the follower enter no computation.
Quiet(m, v) ==
    /\ m.kind \notin {"SetServerKey", "ClientFinishedVd", "ServerFinishedVd", "CloseConnection"}
    /\ m.kind = "Flush" => ~HasOps(v, m.is_decrypting)

\* The messages c lead from position v to position w: h is the way, message after
\* message.  None of them makes the follower enter a computation, except the last one
\* when the leader is joining.
Leads(c, v, w, sent, recv, joining) ==
    \E h \in Seq(Position) :
        /\ Len(h) = Len(c) + 1
        /\ h[1] = v /\ h[Len(h)] = w
        /\ \A k \in 1..Len(c) : h[k + 1] = Handled(c[k], h[k], sent, recv)
        /\ \A k \in 1..Len(c) : k < Len(c) \/ ~joining => Quiet(c[k], h[k])

\* The message that announces a computation.
Announces(m, op) ==
    \/ op = "Setup" /\ m.kind = "SetServerKey"
    \/ op = "CfVd" /\ m.kind = "ClientFinishedVd"
    \/ op = "SfVd" /\ m.kind = "ServerFinishedVd"
    \/ op = "Flush" /\ m.kind = "Flush" /\ m.is_decrypting = leader.is_decrypting
    \/ op = "Commit" /\ m.kind = "CloseConnection"

\* The follower is in the leader's computation, or will be when it comes to the
\* last message.
Meets ==
    \/ leader.join = "none" /\ follower.join = "none"
    \/ /\ leader.join # "none" /\ follower.join = leader.join /\ chan = <<>>
       /\ leader.join = "Flush" => follower.dec = leader.is_decrypting
    \/ /\ leader.join # "none" /\ follower.join = "none" /\ chan # <<>>
       /\ Announces(chan[Len(chan)], leader.join)

\* What no message changes.
SameBase(r, s) ==
    /\ r.state = s.state /\ r.recv_online = s.recv_online
    /\ r.sent_records = s.sent_records /\ r.recv_records = s.recv_records
    /\ r.enc_keystream = s.enc_keystream /\ r.dec_keystream = s.dec_keystream
    /\ r.enc_j0s = s.enc_j0s /\ r.dec_j0s = s.dec_j0s

\* Both parties are past the set-up and none has failed.
Running == leader.state \in {"Handshake", "Active", "Closed"} /\ follower.state \in {"Ready", "Done"}

\* The parties before the set-up.
Fresh(p, role) ==
    \/ p.state = "Init" /\ p.join = "none" /\ p.rl = NewRecordLayer(role)
    \/ p.state = "Setup" /\ p.join = "Preprocess" /\ p.rl = alloc(NewRecordLayer(role))

Pairing ==
    /\ leader.state \in {"Init", "Setup"} <=> follower.state \in {"Init", "Setup"}
    /\ leader.state \in {"Init", "Setup"} =>
         Fresh(leader, "Leader") /\ Fresh(follower, "Follower") /\ follower.have = {} /\ chan = <<>>
    /\ leader.state = "Closed" => follower.state = "Done"
    /\ follower.state = "Done" => leader.state \in {"Closed", "Error"}

\* The messages on their way lead from the follower's position to the leader's.
OnTheWay(joining) ==
    /\ SameBase(leader.rl, follower.rl)
    /\ Leads(chan, PositionOf(follower.rl, follower.have), PositionOf(leader.rl, Told),
             Len(leader.rl.sent_records), Len(leader.rl.recv_records), joining)

Synced == Running => Meets /\ OnTheWay(leader.join # "none")

Inv == LeaderInv /\ FollowerInv(follower) /\ chan \in Seq(Message) /\ Pairing /\ Synced

-----------------------------------------------------------------------------
(* What is needed of the helpers of the record layer. *)

\* The byte and block counts are natural numbers, and what a flush drains and what
\* it defers are the decrypt buffer.  RecordLayerOpsProofs shows it; it is a
\* hypothesis of the lemmas about flush and commit so that they do not depend on
\* the library it needs.
HelpersSound ==
    /\ \A ops \in Seq(Record) :
         /\ Bytes(ops) \in Nat /\ Blocks(ops) \in Nat
         /\ PublicBlocks(ops) \in Nat /\ PrivateBytes(ops) \in Nat
    /\ \A r : \A dec \in BOOLEAN :
         r.decrypt_buffer \in Seq(Record) =>
            /\ DecryptOps(r, dec) \in Seq(Record) /\ DeferredOps(r, dec) \in Seq(Record)
            /\ DecryptOps(r, dec) \o DeferredOps(r, dec) = r.decrypt_buffer

-----------------------------------------------------------------------------
(* The operations on a record layer. *)

\* Sequences of records.
LEMMA RecordSequences ==
    /\ <<>> \in Seq(Record) /\ Len(<<>>) = 0
    /\ \A a, b \in Seq(Record) :
         a \o b \in Seq(Record) /\ Len(a \o b) = Len(a) + Len(b) /\ Len(a) \in Nat
  OBVIOUS

\* A sequence has a length.
LEMMA LenNat == \A S : \A s \in Seq(S) : Len(s) \in Nat
  OBVIOUS

\* A record of one byte.
LEMMA OneByte ==
    ASSUME NEW n \in Nat, NEW typ \in ContentType, NEW ok \in BOOLEAN
    PROVE  [seq |-> n, typ |-> typ, len |-> RecordLen, ok |-> ok] \in Record
  BY LimitsAssumption, MpcTlsAssumption DEF Record, RecordLen

\* A queue with one more record is a queue.
LEMMA AppendRecord ==
    \A s \in Seq(Record), e \in Record :
        Append(s, e) \in Seq(Record) /\ Len(Append(s, e)) = Len(s) + 1
  OBVIOUS

\* RecordLayer::new and alloc.
LEMMA NewLayer ==
    ASSUME NEW role \in {"Leader", "Follower"}
    PROVE  /\ NewRecordLayer(role) \in RlType
           /\ Counted(NewRecordLayer(role))
           /\ NewRecordLayer(role).role = role
           /\ NewRecordLayer(role).encrypt_buffer = <<>>
           /\ NewRecordLayer(role).decrypt_buffer = <<>>
<1>1. <<>> \in Seq(Record) /\ Len(<<>>) = 0
  OBVIOUS
<1>2. NewRecordLayer(role) \in RlType
  BY <1>1 DEF NewRecordLayer, RlType
<1> QED
  BY <1>1, <1>2, LimitsAssumption DEF NewRecordLayer, Counted

\* alloc changes the state of the record layer and what the AEAD may use.
LEMMA AllocLayer ==
    ASSUME NEW r \in RlType, Counted(r)
    PROVE  /\ alloc(r) \in RlType
           /\ Counted(alloc(r))
           /\ alloc(r).role = r.role
           /\ alloc(r).encrypt_buffer = r.encrypt_buffer
           /\ alloc(r).decrypt_buffer = r.decrypt_buffer
<1>1. AllocBlocks(MaxSent) \in Int /\ AllocBlocks(MaxRecvOnline) \in Int
  BY LimitsAssumption DEF AllocBlocks
<1>2. alloc(r) \in RlType
  <2>1. /\ MaxSentRecords \in Int /\ MaxRecvRecords \in Int
        /\ (IF r.role = "Leader" THEN MaxRecvOnline ELSE 0) \in Int
    BY LimitsAssumption
  <2> QED
    BY Zenon, <1>1, <2>1 DEF alloc, RlType
<1> QED
  BY <1>2 DEF alloc, Counted, RlType

\* push_encrypt queues a record with the next number and changes nothing else.
LEMMA PushEncryptLayer ==
    ASSUME NEW r \in RlType, Counted(r), CanPushEncrypt(r, RecordLen), NEW typ \in ContentType
    PROVE  LET q == push_encrypt(r, typ, RecordLen)
           IN /\ q \in RlType /\ Counted(q) /\ q.role = r.role /\ SameBase(q, r)
              /\ q.started = r.started /\ q.sent = r.sent + 1
              /\ q.encrypted_buffer = r.encrypted_buffer
              /\ q.decrypted_buffer = r.decrypted_buffer
              /\ q.decrypt_buffer = r.decrypt_buffer
              /\ q.encrypt_buffer =
                   Append(r.encrypt_buffer,
                          [seq |-> Len(r.sent_records) + Len(r.encrypt_buffer), typ |-> typ,
                           len |-> RecordLen, ok |-> TRUE])
<1> DEFINE q == push_encrypt(r, typ, RecordLen)
           e == [seq |-> r.write_seq, typ |-> typ, len |-> RecordLen, ok |-> TRUE]
<1>1. e \in Record /\ r.write_seq = Len(r.sent_records) + Len(r.encrypt_buffer)
  BY OneByte, Zenon DEF RlType, Counted
<1>2. /\ q.encrypt_buffer = Append(r.encrypt_buffer, e)
      /\ q.sent = r.sent + 1 /\ q.write_seq = r.write_seq + 1
  BY DEF push_encrypt, RlType, RecordLen
<1>3. /\ q.role = r.role /\ q.started = r.started /\ q.recv = r.recv /\ q.read_seq = r.read_seq
      /\ q.encrypted_buffer = r.encrypted_buffer /\ q.decrypted_buffer = r.decrypted_buffer
      /\ q.decrypt_buffer = r.decrypt_buffer /\ SameBase(q, r)
  BY DEF push_encrypt, RlType, SameBase
<1>4. q \in RlType
  <2>1. r.encrypt_buffer \in Seq(Record) /\ r.sent \in Nat /\ r.write_seq \in Nat
    BY DEF RlType
  <2>2. PICK b \in Seq(Record), n \in Nat, c \in Nat :
          b = Append(r.encrypt_buffer, e) /\ n = r.write_seq + 1 /\ c = r.sent + RecordLen
    <3>1. Append(r.encrypt_buffer, e) \in Seq(Record)
      BY Zenon, <1>1, <2>1, AppendRecord
    <3>2. r.write_seq + 1 \in Nat /\ r.sent + RecordLen \in Nat
      BY <2>1 DEF RecordLen
    <3> QED
      BY <3>1, <3>2, Zenon
  <2>3. q = [r EXCEPT !.write_seq = n, !.sent = c, !.encrypt_buffer = b]
    BY <2>2, Zenon DEF push_encrypt
  <2> QED
    BY Zenon, <2>3 DEF RlType
<1>5. Len(q.encrypt_buffer) = Len(r.encrypt_buffer) + 1
  BY <1>1, <1>2 DEF RlType
<1>6. r.sent + 1 <= MaxSent
  BY DEF CanPushEncrypt, RecordLen
<1> HIDE DEF q
<1>7. Counted(q)
  BY <1>2, <1>3, <1>5, <1>6 DEF Counted, SameBase, RlType
<1> QED
  BY <1>1, <1>2, <1>3, <1>4, <1>7 DEF q

\* push_decrypt likewise.
LEMMA PushDecryptLayer ==
    ASSUME NEW r \in RlType, Counted(r), CanPushDecrypt(r, RecordLen),
           NEW typ \in ContentType, NEW ok \in BOOLEAN
    PROVE  LET q == push_decrypt(r, typ, RecordLen, ok)
           IN /\ q \in RlType /\ Counted(q) /\ q.role = r.role /\ SameBase(q, r)
              /\ q.started = r.started /\ q.sent = r.sent
              /\ q.encrypted_buffer = r.encrypted_buffer
              /\ q.decrypted_buffer = r.decrypted_buffer
              /\ q.encrypt_buffer = r.encrypt_buffer
              /\ q.decrypt_buffer =
                   Append(r.decrypt_buffer,
                          [seq |-> Len(r.recv_records) + Len(r.decrypt_buffer), typ |-> typ,
                           len |-> RecordLen, ok |-> ok])
<1> DEFINE q == push_decrypt(r, typ, RecordLen, ok)
           e == [seq |-> r.read_seq, typ |-> typ, len |-> RecordLen, ok |-> ok]
<1>1. e \in Record /\ r.read_seq = Len(r.recv_records) + Len(r.decrypt_buffer)
  BY OneByte, Zenon DEF RlType, Counted
<1>2. /\ q.decrypt_buffer = Append(r.decrypt_buffer, e)
      /\ q.recv = r.recv + 1 /\ q.read_seq = r.read_seq + 1
  BY DEF push_decrypt, RlType, RecordLen
<1>3. /\ q.role = r.role /\ q.started = r.started /\ q.sent = r.sent /\ q.write_seq = r.write_seq
      /\ q.encrypted_buffer = r.encrypted_buffer /\ q.decrypted_buffer = r.decrypted_buffer
      /\ q.encrypt_buffer = r.encrypt_buffer /\ SameBase(q, r)
  BY DEF push_decrypt, RlType, SameBase
<1>4. q \in RlType
  <2>1. r.decrypt_buffer \in Seq(Record) /\ r.recv \in Nat /\ r.read_seq \in Nat
    BY DEF RlType
  <2>2. PICK b \in Seq(Record), n \in Nat, c \in Nat :
          b = Append(r.decrypt_buffer, e) /\ n = r.read_seq + 1 /\ c = r.recv + RecordLen
    <3>1. Append(r.decrypt_buffer, e) \in Seq(Record)
      BY Zenon, <1>1, <2>1, AppendRecord
    <3>2. r.read_seq + 1 \in Nat /\ r.recv + RecordLen \in Nat
      BY <2>1 DEF RecordLen
    <3> QED
      BY <3>1, <3>2, Zenon
  <2>3. q = [r EXCEPT !.read_seq = n, !.recv = c, !.decrypt_buffer = b]
    BY <2>2, Zenon DEF push_decrypt
  <2> QED
    BY Zenon, <2>3 DEF RlType
<1>5. Len(q.decrypt_buffer) = Len(r.decrypt_buffer) + 1
  BY <1>1, <1>2 DEF RlType
<1>6. r.recv + 1 <= MaxRecv
  BY DEF CanPushDecrypt, RecordLen
<1> HIDE DEF q
<1>7. Counted(q)
  BY <1>2, <1>3, <1>5, <1>6 DEF Counted, SameBase, RlType
<1> QED
  BY <1>1, <1>2, <1>3, <1>4, <1>7 DEF q
\* The TLS client takes a record from an output buffer.
LEMMA TakeLayer ==
    ASSUME NEW r \in RlType, Counted(r)
    PROVE  /\ r.encrypted_buffer # <<>> =>
                LET q == next_encrypted(r)
                IN /\ q \in RlType /\ Counted(q) /\ q.role = r.role /\ SameBase(q, r)
                   /\ q.started = r.started /\ q.sent = r.sent
                   /\ q.encrypt_buffer = r.encrypt_buffer /\ q.decrypt_buffer = r.decrypt_buffer
                   /\ q.decrypted_buffer = r.decrypted_buffer
           /\ r.decrypted_buffer # <<>> =>
                LET q == next_decrypted(r)
                IN /\ q \in RlType /\ Counted(q) /\ q.role = r.role /\ SameBase(q, r)
                   /\ q.started = r.started /\ q.sent = r.sent
                   /\ q.encrypt_buffer = r.encrypt_buffer /\ q.decrypt_buffer = r.decrypt_buffer
                   /\ q.decrypted_buffer = Tail(r.decrypted_buffer)
                   /\ r.recv_records # <<>>
<1>1. r.encrypted_buffer \in Seq(Record) /\ r.decrypted_buffer \in Seq(Record)
  BY DEF RlType
<1>2. \A s \in Seq(Record) :
        s # <<>> => Tail(s) \in Seq(Record) /\ Len(Tail(s)) = Len(s) - 1 /\ Len(s) > 0
  OBVIOUS
<1>3. ASSUME r.encrypted_buffer # <<>>
      PROVE  LET q == next_encrypted(r)
             IN /\ q \in RlType /\ Counted(q) /\ q.role = r.role /\ SameBase(q, r)
                /\ q.started = r.started /\ q.sent = r.sent
                /\ q.encrypt_buffer = r.encrypt_buffer /\ q.decrypt_buffer = r.decrypt_buffer
                /\ q.decrypted_buffer = r.decrypted_buffer
  <2> DEFINE q == next_encrypted(r)
  <2>1. q \in RlType
    BY Zenon, <1>1, <1>2, <1>3 DEF next_encrypted, RlType
  <2>2. q.encrypted_buffer = Tail(r.encrypted_buffer)
    BY DEF next_encrypted, RlType
  <2>3. Len(q.encrypted_buffer) <= Len(r.sent_records)
    <3> DEFINE d == r.encrypted_buffer
               t == r.sent_records
    <3>1. d \in Seq(Record) /\ t \in Seq(Record)
      BY Zenon, <1>1 DEF RlType
    <3>2. d # <<>> /\ Len(d) <= Len(t)
      BY Zenon, <1>3 DEF Counted
    <3> HIDE DEF d, t
    <3>3. Len(Tail(d)) <= Len(t)
      BY <3>1, <3>2
    <3> QED
      BY Zenon, <2>2, <3>3 DEF d, t
  <2>4. /\ q.role = r.role /\ SameBase(q, r)
        /\ q.started = r.started /\ q.sent = r.sent /\ q.recv = r.recv
        /\ q.write_seq = r.write_seq /\ q.read_seq = r.read_seq
        /\ q.encrypt_buffer = r.encrypt_buffer /\ q.decrypt_buffer = r.decrypt_buffer
        /\ q.decrypted_buffer = r.decrypted_buffer
    BY DEF next_encrypted, RlType, SameBase
  <2> HIDE DEF q
  <2>5. Counted(q)
    BY <2>3, <2>4, Zenon DEF Counted, SameBase
  <2> QED
    BY <2>1, <2>4, <2>5 DEF q
<1>4. ASSUME r.decrypted_buffer # <<>>
      PROVE  LET q == next_decrypted(r)
             IN /\ q \in RlType /\ Counted(q) /\ q.role = r.role /\ SameBase(q, r)
                /\ q.started = r.started /\ q.sent = r.sent
                /\ q.encrypt_buffer = r.encrypt_buffer /\ q.decrypt_buffer = r.decrypt_buffer
                /\ q.decrypted_buffer = Tail(r.decrypted_buffer)
                /\ r.recv_records # <<>>
  <2> DEFINE q == next_decrypted(r)
  <2>1. q \in RlType
    BY Zenon, <1>1, <1>2, <1>4 DEF next_decrypted, RlType
  <2>2. q.decrypted_buffer = Tail(r.decrypted_buffer)
    BY DEF next_decrypted, RlType
  <2>3. Len(q.decrypted_buffer) <= Len(r.recv_records) /\ r.recv_records # <<>>
    <3> DEFINE d == r.decrypted_buffer
               t == r.recv_records
    <3>1. d \in Seq(Record) /\ t \in Seq(Record)
      BY Zenon, <1>1 DEF RlType
    <3>2. d # <<>> /\ Len(d) <= Len(t)
      BY Zenon, <1>4 DEF Counted
    <3> HIDE DEF d, t
    <3>3. Len(Tail(d)) <= Len(t) /\ t # <<>>
      BY <3>1, <3>2
    <3> QED
      BY Zenon, <2>2, <3>3 DEF d, t
  <2>4. /\ q.role = r.role /\ SameBase(q, r)
        /\ q.started = r.started /\ q.sent = r.sent /\ q.recv = r.recv
        /\ q.write_seq = r.write_seq /\ q.read_seq = r.read_seq
        /\ q.encrypt_buffer = r.encrypt_buffer /\ q.decrypt_buffer = r.decrypt_buffer
        /\ q.encrypted_buffer = r.encrypted_buffer
    BY DEF next_decrypted, RlType, SameBase
  <2> HIDE DEF q
  <2>5. Counted(q)
    BY <2>3, <2>4, Zenon DEF Counted, SameBase
  <2> QED
    BY <2>1, <2>2, <2>3, <2>4, <2>5 DEF q
<1> QED
  BY <1>3, <1>4

\* start_traffic sets its flag.
LEMMA StartLayer ==
    ASSUME NEW r \in RlType, Counted(r)
    PROVE  LET q == start_traffic(r)
           IN /\ q \in RlType /\ Counted(q) /\ q.role = r.role /\ SameBase(q, r)
              /\ q.started /\ q.sent = r.sent
              /\ q.encrypt_buffer = r.encrypt_buffer /\ q.decrypt_buffer = r.decrypt_buffer
              /\ q.encrypted_buffer = r.encrypted_buffer
              /\ q.decrypted_buffer = r.decrypted_buffer
<1>1. start_traffic(r) \in RlType
  BY Zenon DEF start_traffic, RlType
<1> QED
  BY <1>1 DEF start_traffic, RlType, SameBase, Counted

\* A flush moves what it drains to the outputs and the transcripts.
LEMMA FlushLayer ==
    ASSUME HelpersSound, NEW r \in RlType, Counted(r), NEW dec \in BOOLEAN
    PROVE  LET q == flush(r, dec)
               ops == DecryptOps(r, dec)
           IN /\ q \in RlType /\ Counted(q) /\ q.role = r.role
              /\ q.started = r.started /\ q.sent = r.sent
              /\ q.encrypt_buffer = <<>> /\ q.decrypt_buffer = DeferredOps(r, dec)
              /\ q.decrypted_buffer = r.decrypted_buffer \o ops
              /\ q.sent_records = r.sent_records \o r.encrypt_buffer
              /\ q.recv_records = r.recv_records \o ops
              /\ ops \in Seq(Record)
<1> DEFINE q == flush(r, dec)
           ops == DecryptOps(r, dec)
           rest == DeferredOps(r, dec)
           E == r.encrypt_buffer
<1>1. /\ E \in Seq(Record) /\ r.decrypt_buffer \in Seq(Record)
      /\ r.sent_records \in Seq(Record) /\ r.recv_records \in Seq(Record)
      /\ r.encrypted_buffer \in Seq(Record) /\ r.decrypted_buffer \in Seq(Record)
  BY DEF RlType
<1>2. ops \in Seq(Record) /\ rest \in Seq(Record) /\ ops \o rest = r.decrypt_buffer
  BY Zenon, <1>1 DEF HelpersSound
<1>3. /\ q.role = r.role /\ q.started = r.started /\ q.sent = r.sent /\ q.recv = r.recv
      /\ q.write_seq = r.write_seq /\ q.read_seq = r.read_seq
      /\ q.encrypt_buffer = <<>> /\ q.decrypt_buffer = rest
      /\ q.encrypted_buffer = r.encrypted_buffer \o E
      /\ q.decrypted_buffer = r.decrypted_buffer \o ops
      /\ q.sent_records = r.sent_records \o E /\ q.recv_records = r.recv_records \o ops
  BY Zenon DEF flush, RlType
<1>4. q \in RlType
  <2> HIDE DEF ops, rest, E
  <2>1. /\ Bytes(ops) \in Nat /\ Blocks(ops) \in Nat /\ PrivateBytes(ops) \in Nat
        /\ Blocks(E) \in Nat
    BY Zenon, <1>1, <1>2 DEF HelpersSound
  <2>2. Len(ops) \in Nat /\ Len(E) \in Nat
    BY <1>1, <1>2
  <2>3. /\ r.recv_online \in Nat /\ r.enc_keystream \in Int /\ r.dec_keystream \in Int
        /\ r.enc_j0s \in Int /\ r.dec_j0s \in Int /\ r.recv_otp \in Int
    BY DEF RlType
  <2>4. PICK g \in Nat, h \in Int, i \in Int, j \in Int, k \in Int, l \in Int :
          /\ g = (IF dec THEN r.recv_online + Bytes(ops) ELSE r.recv_online)
          /\ h = r.enc_keystream - Blocks(E) /\ i = r.dec_keystream - Blocks(ops)
          /\ j = r.enc_j0s - Len(E) /\ k = r.dec_j0s - Len(ops)
          /\ l = (IF r.role = "Leader" THEN r.recv_otp - PrivateBytes(ops) ELSE r.recv_otp)
    <3>1. (IF dec THEN r.recv_online + Bytes(ops) ELSE r.recv_online) \in Nat
      BY <2>1, <2>3
    <3>2. r.enc_keystream - Blocks(E) \in Int /\ r.dec_keystream - Blocks(ops) \in Int
      BY <2>1, <2>3
    <3>3. r.enc_j0s - Len(E) \in Int /\ r.dec_j0s - Len(ops) \in Int
      BY <2>2, <2>3
    <3>4. (IF r.role = "Leader" THEN r.recv_otp - PrivateBytes(ops) ELSE r.recv_otp) \in Int
      BY <2>1, <2>3
    <3> QED
      BY <3>1, <3>2, <3>3, <3>4, Zenon
  <2>5. PICK a \in Seq(Record), b \in Seq(Record), c \in Seq(Record), d \in Seq(Record),
             e \in Seq(Record), f \in Seq(Record) :
          /\ a = <<>> /\ b = rest
          /\ c = r.encrypted_buffer \o E /\ d = r.sent_records \o E
          /\ e = r.decrypted_buffer \o ops /\ f = r.recv_records \o ops
    <3>1. /\ <<>> \in Seq(Record)
          /\ r.encrypted_buffer \o E \in Seq(Record) /\ r.sent_records \o E \in Seq(Record)
          /\ r.decrypted_buffer \o ops \in Seq(Record) /\ r.recv_records \o ops \in Seq(Record)
      BY <1>1, <1>2, RecordSequences
    <3> QED
      BY <3>1, <1>2, Zenon
  <2>6. q = [r EXCEPT !.encrypt_buffer = a, !.decrypt_buffer = b, !.recv_online = g,
                      !.enc_keystream = h, !.dec_keystream = i, !.enc_j0s = j, !.dec_j0s = k,
                      !.recv_otp = l, !.encrypted_buffer = c, !.sent_records = d,
                      !.decrypted_buffer = e, !.recv_records = f]
    BY <2>4, <2>5, Zenon DEF flush, ops, rest, E
  <2>7. [r EXCEPT !.encrypt_buffer = a, !.decrypt_buffer = b, !.recv_online = g,
                  !.enc_keystream = h, !.dec_keystream = i, !.enc_j0s = j, !.dec_j0s = k,
                  !.recv_otp = l, !.encrypted_buffer = c, !.sent_records = d,
                  !.decrypted_buffer = e, !.recv_records = f] \in RlType
    BY Zenon DEF RlType
  <2> QED
    BY <2>6, <2>7, Zenon
<1>5. Counted(q)
  <2> HIDE DEF q, ops, rest, E
  <2>1. Len(r.decrypt_buffer) = Len(ops) + Len(rest) /\ Len(<<>>) = 0
    BY Zenon, <1>2, RecordSequences
  <2>2. /\ Len(r.sent_records \o E) = Len(r.sent_records) + Len(E)
        /\ Len(r.recv_records \o ops) = Len(r.recv_records) + Len(ops)
        /\ Len(r.encrypted_buffer \o E) = Len(r.encrypted_buffer) + Len(E)
        /\ Len(r.decrypted_buffer \o ops) = Len(r.decrypted_buffer) + Len(ops)
    BY <1>1, <1>2, RecordSequences
  <2>3. /\ Len(ops) \in Nat /\ Len(E) \in Nat /\ Len(rest) \in Nat
        /\ Len(r.sent_records) \in Nat /\ Len(r.recv_records) \in Nat
        /\ Len(r.encrypted_buffer) \in Nat /\ Len(r.decrypted_buffer) \in Nat
    BY Zenon, <1>1, <1>2, LenNat
  <2>4. /\ r.write_seq = r.sent /\ r.sent = Len(r.sent_records) + Len(E)
        /\ r.read_seq = r.recv /\ r.recv = Len(r.recv_records) + Len(r.decrypt_buffer)
        /\ r.sent <= MaxSent /\ r.recv <= MaxRecv
        /\ Len(r.encrypted_buffer) <= Len(r.sent_records)
        /\ Len(r.decrypted_buffer) <= Len(r.recv_records)
    BY Zenon DEF Counted, E
  <2>5. /\ Len(q.sent_records) = Len(r.sent_records) + Len(E)
        /\ Len(q.recv_records) = Len(r.recv_records) + Len(ops)
        /\ Len(q.encrypted_buffer) = Len(r.encrypted_buffer) + Len(E)
        /\ Len(q.decrypted_buffer) = Len(r.decrypted_buffer) + Len(ops)
        /\ Len(q.encrypt_buffer) = 0 /\ Len(q.decrypt_buffer) = Len(rest)
        /\ q.sent = r.sent /\ q.recv = r.recv
        /\ q.write_seq = r.write_seq /\ q.read_seq = r.read_seq
    BY Zenon, <1>3, <2>1, <2>2
  <2>6. q.write_seq = q.sent /\ q.read_seq = q.recv /\ q.sent <= MaxSent /\ q.recv <= MaxRecv
    BY Zenon, <2>4, <2>5
  <2>7. /\ q.sent = Len(q.sent_records) + Len(q.encrypt_buffer)
        /\ q.recv = Len(q.recv_records) + Len(q.decrypt_buffer)
    <3>1. PICK a \in Nat, b \in Nat, c \in Nat :
            a = Len(r.recv_records) /\ b = Len(ops) /\ c = Len(rest)
      BY Zenon, <2>3
    <3>2. Len(r.recv_records) + (Len(ops) + Len(rest))
            = (Len(r.recv_records) + Len(ops)) + Len(rest)
      <4>1. a + (b + c) = (a + b) + c
        OBVIOUS
      <4> QED
        BY Zenon, <3>1, <4>1
    <3>3. \A m, n \in Nat : m + n = (m + n) + 0
      OBVIOUS
    <3>4. Len(r.sent_records) + Len(E) = (Len(r.sent_records) + Len(E)) + 0
      BY Zenon, <2>3, <3>3
    <3> QED
      BY Zenon, <2>1, <2>4, <2>5, <3>2, <3>4
  <2>8. /\ Len(q.encrypted_buffer) <= Len(q.sent_records)
        /\ Len(q.decrypted_buffer) <= Len(q.recv_records)
    BY ONLY <2>3, <2>4, <2>5
  <2> QED
    BY Zenon, <2>6, <2>7, <2>8 DEF Counted
<1> QED
  BY <1>2, <1>3, <1>4, <1>5
\* The commit hands out and records what was deferred.
LEMMA CommitLayer ==
    ASSUME HelpersSound, NEW r \in RlType, Counted(r)
    PROVE  LET q == commit(r)
           IN /\ q \in RlType /\ Counted(q) /\ q.role = r.role
              /\ q.started = r.started /\ q.sent = r.sent
              /\ q.encrypt_buffer = r.encrypt_buffer /\ q.decrypt_buffer = <<>>
              /\ q.decrypted_buffer = r.decrypted_buffer \o r.decrypt_buffer
              /\ q.sent_records = r.sent_records
              /\ q.recv_records = r.recv_records \o r.decrypt_buffer
<1> DEFINE q == commit(r)
           ops == r.decrypt_buffer
<1>1. /\ ops \in Seq(Record) /\ r.recv_records \in Seq(Record) /\ r.decrypted_buffer \in Seq(Record)
      /\ r.dec_keystream \in Int
  BY DEF RlType
<1>2. /\ q.role = r.role /\ q.started = r.started /\ q.sent = r.sent /\ q.recv = r.recv
      /\ q.write_seq = r.write_seq /\ q.read_seq = r.read_seq
      /\ q.encrypt_buffer = r.encrypt_buffer /\ q.decrypt_buffer = <<>>
      /\ q.encrypted_buffer = r.encrypted_buffer
      /\ q.decrypted_buffer = r.decrypted_buffer \o ops
      /\ q.sent_records = r.sent_records /\ q.recv_records = r.recv_records \o ops
  BY Zenon DEF commit, RlType
<1>3. q \in RlType
  <2>1. PublicBlocks(ops) \in Nat
    BY Zenon, <1>1 DEF HelpersSound
  <2> HIDE DEF ops
  <2>2. r.dec_keystream - PublicBlocks(ops) \in Int
    BY <1>1, <2>1
  <2>3. PICK a \in Seq(Record), e \in Seq(Record), f \in Seq(Record), k \in Int :
          /\ a = <<>> /\ e = r.decrypted_buffer \o ops /\ f = r.recv_records \o ops
          /\ k = r.dec_keystream - PublicBlocks(ops)
    <3>1. /\ <<>> \in Seq(Record) /\ r.decrypted_buffer \o ops \in Seq(Record)
          /\ r.recv_records \o ops \in Seq(Record)
      BY <1>1, RecordSequences
    <3> QED
      BY Zenon, <3>1, <2>2
  <2>4. q = [r EXCEPT !.state = "Complete", !.decrypt_buffer = a, !.dec_keystream = k,
                      !.decrypted_buffer = e, !.recv_records = f]
    BY <2>3, Zenon DEF commit, ops
  <2>5. [r EXCEPT !.state = "Complete", !.decrypt_buffer = a, !.dec_keystream = k,
                  !.decrypted_buffer = e, !.recv_records = f] \in RlType
    BY Zenon DEF RlType
  <2> QED
    BY Zenon, <2>4, <2>5
<1>4. Counted(q)
  <2> HIDE DEF q, ops
  <2>1. PICK a \in Nat, b \in Nat, c \in Nat :
          a = Len(r.recv_records) /\ b = Len(ops) /\ c = Len(r.decrypted_buffer)
    <3>1. Len(r.recv_records) \in Nat /\ Len(ops) \in Nat /\ Len(r.decrypted_buffer) \in Nat
      BY Zenon, <1>1, LenNat DEF ops
    <3> QED
      BY Zenon, <3>1
  <2>2. Len(q.recv_records) = a + b /\ Len(q.decrypted_buffer) = c + b /\ Len(q.decrypt_buffer) = 0
    <3>1. /\ Len(r.recv_records \o ops) = Len(r.recv_records) + Len(ops)
          /\ Len(r.decrypted_buffer \o ops) = Len(r.decrypted_buffer) + Len(ops)
          /\ Len(<<>>) = 0
      BY <1>1, RecordSequences DEF ops
    <3> QED
      BY Zenon, <1>2, <2>1, <3>1 DEF ops
  <2>3. c <= a => c + b <= a + b
    OBVIOUS
  <2>4. a + b = (a + b) + 0
    OBVIOUS
  <2>5. Counted(r)
    OBVIOUS
  <2> QED
    BY Zenon, <1>2, <2>1, <2>2, <2>3, <2>4, <2>5 DEF Counted, ops
<1> QED
  BY <1>2, <1>3, <1>4

\* Two record layers with the same base and the same queues have them after the
\* same flush or the commit.
LEMMA SameAfter ==
    ASSUME NEW r \in RlType, NEW s \in RlType, SameBase(r, s), NEW dec \in BOOLEAN,
           r.encrypt_buffer = s.encrypt_buffer, r.decrypt_buffer = s.decrypt_buffer
    PROVE  /\ SameBase(flush(r, dec), flush(s, dec))
           /\ SameBase(commit(r), commit(s))
           /\ DeferredOps(r, dec) = DeferredOps(s, dec)
<1>1. DecryptOps(r, dec) = DecryptOps(s, dec) /\ DeferredOps(r, dec) = DeferredOps(s, dec)
  BY Zenon DEF DecryptOps, DeferredOps
<1>2. SameBase(flush(r, dec), flush(s, dec))
  <2>1. ASSUME NEW x \in RlType
        PROVE  /\ flush(x, dec).state = x.state
               /\ flush(x, dec).recv_online =
                    IF dec THEN x.recv_online + Bytes(DecryptOps(x, dec)) ELSE x.recv_online
               /\ flush(x, dec).sent_records = x.sent_records \o x.encrypt_buffer
               /\ flush(x, dec).recv_records = x.recv_records \o DecryptOps(x, dec)
    BY Zenon DEF flush, RlType
  <2>2. ASSUME NEW x \in RlType
        PROVE  /\ flush(x, dec).enc_keystream = x.enc_keystream - Blocks(x.encrypt_buffer)
               /\ flush(x, dec).dec_keystream = x.dec_keystream - Blocks(DecryptOps(x, dec))
               /\ flush(x, dec).enc_j0s = x.enc_j0s - Len(x.encrypt_buffer)
               /\ flush(x, dec).dec_j0s = x.dec_j0s - Len(DecryptOps(x, dec))
    BY Zenon DEF flush, RlType
  <2>3. /\ flush(r, dec).state = flush(s, dec).state
        /\ flush(r, dec).recv_online = flush(s, dec).recv_online
        /\ flush(r, dec).sent_records = flush(s, dec).sent_records
        /\ flush(r, dec).recv_records = flush(s, dec).recv_records
    BY Zenon, <1>1, <2>1 DEF SameBase
  <2>4. /\ flush(r, dec).enc_keystream = flush(s, dec).enc_keystream
        /\ flush(r, dec).dec_keystream = flush(s, dec).dec_keystream
        /\ flush(r, dec).enc_j0s = flush(s, dec).enc_j0s
        /\ flush(r, dec).dec_j0s = flush(s, dec).dec_j0s
    BY Zenon, <1>1, <2>2 DEF SameBase
  <2> QED
    BY Zenon, <2>3, <2>4 DEF SameBase
<1>3. SameBase(commit(r), commit(s))
  BY Zenon DEF SameBase, commit, RlType
<1> QED
  BY <1>1, <1>2, <1>3
-----------------------------------------------------------------------------
(* The messages on their way. *)

\* A message takes a position to a position.
LEMMA HandledPosition ==
    ASSUME NEW m \in Message, NEW v \in Position, NEW s \in Nat, NEW r \in Nat
    PROVE  Handled(m, v, s, r) \in Position
<1>1. v.encrypt_buffer \in Seq(Record) /\ v.decrypt_buffer \in Seq(Record)
      /\ v.have \in SUBSET Everything
  BY DEF Position
<1>2. ASSUME m.kind = "Encrypt"
      PROVE  Append(v.encrypt_buffer, [seq |-> s + Len(v.encrypt_buffer), typ |-> m.typ,
                                       len |-> RecordLen, ok |-> TRUE]) \in Seq(Record)
  <2>1. m.typ \in ContentType
    BY <1>2 DEF Message, PlainKinds
  <2>2. s + Len(v.encrypt_buffer) \in Nat
    BY <1>1
  <2>3. [seq |-> s + Len(v.encrypt_buffer), typ |-> m.typ, len |-> RecordLen, ok |-> TRUE] \in Record
    BY Zenon, <2>1, <2>2, OneByte
  <2> QED
    BY Zenon, <1>1, <2>3, AppendRecord
<1>3. ASSUME m.kind = "Decrypt"
      PROVE  Append(v.decrypt_buffer, [seq |-> r + Len(v.decrypt_buffer), typ |-> m.typ,
                                       len |-> RecordLen, ok |-> m.ok]) \in Seq(Record)
  <2>1. m.typ \in ContentType /\ m.ok \in BOOLEAN
    BY <1>3 DEF Message, PlainKinds
  <2>2. r + Len(v.decrypt_buffer) \in Nat
    BY <1>1
  <2>3. [seq |-> r + Len(v.decrypt_buffer), typ |-> m.typ, len |-> RecordLen, ok |-> m.ok] \in Record
    BY Zenon, <2>1, <2>2, OneByte
  <2> QED
    BY Zenon, <1>1, <2>3, AppendRecord
<1>4. v.have \cup Tells(m.kind) \in SUBSET Everything
  BY <1>1 DEF Tells, Everything
<1> QED
  BY Zenon, <1>1, <1>2, <1>3, <1>4 DEF Handled, Position

\* No message leads nowhere.
LEMMA LeadsEmpty ==
    ASSUME NEW v \in Position, NEW w \in Position, NEW s, NEW r, NEW j
    PROVE  Leads(<<>>, v, w, s, r, j) <=> v = w
<1>1. ASSUME v = w PROVE Leads(<<>>, v, w, s, r, j)
  <2>1. /\ <<v>> \in Seq(Position) /\ Len(<<v>>) = 1 /\ Len(<<>>) = 0 /\ <<v>>[1] = v
        /\ 1..0 = {} /\ 0 + 1 = 1
    OBVIOUS
  <2> QED
    BY Zenon, <1>1, <2>1 DEF Leads
<1>2. ASSUME Leads(<<>>, v, w, s, r, j) PROVE v = w
  BY <1>2 DEF Leads
<1> QED
  BY <1>1, <1>2

\* A message sent leads on, to where its handler leads from there.
LEMMA LeadsAppend ==
    ASSUME NEW c \in Seq(Message), NEW v \in Position, NEW w \in Position,
           NEW s \in Nat, NEW r \in Nat, Leads(c, v, w, s, r, FALSE),
           NEW m \in Message, NEW j \in BOOLEAN, j \/ Quiet(m, w)
    PROVE  Leads(Append(c, m), v, Handled(m, w, s, r), s, r, j)
<1> DEFINE w2 == Handled(m, w, s, r)
           d == Append(c, m)
<1>1. w2 \in Position
  BY Zenon, HandledPosition
<1>2. PICK h \in Seq(Position) :
        /\ Len(h) = Len(c) + 1
        /\ h[1] = v /\ h[Len(h)] = w
        /\ \A k \in 1..Len(c) : h[k + 1] = Handled(c[k], h[k], s, r)
        /\ \A k \in 1..Len(c) : Quiet(c[k], h[k])
  BY Zenon DEF Leads
<1> DEFINE g == Append(h, w2)
<1> HIDE DEF w2
<1>3. /\ g \in Seq(Position) /\ Len(g) = Len(h) + 1 /\ Len(d) = Len(c) + 1
      /\ \A k \in 1..Len(h) : g[k] = h[k]
      /\ g[Len(g)] = w2 /\ \A k \in 1..Len(c) : d[k] = c[k]
      /\ d[Len(d)] = m
  BY <1>1, <1>2
<1>4. Len(c) \in Nat /\ Len(h) \in Nat
  OBVIOUS
<1> HIDE DEF g, d
<1>5. PICK n \in Nat : n = Len(c) /\ Len(h) = n + 1 /\ Len(d) = n + 1 /\ Len(g) = n + 2
  BY ONLY <1>2, <1>3, <1>4
<1>6. g[1] = v /\ Len(g) = Len(d) + 1
  BY <1>2, <1>3, <1>5
<1>7. ASSUME NEW k \in 1..Len(d)
      PROVE  /\ g[k + 1] = Handled(d[k], g[k], s, r)
             /\ k < Len(d) \/ ~j => Quiet(d[k], g[k])
  <2>1. CASE k \in 1..n
    <3>1. k \in 1..Len(c) /\ k \in 1..Len(h) /\ k + 1 \in 1..Len(h)
      BY <1>5, <2>1
    <3> QED
      BY Zenon, <1>2, <1>3, <3>1
  <2>2. CASE k = n + 1
    <3>1. k \in 1..Len(h) /\ k = Len(h) /\ k + 1 = Len(g) /\ k = Len(d) /\ ~(k < Len(d))
      BY <1>5, <2>2
    <3> QED
      BY Zenon, <1>2, <1>3, <3>1 DEF w2
  <2> QED
    BY <1>5, <2>1, <2>2
<1> QED
  BY Zenon, <1>3, <1>6, <1>7 DEF Leads, d, w2

\* The first message leads to where the others start.
LEMMA LeadsTake ==
    ASSUME NEW c \in Seq(Message), c # <<>>, NEW v \in Position, NEW w \in Position,
           NEW s \in Nat, NEW r \in Nat, NEW j \in BOOLEAN, Leads(c, v, w, s, r, j)
    PROVE  /\ Leads(Tail(c), Handled(Head(c), v, s, r), w, s, r, j)
           /\ Tail(c) # <<>> \/ ~j => Quiet(Head(c), v)
<1> DEFINE d == Tail(c)
<1>1. PICK h \in Seq(Position) :
        /\ Len(h) = Len(c) + 1
        /\ h[1] = v /\ h[Len(h)] = w
        /\ \A k \in 1..Len(c) : h[k + 1] = Handled(c[k], h[k], s, r)
        /\ \A k \in 1..Len(c) : k < Len(c) \/ ~j => Quiet(c[k], h[k])
  BY Zenon DEF Leads
<1> DEFINE g == Tail(h)
<1>2. /\ g \in Seq(Position) /\ Len(g) = Len(h) - 1 /\ Len(d) = Len(c) - 1
      /\ \A k \in 1..Len(g) : g[k] = h[k + 1]
      /\ \A k \in 1..Len(d) : d[k] = c[k + 1]
      /\ Head(c) = c[1] /\ Len(c) \in Nat /\ Len(c) > 0
      /\ Len(d) = 0 => d = <<>>
  BY <1>1
<1> HIDE DEF g, d
<1>3. PICK n \in Nat : Len(c) = n + 1 /\ Len(h) = n + 2 /\ Len(d) = n /\ Len(g) = n + 1
  <2>1. PICK n \in Nat : n = Len(c) - 1
    BY <1>2
  <2> QED
    BY <1>1, <1>2, <2>1
<1>4. 1 \in 1..Len(c) /\ 1 \in 1..Len(g) /\ 1 + 1 = 2 /\ Len(g) \in 1..Len(g) /\ Len(g) + 1 = Len(h)
      /\ Len(g) = Len(d) + 1
  BY <1>3
<1>5. g[1] = Handled(Head(c), v, s, r) /\ g[Len(g)] = w
  BY Zenon, <1>1, <1>2, <1>4
<1>6. ASSUME NEW k \in 1..Len(d)
      PROVE  /\ g[k + 1] = Handled(d[k], g[k], s, r)
             /\ k < Len(d) \/ ~j => Quiet(d[k], g[k])
  <2>1. /\ k \in 1..Len(g) /\ k + 1 \in 1..Len(g) /\ k + 1 \in 1..Len(c)
        /\ k < Len(d) => k + 1 < Len(c)
    BY <1>3
  <2> QED
    BY Zenon, <1>1, <1>2, <2>1
<1>7. ASSUME d # <<>> \/ ~j PROVE Quiet(Head(c), v)
  <2>1. d # <<>> => 1 < Len(c)
    BY <1>2, <1>3
  <2> QED
    BY Zenon, <1>1, <1>2, <1>4, <1>7, <2>1
<1>8. Leads(d, Handled(Head(c), v, s, r), w, s, r, j)
  <2> DEFINE u == Handled(Head(c), v, s, r)
  <2> HIDE DEF u
  <2>1. g[1] = u
    BY Zenon, <1>5 DEF u
  <2>2. Leads(d, u, w, s, r, j)
    <3>1. g \in Seq(Position) /\ Len(g) = Len(d) + 1 /\ g[1] = u /\ g[Len(g)] = w
      BY Zenon, <1>2, <1>4, <1>5, <2>1
    <3>2. \A k \in 1..Len(d) : g[k + 1] = Handled(d[k], g[k], s, r)
      BY Zenon, <1>6
    <3>3. \A k \in 1..Len(d) : k < Len(d) \/ ~j => Quiet(d[k], g[k])
      BY Zenon, <1>6
    <3> QED
      BY Zenon, <3>1, <3>2, <3>3 DEF Leads
  <2> QED
    BY Zenon, <2>2 DEF u
<1> QED
  BY Zenon, <1>7, <1>8 DEF d
-----------------------------------------------------------------------------
(* What the steps have in common. *)

\* The parts of the invariant in one party's record.
LEMMA Parts ==
    ASSUME Inv
    PROVE  /\ leader \in LeaderType /\ client \in ClientType /\ server \in ServerType
           /\ leader.rl \in RlType /\ Counted(leader.rl) /\ leader.rl.role = "Leader"
           /\ follower \in FollowerType /\ follower.rl \in RlType /\ Counted(follower.rl)
           /\ follower.rl.role = "Follower" /\ follower.have \in SUBSET Everything
           /\ chan \in Seq(Message)
           /\ client.frames \in Seq(Frame)
  BY Zenon DEF Inv, LeaderInv, FollowerInv, LeaderType, FollowerType, ClientType

\* A record layer and what was told make a position.
LEMMA IsPosition ==
    ASSUME NEW r \in RlType, NEW have \in SUBSET Everything
    PROVE  PositionOf(r, have) \in Position
  BY Zenon DEF PositionOf, Position, RlType

\* What the follower was told are values of the handshake.
LEMMA ToldType == Told \in SUBSET Everything
  BY DEF Told, Everything

\* An error on the leader's side ends the connection for the leader.
LEMMA FailStep ==
    ASSUME Inv, Fail, leader.state \notin {"Init", "Setup"}, server' = server,
           chan' \in Seq(Message), FollowerInv(follower'),
           follower'.state \notin {"Init", "Setup"}
    PROVE  Inv'
<1>1. leader \in LeaderType /\ client \in ClientType
  BY Zenon, Parts
<1>2. /\ NewRecordLayer("Leader") \in RlType /\ Counted(NewRecordLayer("Leader"))
      /\ NewRecordLayer("Leader").role = "Leader"
  BY Zenon, NewLayer
<1>3. leader' \in LeaderType /\ leader'.state = "Error" /\ leader'.join = "none"
      /\ leader'.rl = NewRecordLayer("Leader")
  BY Zenon, <1>1, <1>2 DEF Fail, LeaderType, Calls
<1>4. /\ client' \in ClientType /\ client'.pc = "failed"
      /\ client'.task = client.task /\ client'.hs = client.hs
  <2>1. <<>> \in Seq(Frame) /\ 0 \in Nat
    OBVIOUS
  <2> QED
    BY Zenon, <1>1, <2>1 DEF Fail, ClientType
<1>5. Phases'
  <2>1. client.task # "run" => client.hs = "Traffic"
    BY Zenon DEF Inv, LeaderInv, Phases
  <2> QED
    BY <1>3, <1>4, <2>1 DEF Phases
<1>6. FramesInOrder' /\ FinishedSeen'
  BY Zenon, <1>3 DEF FramesInOrder, FinishedSeen
<1>7. LeaderInv'
  <2>1. server \in ServerType
    BY Zenon, Parts
  <2> QED
    BY Zenon, <1>2, <1>3, <1>4, <1>5, <1>6, <2>1 DEF LeaderInv
<1>8. Pairing' /\ Synced'
  BY <1>3 DEF Pairing, Synced, Running
<1> QED
  BY Zenon, <1>7, <1>8 DEF Inv, FollowerInv

\* FollowerErr is a state of the follower.
LEMMA FollowerErrInv ==
    ASSUME follower \in FollowerType
    PROVE  FollowerInv(FollowerErr) /\ FollowerErr.state = "Error"
<1>1. /\ NewRecordLayer("Follower") \in RlType /\ Counted(NewRecordLayer("Follower"))
      /\ NewRecordLayer("Follower").role = "Follower"
  BY Zenon, NewLayer
<1>2. /\ FollowerErr \in FollowerType /\ FollowerErr.state = "Error" /\ FollowerErr.join = "none"
      /\ FollowerErr.rl = NewRecordLayer("Follower")
  BY Zenon, <1>1 DEF FollowerErr, FollowerType, Calls
<1> QED
  BY Zenon, <1>1, <1>2 DEF FollowerInv

\* An error on the follower's side ends the connection for the follower.
LEMMA FollowerErrStep ==
    ASSUME Inv, follower.state \notin {"Init", "Setup", "Done"}, follower' = FollowerErr,
           UNCHANGED <<leader, client, server>>, chan' \in Seq(Message)
    PROVE  Inv'
<1>1. FollowerInv(follower') /\ follower'.state = "Error"
  BY Zenon, Parts, FollowerErrInv
<1>2. LeaderInv'
  BY Zenon DEF Inv, LeaderInv, Phases, FramesInOrder, FinishedSeen, Passed, Greeted
<1>3. Pairing' /\ Synced'
  BY <1>1 DEF Inv, Pairing, Synced, Running
<1> QED
  BY Zenon, <1>1, <1>2, <1>3 DEF Inv, FollowerInv
\* There are three messages before the records.
LEMMA PassedType == Passed \in 0..3 /\ Greeted \in 0..3
  BY DEF Passed, Greeted

\* Steps that leave the frames.
LEMMA KeepFrames ==
    ASSUME LeaderInv, leader.state # "Error", client'.frames = client.frames, server' = server,
           Passed' = Passed
    PROVE  FramesInOrder'
  BY Zenon DEF LeaderInv, FramesInOrder, Greeted

\* Steps that take a frame.
LEMMA TakeFrame ==
    ASSUME LeaderInv, leader.state # "Error", client.frames # <<>>,
           client'.frames = Tail(client.frames), server' = server,
           Passed' = Passed + 1 \/ (Passed = 3 /\ Passed' = 3)
    PROVE  /\ FramesInOrder'
           /\ Passed = 3 => client.frames[1] \in RecordFrame
<1>1. client.frames \in Seq(Frame)
  BY Zenon DEF LeaderInv, ClientType
<1>2. /\ Len(client'.frames) = Len(client.frames) - 1 /\ Len(client.frames) \in Nat
      /\ Len(client.frames) > 0
      /\ \A i \in 1..Len(client'.frames) : client'.frames[i] = client.frames[i + 1]
  BY <1>1
<1>3. /\ server.next # "Records" => Len(client.frames) + Passed = Greeted
      /\ \A i \in 1..Len(client.frames) : i + Passed > 3 => client.frames[i] \in RecordFrame
  BY Zenon DEF LeaderInv, FramesInOrder
<1>4. Passed \in 0..3 /\ Greeted \in 0..3 /\ Greeted' = Greeted
  BY PassedType DEF Greeted
<1> DEFINE p == Passed
           g == Greeted
           n == Len(client.frames)
           pp == Passed'
<1> HIDE DEF p, g, n, pp
<1>5. /\ p \in 0..3 /\ g \in 0..3 /\ n \in Nat /\ n > 0 /\ Len(client'.frames) = n - 1
      /\ pp = p + 1 \/ (p = 3 /\ pp = 3)
      /\ server.next # "Records" => n + p = g
  BY Zenon, <1>2, <1>3, <1>4 DEF p, g, n, pp
<1>6. server.next # "Records" => (n - 1) + pp = g
  BY ONLY <1>5
<1>7. ASSUME NEW i \in 1..(n - 1), i + pp > 3 PROVE client'.frames[i] \in RecordFrame
  <2>1. i + 1 \in 1..n /\ i \in 1..(n - 1)
    BY <1>5
  <2>2. (i + 1) + p > 3
    BY <1>5, <1>7
  <2> QED
    BY Zenon, <1>2, <1>3, <1>5, <2>1, <2>2 DEF n, p
<1>8. p = 3 => client.frames[1] \in RecordFrame
  <2>1. 1 \in 1..n /\ (p = 3 => 1 + p > 3)
    BY <1>5
  <2> QED
    BY Zenon, <1>3, <2>1 DEF n, p
<1> QED
  BY Zenon, <1>4, <1>5, <1>6, <1>7, <1>8 DEF FramesInOrder, p, g, n, pp

\* Steps of one side that change nothing the other can tell.
LEMMA StaySynced ==
    ASSUME Inv, UNCHANGED <<follower, chan>>,
           Running' => Running,
           Running => /\ leader'.join = leader.join
                      /\ leader.join = "Flush" => leader'.is_decrypting = leader.is_decrypting
                      /\ SameBase(leader'.rl, leader.rl)
                      /\ leader'.rl.encrypt_buffer = leader.rl.encrypt_buffer
                      /\ leader'.rl.decrypt_buffer = leader.rl.decrypt_buffer
                      /\ Told' = Told
    PROVE  Synced'
<1> SUFFICES ASSUME Running' PROVE Meets' /\ (OnTheWay(leader.join # "none"))'
  BY Zenon DEF Synced
<1>1. Running
  OBVIOUS
<1>2. /\ Meets /\ SameBase(leader.rl, follower.rl)
      /\ Leads(chan, PositionOf(follower.rl, follower.have), PositionOf(leader.rl, Told),
               Len(leader.rl.sent_records), Len(leader.rl.recv_records), leader.join # "none")
  BY Zenon, <1>1 DEF Inv, Synced, OnTheWay
<1>3. PositionOf(leader'.rl, Told') = PositionOf(leader.rl, Told)
  BY Zenon, <1>1 DEF PositionOf
<1>4. /\ leader'.rl.sent_records = leader.rl.sent_records
      /\ leader'.rl.recv_records = leader.rl.recv_records
      /\ SameBase(leader'.rl, follower.rl)
  BY Zenon, <1>1, <1>2 DEF SameBase
<1>5. Meets'
  BY Zenon, <1>1, <1>2 DEF Meets, Announces
<1> QED
  BY Zenon, <1>1, <1>2, <1>3, <1>4, <1>5 DEF OnTheWay
\* A leader that waits for nothing, and parties in a computation, have only messages
\* without a computation on the way.
LEMMA InTouch ==
    ASSUME Inv, Running, leader.join = "none" \/ follower.join # "none"
    PROVE  /\ OnTheWay(FALSE)
           /\ follower.join = leader.join
           /\ leader.join # "none" =>
                /\ chan = <<>>
                /\ PositionOf(follower.rl, follower.have) = PositionOf(leader.rl, Told)
<1>1. Meets /\ OnTheWay(leader.join # "none")
  BY Zenon DEF Inv, Synced
<1>2. CASE leader.join = "none"
  <2>1. (leader.join # "none") = FALSE
    BY <1>2
  <2> QED
    BY Zenon, <1>1, <1>2, <2>1 DEF Meets, OnTheWay
<1>3. CASE leader.join # "none"
  <2>1. follower.join = leader.join /\ chan = <<>>
    BY Zenon, <1>1, <1>3 DEF Meets
  <2>2. /\ PositionOf(follower.rl, follower.have) \in Position
        /\ PositionOf(leader.rl, Told) \in Position
    BY Zenon, Parts, IsPosition, ToldType
  <2> DEFINE v == PositionOf(follower.rl, follower.have)
             w == PositionOf(leader.rl, Told)
             s == Len(leader.rl.sent_records)
             r == Len(leader.rl.recv_records)
  <2>3. \A j : OnTheWay(j) <=> SameBase(leader.rl, follower.rl) /\ Leads(<<>>, v, w, s, r, j)
    BY Zenon, <2>1 DEF OnTheWay
  <2>4. \A j : Leads(<<>>, v, w, s, r, j) <=> v = w
    <3> HIDE DEF v, w, s, r
    <3>1. v \in Position /\ w \in Position
      BY Zenon, <2>2 DEF v, w
    <3> QED
      BY Zenon, <3>1, LeadsEmpty
  <2> HIDE DEF v, w, s, r
  <2>5. OnTheWay(FALSE) /\ v = w
    BY Zenon, <1>1, <2>3, <2>4
  <2> QED
    BY Zenon, <2>1, <2>5 DEF v, w
<1> QED
  BY Zenon, <1>2, <1>3

\* The leader sends a message, alone or at the end of a computation.
LEMMA SendStep ==
    ASSUME leader.rl \in RlType, follower.rl \in RlType, follower.have \in SUBSET Everything,
           chan \in Seq(Message), OnTheWay(FALSE),
           NEW m \in Message, chan' = Append(chan, m),
           follower'.rl = follower.rl, follower'.have = follower.have,
           follower'.join = "none",
           SameBase(leader'.rl, leader.rl),
           PositionOf(leader'.rl, Told') =
              Handled(m, PositionOf(leader.rl, Told),
                      Len(leader.rl.sent_records), Len(leader.rl.recv_records)),
           \/ leader'.join = "none" /\ Quiet(m, PositionOf(leader.rl, Told))
           \/ leader'.join # "none" /\ Announces(m, leader.join)'
    PROVE  Synced' /\ chan' \in Seq(Message)
<1> DEFINE v == PositionOf(follower.rl, follower.have)
           w == PositionOf(leader.rl, Told)
           s == Len(leader.rl.sent_records)
           r == Len(leader.rl.recv_records)
           j == leader'.join # "none"
<1>1. v \in Position /\ w \in Position
  <2>1. Told \in SUBSET Everything
    BY Zenon, ToldType
  <2> QED
    BY Zenon, <2>1, IsPosition
<1>2. s \in Nat /\ r \in Nat
  <2>1. leader.rl.sent_records \in Seq(Record) /\ leader.rl.recv_records \in Seq(Record)
    BY Zenon DEF RlType
  <2> QED
    BY Zenon, <2>1, LenNat
<1>3. Leads(chan, v, w, s, r, FALSE) /\ SameBase(leader.rl, follower.rl)
  BY Zenon DEF OnTheWay
<1>4. /\ leader'.rl.sent_records = leader.rl.sent_records
      /\ leader'.rl.recv_records = leader.rl.recv_records
      /\ SameBase(leader'.rl, follower'.rl)
  BY Zenon, <1>3 DEF SameBase
<1>5. PositionOf(leader'.rl, Told') = Handled(m, w, s, r)
  OBVIOUS
<1>6. /\ chan' # <<>> /\ chan'[Len(chan')] = m /\ chan' \in Seq(Message)
  OBVIOUS
<1>7. Meets'
  BY Zenon, <1>6 DEF Meets
<1>8. PositionOf(follower'.rl, follower'.have) = v
  BY Zenon
<1> HIDE DEF v, w, s, r
<1>9. j \in BOOLEAN /\ (j \/ Quiet(m, w))
  BY DEF w
<1> HIDE DEF j
<1>10. Leads(chan', v, Handled(m, w, s, r), s, r, j)
  BY Zenon, <1>1, <1>2, <1>3, <1>9, LeadsAppend
<1>11. (OnTheWay(leader.join # "none"))'
  BY Zenon, <1>4, <1>5, <1>8, <1>10 DEF OnTheWay, s, r, j
<1> QED
  BY Zenon, <1>6, <1>7, <1>11 DEF Synced
\* What a flush has to do depends on the queues.
LEMMA SameOps ==
    ASSUME NEW r, NEW s, r.encrypt_buffer = s.encrypt_buffer, r.decrypt_buffer = s.decrypt_buffer,
           NEW dec
    PROVE  HasOps(r, dec) = HasOps(s, dec)
  BY Zenon DEF HasOps, DecryptOps

\* A flush finds at a position what it finds in a record layer that is there.
LEMMA PositionOps ==
    ASSUME NEW r, NEW have, NEW dec
    PROVE  HasOps(PositionOf(r, have), dec) = HasOps(r, dec)
<1>1. /\ PositionOf(r, have).encrypt_buffer = r.encrypt_buffer
      /\ PositionOf(r, have).decrypt_buffer = r.decrypt_buffer
  BY DEF PositionOf
<1> QED
  BY Zenon, <1>1, SameOps

\* The computation a message announces.
JoinOf(kind) ==
    CASE kind = "SetServerKey" -> "Setup"
      [] kind = "ClientFinishedVd" -> "CfVd"
      [] kind = "ServerFinishedVd" -> "SfVd"
      [] kind = "Flush" -> "Flush"
      [] kind = "CloseConnection" -> "Commit"
      [] OTHER -> "none"

\* The last message.
LEMMA LastMessage ==
    ASSUME NEW c \in Seq(Message), c # <<>>
    PROVE  /\ Tail(c) = <<>> => c[Len(c)] = Head(c)
           /\ Tail(c) # <<>> => Tail(c)[Len(Tail(c))] = c[Len(c)]
  OBVIOUS

\* The follower handles a message.
LEMMA TakeStep ==
    ASSUME Inv, NEW kind, Receive(kind), FollowerInv(follower'), follower'.state = "Ready",
           SameBase(follower'.rl, follower.rl),
           PositionOf(follower'.rl, follower'.have) =
              Handled(Head(chan), PositionOf(follower.rl, follower.have),
                      Len(follower.rl.sent_records), Len(follower.rl.recv_records)),
           follower'.join = IF Quiet(Head(chan), PositionOf(follower.rl, follower.have))
                            THEN "none" ELSE JoinOf(Head(chan).kind),
           follower'.join = "Flush" => follower'.dec = Head(chan).is_decrypting
    PROVE  Inv'
<1>1. /\ follower.state = "Ready" /\ follower.join = "none" /\ chan # <<>> /\ chan' = Tail(chan)
      /\ leader' = leader /\ client' = client /\ server' = server
  BY Zenon DEF Receive
<1>2. chan \in Seq(Message) /\ chan' \in Seq(Message) /\ Head(chan) \in Message
  <2>1. chan \in Seq(Message)
    BY Zenon, Parts
  <2> QED
    BY <1>1, <2>1
<1>3. LeaderInv'
  BY Zenon, <1>1 DEF Inv, LeaderInv, Phases, FramesInOrder, FinishedSeen, Passed, Greeted
<1>4. Pairing'
  BY <1>1 DEF Inv, Pairing
<1>5. Synced'
  <2> SUFFICES ASSUME Running' PROVE Meets' /\ (OnTheWay(leader.join # "none"))'
    BY Zenon DEF Synced
  <2>1. Running
    BY Zenon, <1>1 DEF Running
  <2>2. Meets /\ OnTheWay(leader.join # "none")
    BY Zenon, <2>1 DEF Inv, Synced
  <2> DEFINE v == PositionOf(follower.rl, follower.have)
             w == PositionOf(leader.rl, Told)
             s == Len(leader.rl.sent_records)
             r == Len(leader.rl.recv_records)
             j == leader.join # "none"
             m == Head(chan)
  <2>3. v \in Position /\ w \in Position
    BY Zenon, Parts, IsPosition, ToldType
  <2>4. s \in Nat /\ r \in Nat
    <3>1. leader.rl.sent_records \in Seq(Record) /\ leader.rl.recv_records \in Seq(Record)
      BY Zenon, Parts DEF RlType
    <3> QED
      BY Zenon, <3>1, LenNat
  <2>5. Leads(chan, v, w, s, r, j) /\ SameBase(leader.rl, follower.rl)
    BY Zenon, <2>2 DEF OnTheWay
  <2>6. /\ s = Len(follower.rl.sent_records) /\ r = Len(follower.rl.recv_records)
        /\ SameBase(leader.rl, follower'.rl)
    BY Zenon, <2>5 DEF SameBase
  <2>7. Told' = Told /\ j \in BOOLEAN
    BY Zenon, <1>1 DEF Told
  <2>8. PositionOf(follower'.rl, follower'.have) = Handled(m, v, s, r)
    BY Zenon, <2>6
  <2> HIDE DEF v, w, s, r, j
  <2>9. Leads(Tail(chan), Handled(m, v, s, r), w, s, r, j) /\ (Tail(chan) # <<>> \/ ~j => Quiet(m, v))
    BY Zenon, <1>1, <1>2, <2>3, <2>4, <2>5, <2>7, LeadsTake
  <2>10. (OnTheWay(leader.join # "none"))'
    BY Zenon, <1>1, <2>6, <2>7, <2>8, <2>9 DEF OnTheWay, w, s, r, j
  <2>11. follower'.join = IF Quiet(m, v) THEN "none" ELSE JoinOf(m.kind)
    BY Zenon DEF v
  <2>12. CASE Quiet(m, v)
    <3>1. follower'.join = "none"
      BY Zenon, <2>11, <2>12
    <3>2. CASE leader.join = "none"
      BY Zenon, <1>1, <2>10, <3>1, <3>2 DEF Meets
    <3>3. CASE leader.join # "none"
      <4>1. Announces(chan[Len(chan)], leader.join)
        BY Zenon, <1>1, <2>2, <3>3 DEF Meets
      <4>2. Tail(chan) # <<>>
        <5> SUFFICES ASSUME Tail(chan) = <<>> PROVE FALSE
          OBVIOUS
        <5>1. chan[Len(chan)] = m
          BY Zenon, <1>1, <1>2, LastMessage
        <5>2. Handled(m, v, s, r) = w
          <6>1. Handled(m, v, s, r) \in Position
            BY Zenon, <1>2, <2>3, <2>4, HandledPosition
          <6>2. Leads(<<>>, Handled(m, v, s, r), w, s, r, j)
            BY Zenon, <2>9
          <6> DEFINE u == Handled(m, v, s, r)
          <6> HIDE DEF u
          <6>3. u \in Position /\ Leads(<<>>, u, w, s, r, j)
            BY Zenon, <6>1, <6>2 DEF u
          <6>4. u = w
            BY Zenon, <2>3, <6>3, LeadsEmpty
          <6> QED
            BY Zenon, <6>4 DEF u
        <5>3. m.kind = "Flush" /\ leader.join = "Flush" /\ m.is_decrypting = leader.is_decrypting
          BY Zenon, <2>12, <4>1, <5>1 DEF Quiet, Announces
        <5>4. w.encrypt_buffer = v.encrypt_buffer /\ w.decrypt_buffer = v.decrypt_buffer
          BY <5>2, <5>3 DEF Handled
        <5>5. HasOps(leader.rl, leader.is_decrypting)
          BY Zenon, <5>3 DEF Inv, LeaderInv, Phases
        <5>6. HasOps(w, leader.is_decrypting)
          BY Zenon, <5>5, PositionOps DEF w
        <5>7. HasOps(v, leader.is_decrypting)
          BY Zenon, <5>4, <5>6, SameOps
        <5> QED
          BY Zenon, <2>12, <5>3, <5>7 DEF Quiet
      <4>3. chan'[Len(chan')] = chan[Len(chan)]
        BY Zenon, <1>1, <1>2, <4>2, LastMessage
      <4> QED
        BY Zenon, <1>1, <2>10, <3>1, <3>3, <4>1, <4>2, <4>3 DEF Meets, Announces
    <3> QED
      BY Zenon, <3>2, <3>3, <2>10
  <2>13. CASE ~Quiet(m, v)
    <3>1. follower'.join = JoinOf(m.kind) /\ Tail(chan) = <<>> /\ leader.join # "none"
      BY Zenon, <2>9, <2>11, <2>13 DEF j
    <3>2. Announces(chan[Len(chan)], leader.join)
      BY Zenon, <1>1, <2>2, <3>1 DEF Meets
    <3>3. chan[Len(chan)] = m
      BY Zenon, <1>1, <1>2, <3>1, LastMessage
    <3>4. Announces(m, leader.join)
      BY Zenon, <3>2, <3>3
    <3>5. JoinOf(m.kind) = leader.join /\ (leader.join = "Flush" => m.is_decrypting = leader.is_decrypting)
      <4> HIDE DEF m
      <4> QED
        BY ONLY <3>4 DEF Announces, JoinOf
    <3> QED
      BY Zenon, <1>1, <2>10, <3>1, <3>5 DEF Meets
  <2> QED
    BY Zenon, <2>12, <2>13
<1> QED
  BY Zenon, <1>2, <1>3, <1>4, <1>5 DEF Inv, FollowerInv
-----------------------------------------------------------------------------
(* What the messages stand for at a party that handles them. *)

\* A message without contents leaves the queues alone.
LEMMA PlainHandled ==
    ASSUME NEW m, m.kind \notin {"Encrypt", "Decrypt"}, NEW q, NEW r, NEW have, NEW s, NEW n,
           q.encrypt_buffer = r.encrypt_buffer, q.decrypt_buffer = r.decrypt_buffer
    PROVE  PositionOf(q, have \cup Tells(m.kind)) = Handled(m, PositionOf(r, have), s, n)
<1>1. /\ PositionOf(r, have).encrypt_buffer = r.encrypt_buffer
      /\ PositionOf(r, have).decrypt_buffer = r.decrypt_buffer
      /\ PositionOf(r, have).have = have
  BY DEF PositionOf
<1> QED
  BY Zenon, <1>1 DEF Handled, PositionOf

\* An Encrypt message queues the record push_encrypt queues.
LEMMA EncryptHandled ==
    ASSUME NEW typ \in ContentType, NEW r \in RlType, Counted(r), CanPushEncrypt(r, RecordLen)
    PROVE  \A m, have, n :
             m.kind = "Encrypt" /\ m.typ = typ =>
               PositionOf(push_encrypt(r, typ, RecordLen), have)
                 = Handled(m, PositionOf(r, have), Len(r.sent_records), n)
<1> DEFINE q == push_encrypt(r, typ, RecordLen)
<1> SUFFICES ASSUME NEW m, NEW have, NEW n, m.kind = "Encrypt", m.typ = typ
             PROVE  PositionOf(q, have) = Handled(m, PositionOf(r, have), Len(r.sent_records), n)
  BY Zenon
<1>1. /\ q.decrypt_buffer = r.decrypt_buffer
      /\ q.encrypt_buffer = Append(r.encrypt_buffer,
                          [seq |-> Len(r.sent_records) + Len(r.encrypt_buffer), typ |-> m.typ,
                           len |-> RecordLen, ok |-> TRUE])
  BY Zenon, PushEncryptLayer
<1> HIDE DEF q
<1>2. /\ PositionOf(r, have).encrypt_buffer = r.encrypt_buffer
      /\ PositionOf(r, have).decrypt_buffer = r.decrypt_buffer
      /\ PositionOf(r, have).have = have
  BY DEF PositionOf
<1>3. have \cup Tells(m.kind) = have /\ m.kind # "Decrypt"
  BY DEF Tells
<1> QED
  BY Zenon, <1>1, <1>2, <1>3 DEF Handled, PositionOf

\* A Decrypt message queues the record push_decrypt queues.
LEMMA DecryptHandled ==
    ASSUME NEW typ \in ContentType, NEW ok \in BOOLEAN,
           NEW r \in RlType, Counted(r), CanPushDecrypt(r, RecordLen)
    PROVE  \A m, have, n :
             m.kind = "Decrypt" /\ m.typ = typ /\ m.ok = ok =>
               PositionOf(push_decrypt(r, typ, RecordLen, ok), have)
                 = Handled(m, PositionOf(r, have), n, Len(r.recv_records))
<1> DEFINE q == push_decrypt(r, typ, RecordLen, ok)
<1> SUFFICES ASSUME NEW m, NEW have, NEW n, m.kind = "Decrypt", m.typ = typ, m.ok = ok
             PROVE  PositionOf(q, have) = Handled(m, PositionOf(r, have), n, Len(r.recv_records))
  BY Zenon
<1>1. /\ q.encrypt_buffer = r.encrypt_buffer
      /\ q.decrypt_buffer = Append(r.decrypt_buffer,
                          [seq |-> Len(r.recv_records) + Len(r.decrypt_buffer), typ |-> m.typ,
                           len |-> RecordLen, ok |-> m.ok])
  BY Zenon, PushDecryptLayer
<1> HIDE DEF q
<1>2. /\ PositionOf(r, have).encrypt_buffer = r.encrypt_buffer
      /\ PositionOf(r, have).decrypt_buffer = r.decrypt_buffer
      /\ PositionOf(r, have).have = have
  BY DEF PositionOf
<1>3. have \cup Tells(m.kind) = have /\ m.kind # "Encrypt"
  BY DEF Tells
<1> QED
  BY Zenon, <1>1, <1>2, <1>3 DEF Handled, PositionOf

-----------------------------------------------------------------------------
(* The follower's handlers. *)

\* What Receive says, and the handlers that fail.
LEMMA Received ==
    ASSUME Inv, NEW kind, Receive(kind)
    PROVE  /\ chan \in Seq(Message) /\ chan' \in Seq(Message) /\ Head(chan) \in Message
           /\ Head(chan).kind = kind
           /\ follower.state = "Ready" /\ follower.join = "none"
           /\ follower \in FollowerType /\ follower.rl \in RlType /\ Counted(follower.rl)
           /\ follower.rl.role = "Follower" /\ follower.have \in SUBSET Everything
           /\ follower' = FollowerErr => Inv'
<1>1. /\ follower.state = "Ready" /\ follower.join = "none" /\ chan # <<>> /\ chan' = Tail(chan)
      /\ leader' = leader /\ client' = client /\ server' = server /\ Head(chan).kind = kind
  BY Zenon DEF Receive
<1>2. /\ follower \in FollowerType /\ follower.rl \in RlType /\ Counted(follower.rl)
      /\ follower.rl.role = "Follower" /\ follower.have \in SUBSET Everything
      /\ chan \in Seq(Message)
  BY Zenon, Parts
<1>3. chan' \in Seq(Message) /\ Head(chan) \in Message
  BY <1>1, <1>2
<1>4. ASSUME follower' = FollowerErr PROVE Inv'
  <2>1. follower.state \notin {"Init", "Setup", "Done"}
    BY <1>1
  <2> QED
    BY Zenon, <1>1, <1>3, <1>4, <2>1, FollowerErrStep
<1> QED
  BY Zenon, <1>1, <1>2, <1>3, <1>4

\* A handler that keeps a value, and one that goes on with a computation.
LEMMA ValueStep ==
    ASSUME Inv, NEW kind, NEW value, NEW op \in Calls \ {"Preprocess"}, Receive(kind),
           kind \notin {"Encrypt", "Decrypt", "Flush"}, Tells(kind) = {value},
           op = JoinOf(kind),
           kind \in {"SetServerKey", "ClientFinishedVd", "ServerFinishedVd", "CloseConnection"}
             <=> op # "none",
           follower' = [follower EXCEPT !.have = @ \cup {value}, !.join = op]
    PROVE  Inv'
<1>1. /\ Head(chan).kind = kind
      /\ follower.state = "Ready" /\ follower.join = "none"
      /\ follower \in FollowerType /\ follower.rl \in RlType /\ Counted(follower.rl)
      /\ follower.rl.role = "Follower" /\ follower.have \in SUBSET Everything
  BY Zenon, Received
<1>2. {value} \subseteq Everything
  BY DEF Tells, Everything
<1>3. /\ follower' \in FollowerType /\ follower'.state = "Ready" /\ follower'.join = op
      /\ follower'.rl = follower.rl /\ follower'.have = follower.have \cup Tells(Head(chan).kind)
  BY Zenon, <1>1, <1>2 DEF FollowerType
<1>4. FollowerInv(follower')
  BY <1>1, <1>3 DEF FollowerInv
<1>5. PositionOf(follower'.rl, follower'.have) =
        Handled(Head(chan), PositionOf(follower.rl, follower.have),
                Len(follower.rl.sent_records), Len(follower.rl.recv_records))
  <2>1. Head(chan).kind \notin {"Encrypt", "Decrypt"}
    BY <1>1
  <2> DEFINE m == Head(chan)
             r == follower.rl
             h == follower.have
             s == Len(follower.rl.sent_records)
             n == Len(follower.rl.recv_records)
  <2>2. PositionOf(r, h \cup Tells(m.kind)) = Handled(m, PositionOf(r, h), s, n)
    <3> HIDE DEF m, r, h, s, n
    <3>1. m.kind \notin {"Encrypt", "Decrypt"}
      BY <2>1 DEF m
    <3> QED
      BY ONLY <3>1, PlainHandled
  <2> QED
    BY Zenon, <1>3, <2>2
<1>6. Quiet(Head(chan), PositionOf(follower.rl, follower.have)) <=> op = "none"
  BY Zenon, <1>1 DEF Quiet
<1>7. SameBase(follower'.rl, follower.rl)
  BY Zenon, <1>3 DEF SameBase
<1>8. op # "Flush"
  BY DEF JoinOf
<1> QED
  BY Zenon, <1>1, <1>3, <1>4, <1>5, <1>6, <1>7, <1>8, TakeStep
\* The handlers of the values: a second one is refused.
LEMMA FollowerValues ==
    ASSUME Inv,
           \/ FollowerSetClientRandom \/ FollowerSetServerRandom \/ FollowerStartHandshake
           \/ FollowerSetServerKey \/ FollowerClientFinishedVd \/ FollowerServerFinishedVd
    PROVE  Inv'
<1>1. ASSUME NEW kind, NEW value, SetOnce(kind, value), Tells(kind) = {value},
             kind \in {"SetClientRandom", "SetServerRandom", "StartHandshake"}
      PROVE  Inv'
  <2>1. CASE follower' = FollowerErr
    BY Zenon, <1>1, <2>1, Received DEF SetOnce
  <2>2. CASE follower' = [follower EXCEPT !.have = @ \cup {value}]
    <3>1. follower.join = "none" /\ follower \in FollowerType
      BY Zenon, <1>1, Received DEF SetOnce
    <3>2. follower' = [follower EXCEPT !.have = @ \cup {value}, !.join = "none"]
      BY Zenon, <2>2, <3>1 DEF FollowerType
    <3>3. /\ "none" \in Calls \ {"Preprocess"} /\ "none" = JoinOf(kind)
          /\ kind \notin {"Encrypt", "Decrypt", "Flush"}
          /\ kind \in {"SetServerKey", "ClientFinishedVd", "ServerFinishedVd", "CloseConnection"}
               <=> "none" # "none"
      BY <1>1 DEF Calls, JoinOf
    <3>4. Receive(kind)
      BY Zenon, <1>1 DEF SetOnce
    <3> QED
      BY Zenon, <1>1, <3>2, <3>3, <3>4, ValueStep
  <2> QED
    BY Zenon, <1>1, <2>1, <2>2 DEF SetOnce
<1>2. ASSUME NEW kind, NEW value, NEW op, JoinOnce(kind, value, op), Tells(kind) = {value},
             kind \in {"SetServerKey", "ClientFinishedVd", "ServerFinishedVd"}, op = JoinOf(kind)
      PROVE  Inv'
  <2>1. CASE follower' = FollowerErr
    BY Zenon, <1>2, <2>1, Received DEF JoinOnce
  <2>2. CASE follower' = [follower EXCEPT !.have = @ \cup {value}, !.join = op]
    <3>1. /\ op \in Calls \ {"Preprocess"} /\ op # "none"
          /\ kind \notin {"Encrypt", "Decrypt", "Flush"}
          /\ kind \in {"SetServerKey", "ClientFinishedVd", "ServerFinishedVd", "CloseConnection"}
      BY <1>2 DEF Calls, JoinOf
    <3>2. Receive(kind)
      BY Zenon, <1>2 DEF JoinOnce
    <3> QED
      BY Zenon, <1>2, <2>2, <3>1, <3>2, ValueStep
  <2> QED
    BY Zenon, <1>2, <2>1, <2>2 DEF JoinOnce
<1>3. /\ Tells("SetClientRandom") = {"client_random"} /\ Tells("SetServerRandom") = {"server_random"}
      /\ Tells("StartHandshake") = {"time"} /\ Tells("SetServerKey") = {"server_key"}
      /\ Tells("ClientFinishedVd") = {"cf_vd"} /\ Tells("ServerFinishedVd") = {"sf_vd"}
      /\ JoinOf("SetServerKey") = "Setup" /\ JoinOf("ClientFinishedVd") = "CfVd"
      /\ JoinOf("ServerFinishedVd") = "SfVd"
  BY DEF Tells, JoinOf
<1>4. CASE FollowerSetClientRandom
  BY Zenon, <1>1, <1>3, <1>4 DEF FollowerSetClientRandom
<1>5. CASE FollowerSetServerRandom
  BY Zenon, <1>1, <1>3, <1>5 DEF FollowerSetServerRandom
<1>6. CASE FollowerStartHandshake
  <2>1. CASE SetOnce("StartHandshake", "time")
    BY Zenon, <1>1, <1>3, <2>1
  <2>2. CASE Receive("StartHandshake") /\ follower' = FollowerErr
    BY Zenon, <2>2, Received
  <2> QED
    BY Zenon, <1>6, <2>1, <2>2 DEF FollowerStartHandshake
<1>7. CASE FollowerSetServerKey
  BY Zenon, <1>2, <1>3, <1>7 DEF FollowerSetServerKey
<1>8. CASE FollowerClientFinishedVd
  BY Zenon, <1>2, <1>3, <1>8 DEF FollowerClientFinishedVd
<1>9. CASE FollowerServerFinishedVd
  BY Zenon, <1>2, <1>3, <1>9 DEF FollowerServerFinishedVd
<1> QED
  BY Zenon, <1>4, <1>5, <1>6, <1>7, <1>8, <1>9

\* A handler that changes the record layer.
LEMMA RlStep ==
    ASSUME Inv, NEW kind \in {"Encrypt", "Decrypt", "StartTraffic"}, Receive(kind),
           NEW q \in RlType, Counted(q), q.role = follower.rl.role, SameBase(q, follower.rl),
           follower' = [follower EXCEPT !.rl = q],
           PositionOf(q, follower.have) =
             Handled(Head(chan), PositionOf(follower.rl, follower.have),
                     Len(follower.rl.sent_records), Len(follower.rl.recv_records))
    PROVE  Inv'
<1> DEFINE m == Head(chan)
           r == follower.rl
<1>1. /\ m.kind = kind /\ follower.state = "Ready" /\ follower.join = "none"
      /\ follower \in FollowerType /\ r.role = "Follower"
  BY Zenon, Received
<1>2. /\ follower' \in FollowerType /\ follower'.state = "Ready" /\ follower'.join = "none"
      /\ follower'.rl = q /\ follower'.have = follower.have
  BY Zenon, <1>1 DEF FollowerType
<1>3. FollowerInv(follower')
  BY <1>1, <1>2 DEF FollowerInv
<1>4. Quiet(m, PositionOf(r, follower.have))
  BY <1>1 DEF Quiet
<1>5. "none" # "Flush"
  OBVIOUS
<1> QED
  BY Zenon, <1>1, <1>2, <1>3, <1>4, <1>5, TakeStep

\* The handlers that queue a record, and the start of the traffic.
LEMMA FollowerRecords ==
    ASSUME Inv, FollowerEncrypt \/ FollowerDecrypt \/ FollowerStartTraffic
    PROVE  Inv'
<1> DEFINE m == Head(chan)
           r == follower.rl
<1>2. CASE FollowerEncrypt
  <2>1. Receive("Encrypt") /\ r \in RlType /\ Counted(r) /\ m.kind = "Encrypt" /\ m \in Message
    BY Zenon, <1>2, Received DEF FollowerEncrypt
  <2>2. m.typ \in ContentType
    BY <2>1 DEF Message, PlainKinds
  <2>3. CASE CanPushEncrypt(r, RecordLen)
    <3> DEFINE q == push_encrypt(r, m.typ, RecordLen)
    <3>1. follower' = [follower EXCEPT !.rl = q]
      BY Zenon, <1>2, <2>3 DEF FollowerEncrypt
    <3>2. q \in RlType /\ Counted(q) /\ q.role = r.role /\ SameBase(q, r)
      BY Zenon, <2>1, <2>2, <2>3, PushEncryptLayer
    <3>3. PositionOf(q, follower.have) =
            Handled(m, PositionOf(r, follower.have), Len(r.sent_records), Len(r.recv_records))
      <4> DEFINE h == follower.have
                 n == Len(r.sent_records)
                 k == Len(r.recv_records)
      <4> HIDE DEF m, r, h
      <4>1. \A x, y, z : x.kind = "Encrypt" /\ x.typ = m.typ =>
               PositionOf(q, y) = Handled(x, PositionOf(r, y), n, z)
        BY Zenon, <2>1, <2>2, <2>3, EncryptHandled
      <4>2. PositionOf(q, h) = Handled(m, PositionOf(r, h), n, k)
        BY Zenon, <2>1, <4>1
      <4> QED
        BY Zenon, <4>2 DEF h
    <3> HIDE DEF q
    <3> QED
      BY Zenon, <2>1, <3>1, <3>2, <3>3, RlStep
  <2>4. CASE ~CanPushEncrypt(r, RecordLen)
    BY Zenon, <1>2, <2>1, <2>4, Received DEF FollowerEncrypt
  <2> QED
    BY Zenon, <2>3, <2>4
<1>3. CASE FollowerDecrypt
  <2>1. Receive("Decrypt") /\ r \in RlType /\ Counted(r) /\ m.kind = "Decrypt" /\ m \in Message
    BY Zenon, <1>3, Received DEF FollowerDecrypt
  <2>2. m.typ \in ContentType /\ m.ok \in BOOLEAN
    BY <2>1 DEF Message, PlainKinds
  <2>3. CASE CanPushDecrypt(r, RecordLen)
    <3> DEFINE q == push_decrypt(r, m.typ, RecordLen, m.ok)
    <3>1. follower' = [follower EXCEPT !.rl = q]
      BY Zenon, <1>3, <2>3 DEF FollowerDecrypt
    <3>2. q \in RlType /\ Counted(q) /\ q.role = r.role /\ SameBase(q, r)
      BY Zenon, <2>1, <2>2, <2>3, PushDecryptLayer
    <3>3. PositionOf(q, follower.have) =
            Handled(m, PositionOf(r, follower.have), Len(r.sent_records), Len(r.recv_records))
      <4> DEFINE h == follower.have
                 n == Len(r.sent_records)
                 k == Len(r.recv_records)
      <4> HIDE DEF m, r, h
      <4>1. \A x, y, z : x.kind = "Decrypt" /\ x.typ = m.typ /\ x.ok = m.ok =>
               PositionOf(q, y) = Handled(x, PositionOf(r, y), z, k)
        BY Zenon, <2>1, <2>2, <2>3, DecryptHandled
      <4>2. PositionOf(q, h) = Handled(m, PositionOf(r, h), n, k)
        BY Zenon, <2>1, <4>1
      <4> QED
        BY Zenon, <4>2 DEF h
    <3> HIDE DEF q
    <3> QED
      BY Zenon, <2>1, <3>1, <3>2, <3>3, RlStep
  <2>4. CASE ~CanPushDecrypt(r, RecordLen)
    BY Zenon, <1>3, <2>1, <2>4, Received DEF FollowerDecrypt
  <2> QED
    BY Zenon, <2>3, <2>4
<1>4. CASE FollowerStartTraffic
  <2>1. Receive("StartTraffic") /\ r \in RlType /\ Counted(r) /\ m.kind = "StartTraffic"
    BY Zenon, <1>4, Received DEF FollowerStartTraffic
  <2> DEFINE q == start_traffic(r)
  <2>2. follower' = [follower EXCEPT !.rl = q]
    BY Zenon, <1>4 DEF FollowerStartTraffic
  <2>3. /\ q \in RlType /\ Counted(q) /\ q.role = r.role /\ SameBase(q, r)
        /\ q.encrypt_buffer = r.encrypt_buffer /\ q.decrypt_buffer = r.decrypt_buffer
    BY Zenon, <2>1, StartLayer
  <2> HIDE DEF q
  <2>4. PositionOf(q, follower.have) =
          Handled(m, PositionOf(r, follower.have), Len(r.sent_records), Len(r.recv_records))
    <3> DEFINE h == follower.have
               n == Len(r.sent_records)
               k == Len(r.recv_records)
    <3> HIDE DEF m, r, h, n, k
    <3>1. m.kind \notin {"Encrypt", "Decrypt"} /\ h \cup Tells(m.kind) = h
      BY <2>1 DEF Tells
    <3>2. PositionOf(q, h \cup Tells(m.kind)) = Handled(m, PositionOf(r, h), n, k)
      BY ONLY <2>3, <3>1, PlainHandled
    <3> QED
      BY Zenon, <3>1, <3>2 DEF h, n, k
  <2> QED
    BY Zenon, <2>1, <2>2, <2>3, <2>4, RlStep
<1> QED
  BY Zenon, <1>2, <1>3, <1>4
\* The handlers that enter a computation without a value.
LEMMA FollowerJoins ==
    ASSUME Inv, FollowerFlush \/ FollowerCloseConnection
    PROVE  Inv'
<1> DEFINE m == Head(chan)
           v == PositionOf(follower.rl, follower.have)
<1>1. ASSUME NEW kind \in {"Flush", "CloseConnection"}, Receive(kind),
             follower' \in FollowerType, follower'.state = "Ready",
             follower'.rl = follower.rl, follower'.have = follower.have,
             follower'.join = IF Quiet(m, v) THEN "none" ELSE JoinOf(kind),
             follower'.join = "Flush" => follower'.dec = m.is_decrypting
      PROVE  Inv'
  <2>1. m.kind = kind /\ Counted(follower.rl) /\ follower.rl.role = "Follower"
    BY Zenon, <1>1, Received
  <2>2. FollowerInv(follower')
    <3>1. JoinOf(kind) # "Preprocess" /\ follower'.join # "Preprocess"
      BY <1>1 DEF JoinOf
    <3> QED
      BY <1>1, <2>1, <3>1 DEF FollowerInv
  <2>3. SameBase(follower'.rl, follower.rl)
    BY Zenon, <1>1 DEF SameBase
  <2>4. PositionOf(follower'.rl, follower'.have) =
          Handled(m, v, Len(follower.rl.sent_records), Len(follower.rl.recv_records))
    <3> DEFINE h == follower.have
               r == follower.rl
               n == Len(r.sent_records)
               k == Len(r.recv_records)
    <3> HIDE DEF m, h, n, k, r
    <3>1. m.kind \notin {"Encrypt", "Decrypt"} /\ h \cup Tells(m.kind) = h
      BY <1>1, <2>1 DEF Tells
    <3>2. PositionOf(r, h \cup Tells(m.kind)) = Handled(m, PositionOf(r, h), n, k)
      BY ONLY <3>1, PlainHandled
    <3> QED
      BY Zenon, <1>1, <3>1, <3>2 DEF h, n, k, r
  <2> QED
    BY Zenon, <1>1, <2>1, <2>2, <2>3, <2>4, TakeStep
<1>2. CASE FollowerFlush
  <2>1. /\ Receive("Flush") /\ m.kind = "Flush" /\ m \in Message /\ follower \in FollowerType
        /\ follower.state = "Ready" /\ follower.join = "none"
    BY Zenon, <1>2, Received DEF FollowerFlush
  <2>2. m.is_decrypting \in BOOLEAN
    BY <2>1 DEF Message, PlainKinds
  <2>3. Quiet(m, v) <=> ~HasOps(follower.rl, m.is_decrypting)
    <3>1. HasOps(v, m.is_decrypting) = HasOps(follower.rl, m.is_decrypting)
      BY Zenon, PositionOps
    <3>2. m.kind \notin {"SetServerKey", "ClientFinishedVd", "ServerFinishedVd", "CloseConnection"}
      BY <2>1
    <3> QED
      BY Zenon, <2>1, <3>1, <3>2 DEF Quiet
  <2>4. JoinOf("Flush") = "Flush" /\ "none" # "Flush"
    BY DEF JoinOf
  <2>5. CASE ~HasOps(follower.rl, m.is_decrypting)
    <3>1. follower' = follower
      BY Zenon, <1>2, <2>5 DEF FollowerFlush
    <3> QED
      BY Zenon, <1>1, <2>1, <2>3, <2>4, <2>5, <3>1
  <2>6. CASE HasOps(follower.rl, m.is_decrypting) /\ FlushStarts(follower.rl, m.is_decrypting)
    <3>1. follower' = [follower EXCEPT !.join = "Flush", !.dec = m.is_decrypting]
      BY Zenon, <1>2, <2>6 DEF FollowerFlush
    <3>2. /\ follower' \in FollowerType /\ follower'.state = "Ready"
          /\ follower'.rl = follower.rl /\ follower'.have = follower.have
          /\ follower'.join = "Flush" /\ follower'.dec = m.is_decrypting
      BY Zenon, <2>1, <2>2, <3>1 DEF FollowerType, Calls
    <3> QED
      BY Zenon, <1>1, <2>1, <2>3, <2>4, <2>6, <3>2
  <2>7. CASE HasOps(follower.rl, m.is_decrypting) /\ ~FlushStarts(follower.rl, m.is_decrypting)
    <3>1. follower' = FollowerErr
      BY Zenon, <1>2, <2>7 DEF FollowerFlush
    <3> QED
      BY Zenon, <2>1, <3>1, Received
  <2> QED
    BY Zenon, <2>5, <2>6, <2>7
<1>3. CASE FollowerCloseConnection
  <2>1. /\ Receive("CloseConnection") /\ m.kind = "CloseConnection" /\ follower \in FollowerType
        /\ follower.state = "Ready"
    BY Zenon, <1>3, Received DEF FollowerCloseConnection
  <2>2. CASE follower.rl.encrypt_buffer = <<>>
    <3>1. follower' = [follower EXCEPT !.join = "Commit"]
      BY Zenon, <1>3, <2>2 DEF FollowerCloseConnection
    <3>2. /\ follower' \in FollowerType /\ follower'.state = "Ready"
          /\ follower'.rl = follower.rl /\ follower'.have = follower.have
          /\ follower'.join = "Commit"
      BY Zenon, <2>1, <3>1 DEF FollowerType, Calls
    <3>3. ~Quiet(m, v)
      BY Zenon, <2>1 DEF Quiet
    <3>4. JoinOf("CloseConnection") = "Commit" /\ "Commit" # "Flush"
      BY DEF JoinOf
    <3> QED
      BY Zenon, <1>1, <2>1, <3>2, <3>3, <3>4
  <2>3. CASE follower.rl.encrypt_buffer # <<>>
    <3>1. follower' = FollowerErr
      BY Zenon, <1>3, <2>3 DEF FollowerCloseConnection
    <3> QED
      BY Zenon, <2>1, <3>1, Received
  <2> QED
    BY Zenon, <2>2, <2>3
<1> QED
  BY Zenon, <1>2, <1>3
\* The set-up of each party.
LEMMA AllocSteps ==
    ASSUME Inv, LeaderAlloc \/ FollowerAlloc
    PROVE  Inv'
<1>1. ASSUME NEW role \in {"Leader", "Follower"}
      PROVE  LET q == alloc(NewRecordLayer(role))
             IN q \in RlType /\ Counted(q) /\ q.role = role
  BY Zenon, <1>1, NewLayer, AllocLayer
<1>2. CASE LeaderAlloc
  <2>1. /\ leader.state = "Init" /\ UNCHANGED <<follower, chan, client, server>>
        /\ leader' = [leader EXCEPT !.state = "Setup", !.rl = alloc(@), !.join = "Preprocess"]
    BY Zenon, <1>2 DEF LeaderAlloc
  <2>2. /\ Fresh(leader, "Leader") /\ Fresh(follower, "Follower") /\ follower.have = {}
        /\ chan = <<>> /\ follower.state \in {"Init", "Setup"}
    BY <2>1 DEF Inv, Pairing
  <2>3. leader.rl = NewRecordLayer("Leader")
    BY <2>1, <2>2 DEF Fresh
  <2>4. leader \in LeaderType /\ client \in ClientType /\ server \in ServerType
    BY Zenon, Parts
  <2>5. /\ leader' \in LeaderType /\ leader'.state = "Setup" /\ leader'.join = "Preprocess"
        /\ leader'.rl = alloc(NewRecordLayer("Leader"))
    BY Zenon, <1>1, <2>1, <2>3, <2>4 DEF LeaderType, Calls
  <2>6. Phases'
    BY <2>1, <2>5 DEF Inv, LeaderInv, Phases
  <2>7. FramesInOrder'
    <3>1. client.pc = "off" /\ client.hs = "ServerHello"
      BY <2>1 DEF Inv, LeaderInv, Phases
    <3>2. Passed' = Passed /\ client'.frames = client.frames /\ leader.state # "Error"
      BY <2>1, <3>1 DEF Passed
    <3> QED
      BY Zenon, <2>1, <3>2, KeepFrames DEF Inv
  <2>8. FinishedSeen'
    <3>1. client.pc = "off" /\ client.hs = "ServerHello"
      BY <2>1 DEF Inv, LeaderInv, Phases
    <3> QED
      BY <2>1, <2>5, <3>1 DEF FinishedSeen
  <2>9. LeaderInv'
    BY Zenon, <1>1, <2>1, <2>4, <2>5, <2>6, <2>7, <2>8 DEF LeaderInv
  <2>10. Pairing' /\ Synced'
    BY <2>1, <2>2, <2>5 DEF Pairing, Fresh, Synced, Running
  <2> QED
    BY Zenon, <2>1, <2>9, <2>10 DEF Inv
<1>3. CASE FollowerAlloc
  <2>1. /\ follower.state = "Init" /\ UNCHANGED <<leader, chan, client, server>>
        /\ follower' = [follower EXCEPT !.state = "Setup", !.rl = alloc(@), !.join = "Preprocess"]
    BY Zenon, <1>3 DEF FollowerAlloc
  <2>2. leader.state \in {"Init", "Setup"}
    BY <2>1 DEF Inv, Pairing
  <2>3. /\ Fresh(leader, "Leader") /\ Fresh(follower, "Follower") /\ follower.have = {}
        /\ chan = <<>>
    BY <2>2 DEF Inv, Pairing
  <2>4. follower.rl = NewRecordLayer("Follower") /\ follower \in FollowerType
    BY <2>1, <2>3, Parts DEF Fresh
  <2>5. /\ follower' \in FollowerType /\ follower'.state = "Setup" /\ follower'.join = "Preprocess"
        /\ follower'.rl = alloc(NewRecordLayer("Follower")) /\ follower'.have = follower.have
    BY Zenon, <1>1, <2>1, <2>4 DEF FollowerType, Calls
  <2>6. FollowerInv(follower')
    BY <1>1, <2>5 DEF FollowerInv
  <2>7. LeaderInv'
    BY Zenon, <2>1 DEF Inv, LeaderInv, Phases, FramesInOrder, FinishedSeen, Passed, Greeted
  <2>8. Pairing' /\ Synced'
    BY <2>1, <2>2, <2>3, <2>5 DEF Pairing, Fresh, Synced, Running
  <2> QED
    BY Zenon, <2>1, <2>6, <2>7, <2>8 DEF Inv, FollowerInv
<1> QED
  BY Zenon, <1>2, <1>3

\* The leader is gone.
LEMMA FollowerGoneStep ==
    ASSUME Inv, FollowerPeerGone
    PROVE  Inv'
<1>1. follower.state \notin {"Init", "Setup", "Done"}
  BY DEF FollowerPeerGone, Inv, Pairing
<1>2. /\ follower' = FollowerErr /\ chan' = chan
      /\ UNCHANGED <<leader, client, server>>
  BY Zenon DEF FollowerPeerGone
<1>3. chan' \in Seq(Message)
  BY Zenon, <1>2, Parts
<1> QED
  BY Zenon, <1>1, <1>2, <1>3, FollowerErrStep

\* Every step of the follower keeps the invariant.
LEMMA FollowerSteps ==
    ASSUME Inv, FollowerNext
    PROVE  Inv'
  BY Zenon, AllocSteps, FollowerValues, FollowerRecords, FollowerJoins, FollowerGoneStep
     DEF FollowerNext
=============================================================================
