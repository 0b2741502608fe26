----------------------- MODULE MpcTlsPropertyProofs -----------------------
(***************************************************************************)
(* The invariant behind the application's stream, with the proof that      *)
(* every step keeps it, and what the two invariants say of the parties.    *)
(***************************************************************************)
EXTENDS MpcTlsFollowerProofs

-----------------------------------------------------------------------------
(* The inductive invariant: the application's stream. *)

\* Records of the transcript that the TLS client has taken.
Taken == Len(leader.rl.recv_records) - Len(leader.rl.decrypted_buffer)

\* What is still to be taken is the end of the transcript, and the application
\* data before it was received.
Delivered ==
    leader.state # "Error" =>
        /\ \A i \in 1..Len(leader.rl.decrypted_buffer) :
             leader.rl.decrypted_buffer[i] = leader.rl.recv_records[Taken + i]
        /\ client.received = AppSeqs(SubSeq(leader.rl.recv_records, 1, Taken))
        /\ client.pc = "done" => leader.rl.decrypted_buffer = <<>> /\ ~client.unread

\* Nothing is private before the server's Finished message was checked.
NothingEarly ==
    /\ client.hs = "Traffic" \/ leader.rl.started \/ client.received # <<>> => leader.sf_vd
    /\ ~leader.sf_vd =>
         \A records \in {leader.rl.encrypt_buffer, leader.rl.sent_records} :
            \A i \in 1..Len(records) : ~Private(records[i])

\* Nothing in the decrypt buffer can be decrypted before the next frame.
Settled == DecryptOps(leader.rl, leader.is_decrypting) = <<>>

\* The TLS client is past the frames loop of a pass, or before that of a later pass.
FramesHandled ==
    \/ client.pc \in {"incoming", "traffic"} \/ leader.join = "Flush"
    \/ client.pass = 2 /\ client.pc \in {"start", "frames"}

\* Once a pass has come to its flush the frames have been handled, and when it has
\* flushed so have the records that can be decrypted.  The passes after the first
\* find neither frames nor records.
PassesSettle ==
    /\ leader.state \in {"Handshake", "Active"} /\ FramesHandled => client.frames = <<>>
    /\ leader.join \in {"Setup", "CfVd", "SfVd"} \/ client.pc = "traffic" => client.pass = 1
    /\ leader.state = "Active" =>
         /\ client.pc \in {"incoming", "traffic"} => Settled
         /\ client.pass = 2 /\ client.pc \in {"start", "frames", "incoming"} =>
              Settled /\ ~CanTakeDecrypted(leader.rl)
         /\ client.pass = 2 /\ client.pc = "incoming" => leader.rl.encrypt_buffer = <<>>

StreamInv == Delivered /\ NothingEarly /\ PassesSettle

\* What is needed of AppSeqs and of a flush.  MpcTlsProofs shows it; it is a hypothesis
\* here for the reason that HelpersSound is one.
StreamHelpers ==
    /\ AppSeqs(<<>>) = <<>>
    /\ \A s \in Seq(Record), e \in Record :
         AppSeqs(Append(s, e)) = IF Private(e) THEN Append(AppSeqs(s), e.seq) ELSE AppSeqs(s)
    /\ \A r : \A dec \in BOOLEAN :
         r.decrypt_buffer \in Seq(Record) /\ r.decrypt_buffer = <<>> => DecryptOps(r, dec) = <<>>
    /\ \A r, q : \A dec \in BOOLEAN :
         r.decrypt_buffer \in Seq(Record) /\ q.decrypt_buffer = DeferredOps(r, dec) =>
            DecryptOps(q, dec) = <<>>

-----------------------------------------------------------------------------
(* What the steps have in common. *)

\* The records that wait for the TLS client are as many as there are at the end of the
\* transcript.
LEMMA TakenType ==
    ASSUME Inv
    PROVE  /\ leader.rl.recv_records \in Seq(Record) /\ leader.rl.decrypted_buffer \in Seq(Record)
           /\ Taken \in 0..Len(leader.rl.recv_records)
           /\ Taken + Len(leader.rl.decrypted_buffer) = Len(leader.rl.recv_records)
<1>1. leader.rl \in RlType /\ Counted(leader.rl)
  BY Zenon, Parts
<1>2. leader.rl.recv_records \in Seq(Record) /\ leader.rl.decrypted_buffer \in Seq(Record)
  BY Zenon, <1>1 DEF RlType
<1>3. PICK a \in Nat, b \in Nat : a = Len(leader.rl.recv_records) /\ b = Len(leader.rl.decrypted_buffer)
  BY Zenon, <1>2, LenNat
<1>4. b <= a /\ Taken = a - b
  BY Zenon, <1>1, <1>3 DEF Counted, Taken
<1>5. b <= a => a - b \in 0..a /\ (a - b) + b = a
  OBVIOUS
<1> QED
  BY Zenon, <1>2, <1>3, <1>4, <1>5

\* Steps that take no record and end no computation.
LEMMA KeepDelivered ==
    ASSUME Delivered, leader.state = "Error" => leader'.state = "Error",
           leader'.rl.recv_records = leader.rl.recv_records,
           leader'.rl.decrypted_buffer = leader.rl.decrypted_buffer,
           client'.received = client.received,
           client'.pc = "done" => leader.rl.decrypted_buffer = <<>> /\ ~client'.unread
    PROVE  Delivered'
  BY Zenon DEF Delivered, Taken

\* The computations that record more.
LEMMA MoreDelivered ==
    ASSUME Inv, Delivered, leader.state # "Error", NEW ops \in Seq(Record),
           leader'.rl.recv_records = leader.rl.recv_records \o ops,
           leader'.rl.decrypted_buffer = leader.rl.decrypted_buffer \o ops,
           client'.received = client.received,
           client'.pc = "done" => leader'.rl.decrypted_buffer = <<>> /\ ~client'.unread
    PROVE  Delivered'
<1> DEFINE R == leader.rl.recv_records
           d == leader.rl.decrypted_buffer
<1>1. /\ R \in Seq(Record) /\ d \in Seq(Record) /\ Taken \in 0..Len(R)
      /\ Taken + Len(d) = Len(R)
  BY Zenon, TakenType
<1>2. /\ \A i \in 1..Len(d) : d[i] = R[Taken + i]
      /\ client.received = AppSeqs(SubSeq(R, 1, Taken))
  BY Zenon DEF Delivered
<1> DEFINE t == Taken
<1> HIDE DEF R, d, t
<1>3. Taken' = t
  <2>1. Len(R \o ops) - Len(d \o ops) = t
    BY ONLY <1>1, ops \in Seq(Record) DEF t
  <2> QED
    BY Zenon, <2>1 DEF Taken, R, d
<1>4. \A i \in 1..Len(d \o ops) : (d \o ops)[i] = (R \o ops)[t + i]
  <2> SUFFICES ASSUME NEW i \in 1..Len(d \o ops) PROVE (d \o ops)[i] = (R \o ops)[t + i]
    BY Zenon
  <2>1. t \in 0..Len(R) /\ t + Len(d) = Len(R) /\ R \in Seq(Record) /\ d \in Seq(Record)
    BY Zenon, <1>1 DEF t
  <2>2. \A k \in 1..Len(d) : d[k] = R[t + k]
    BY Zenon, <1>2 DEF t
  <2>3. CASE i \in 1..Len(d)
    BY ONLY <2>1, <2>2, <2>3, ops \in Seq(Record)
  <2>4. CASE i \notin 1..Len(d)
    BY ONLY <2>1, <2>4, ops \in Seq(Record), i \in 1..Len(d \o ops)
  <2> QED
    BY Zenon, <2>3, <2>4
<1>5. SubSeq(R \o ops, 1, t) = SubSeq(R, 1, t)
  BY <1>1 DEF t
<1>6. client'.received = AppSeqs(SubSeq(R \o ops, 1, t))
  BY Zenon, <1>2, <1>5 DEF t
<1> QED
  BY Zenon, <1>3, <1>4, <1>6 DEF Delivered, R, d

\* The TLS client takes a record.
LEMMA TakeDelivered ==
    ASSUME StreamHelpers, Inv, Delivered, leader.state # "Error",
           leader.rl.decrypted_buffer # <<>>,
           leader'.rl.recv_records = leader.rl.recv_records,
           leader'.rl.decrypted_buffer = Tail(leader.rl.decrypted_buffer),
           client'.received = IF Private(Head(leader.rl.decrypted_buffer))
                              THEN Append(client.received, Head(leader.rl.decrypted_buffer).seq)
                              ELSE client.received,
           client'.pc # "done"
    PROVE  Delivered'
<1> DEFINE R == leader.rl.recv_records
           d == leader.rl.decrypted_buffer
           t == Taken
<1>1. /\ R \in Seq(Record) /\ d \in Seq(Record) /\ t \in 0..Len(R)
      /\ t + Len(d) = Len(R) /\ d # <<>>
  BY Zenon, TakenType
<1>2. /\ \A i \in 1..Len(d) : d[i] = R[t + i]
      /\ client.received = AppSeqs(SubSeq(R, 1, t))
  BY Zenon DEF Delivered
<1>3. client'.received = IF Private(Head(d)) THEN Append(client.received, Head(d).seq)
                         ELSE client.received
  BY Zenon
<1>4. Taken' = Len(R) - Len(Tail(d))
  BY Zenon DEF Taken
<1> HIDE DEF R, d, t
<1>5. Taken' = t + 1 /\ Head(d) = d[1] /\ Len(d) >= 1
  BY <1>1, <1>4
<1>6. \A i \in 1..Len(Tail(d)) : Tail(d)[i] = R[t + 1 + i]
  BY <1>1, <1>2
<1>7. /\ SubSeq(R, 1, t) \in Seq(Record) /\ Head(d) \in Record
      /\ SubSeq(R, 1, t + 1) = Append(SubSeq(R, 1, t), Head(d))
  <2>1. Head(d) = R[t + 1] /\ t + 1 \in 1..Len(R)
    BY <1>1, <1>2, <1>5
  <2> QED
    BY <1>1, <2>1
<1>8. client'.received = AppSeqs(SubSeq(R, 1, t + 1))
  BY Zenon, <1>2, <1>3, <1>7 DEF StreamHelpers
<1> QED
  BY Zenon, <1>5, <1>6, <1>8 DEF Delivered, R, d

\* Steps that send no application data before the server's Finished was checked.
LEMMA KeepEarly ==
    ASSUME NothingEarly, leader'.sf_vd = leader.sf_vd,
           client'.hs = "Traffic" => client.hs = "Traffic",
           leader'.rl.started = leader.rl.started, client'.received = client.received,
           leader'.rl.encrypt_buffer = leader.rl.encrypt_buffer,
           leader'.rl.sent_records = leader.rl.sent_records
    PROVE  NothingEarly'
  BY Zenon DEF NothingEarly

\* Steps that queue a record.
LEMMA PushEarly ==
    ASSUME Inv, NothingEarly, leader'.sf_vd = leader.sf_vd \/ leader'.sf_vd = TRUE,
           client'.hs = "Traffic" => client.hs = "Traffic",
           leader'.rl.started = leader.rl.started,
           client'.received # <<>> => client.received # <<>> \/ leader.sf_vd,
           NEW e \in Record, Private(e) => leader.sf_vd,
           leader'.rl.encrypt_buffer = Append(leader.rl.encrypt_buffer, e),
           leader'.rl.sent_records = leader.rl.sent_records
    PROVE  NothingEarly'
<1>1. leader.rl.encrypt_buffer \in Seq(Record)
  BY Zenon, Parts DEF RlType
<1>2. \A i \in 1..Len(Append(leader.rl.encrypt_buffer, e)) :
         Append(leader.rl.encrypt_buffer, e)[i] = e
         \/ \E k \in 1..Len(leader.rl.encrypt_buffer) :
              Append(leader.rl.encrypt_buffer, e)[i] = leader.rl.encrypt_buffer[k]
  <2> DEFINE b == leader.rl.encrypt_buffer
  <2> HIDE DEF b
  <2> QED
    BY <1>1 DEF b
<1>3. ~leader'.sf_vd => ~leader.sf_vd
  BY Zenon
<1>4. (client.hs = "Traffic" \/ leader.rl.started \/ client.received # <<>> => leader.sf_vd)'
  <2>1. client.hs = "Traffic" \/ leader.rl.started \/ client.received # <<>> => leader.sf_vd
    BY Zenon DEF NothingEarly
  <2>2. leader.sf_vd => leader'.sf_vd
    BY Zenon
  <2> QED
    BY Zenon, <2>1, <2>2
<1>5. ASSUME ~leader'.sf_vd
      PROVE  /\ \A i \in 1..Len(leader'.rl.encrypt_buffer) : ~Private(leader'.rl.encrypt_buffer[i])
             /\ \A i \in 1..Len(leader'.rl.sent_records) : ~Private(leader'.rl.sent_records[i])
  <2>1. /\ \A i \in 1..Len(leader.rl.encrypt_buffer) : ~Private(leader.rl.encrypt_buffer[i])
        /\ \A i \in 1..Len(leader.rl.sent_records) : ~Private(leader.rl.sent_records[i])
    BY Zenon, <1>3, <1>5 DEF NothingEarly
  <2>2. ~Private(e)
    BY Zenon, <1>3, <1>5
  <2>3. \A i \in 1..Len(Append(leader.rl.encrypt_buffer, e)) :
           ~Private(Append(leader.rl.encrypt_buffer, e)[i])
    BY Zenon, <1>2, <2>1, <2>2
  <2> QED
    BY Zenon, <2>1, <2>3
<1> QED
  BY Zenon, <1>4, <1>5 DEF NothingEarly

-----------------------------------------------------------------------------
(* Steps that leave the records alone. *)

\* The leader's record layer stays.
LEMMA SameLayer ==
    ASSUME Inv, Delivered, NothingEarly, leader'.rl = leader.rl, leader'.sf_vd = leader.sf_vd,
           leader.state = "Error" => leader'.state = "Error",
           client'.received = client.received,
           client'.hs = "Traffic" => client.hs = "Traffic",
           client'.pc = "done" =>
              \/ client.pc = "done" /\ (client'.unread = client.unread \/ ~client'.unread)
              \/ leader.rl.decrypted_buffer = <<>> /\ ~client'.unread
    PROVE  Delivered' /\ NothingEarly'
<1>1. client.pc = "done" => leader.rl.decrypted_buffer = <<>> /\ ~client.unread
  <2>1. client.pc = "done" => leader.state = "Closed"
    BY Zenon DEF Inv, LeaderInv, Phases
  <2> QED
    BY <2>1 DEF Delivered
<1>2. Delivered'
  BY Zenon, <1>1, KeepDelivered
<1>3. NothingEarly'
  BY Zenon, KeepEarly
<1> QED
  BY Zenon, <1>2, <1>3

\* The follower, the application and the end of the server's stream.
LEMMA StreamOutside ==
    ASSUME Inv, StreamInv, leader' = leader,
           client'.pc = client.pc, client'.pass = client.pass, client'.frames = client.frames,
           client'.hs = client.hs, client'.received = client.received,
           client'.unread = client.unread \/ ~client'.unread
    PROVE  StreamInv'
<1>1. Delivered' /\ NothingEarly'
  BY Zenon, SameLayer DEF StreamInv
<1>2. PassesSettle'
  BY Zenon DEF StreamInv, PassesSettle, FramesHandled, Settled
<1> QED
  BY Zenon, <1>1, <1>2 DEF StreamInv

\* The follower's steps do not touch the leader or its TLS client.
LEMMA StreamFollower ==
    ASSUME Inv, StreamInv, FollowerNext \/ ServerClose \/ Terminated \/ UNCHANGED vars
    PROVE  StreamInv'
<1>1. leader' = leader /\ client' = client
  <2>1. CASE FollowerNext
    BY Zenon, <2>1 DEF FollowerNext, FollowerAlloc, FollowerSetClientRandom,
       FollowerSetServerRandom, FollowerStartHandshake, FollowerSetServerKey,
       FollowerClientFinishedVd, FollowerServerFinishedVd, FollowerEncrypt, FollowerDecrypt,
       FollowerStartTraffic, FollowerFlush, FollowerCloseConnection, FollowerPeerGone,
       Receive, SetOnce, JoinOnce
  <2> QED
    BY Zenon, <2>1 DEF ServerClose, Terminated, vars
<1> QED
  BY Zenon, <1>1, StreamOutside

\* The application writes, reads, closes or switches decryption between two runs.
LEMMA StreamApp ==
    ASSUME Inv, StreamInv, AppWrite \/ AppRead \/ AppClose \/ SetDecrypt
    PROVE  StreamInv'
<1>1. client \in ClientType /\ leader' = leader
  BY Zenon, Parts DEF AppWrite, AppRead, AppClose, SetDecrypt
<1>2. /\ client'.pc = client.pc /\ client'.pass = client.pass /\ client'.frames = client.frames
      /\ client'.hs = client.hs /\ client'.received = client.received
      /\ client'.unread = client.unread \/ ~client'.unread
  BY Zenon, <1>1 DEF AppWrite, AppRead, AppClose, SetDecrypt, ClientType
<1> QED
  BY Zenon, <1>1, <1>2, StreamOutside

\* A frame arrives between two runs, when no pass is under way.
LEMMA StreamServer ==
    ASSUME Inv, StreamInv, ServerSend
    PROVE  StreamInv'
<1>1. PICK frame : /\ client.pc = "active" /\ leader' = leader
                   /\ client' = [client EXCEPT !.frames = Append(@, frame)]
  BY Zenon DEF ServerSend, ReadFrame
<1>2. client \in ClientType /\ Phases
  BY Zenon, Parts DEF Inv, LeaderInv
<1>3. /\ client'.pc = "active" /\ client'.pass = client.pass /\ client'.hs = client.hs
      /\ client'.received = client.received
  BY Zenon, <1>1, <1>2 DEF ClientType
<1>4. Delivered' /\ NothingEarly'
  <2>1. client'.pc # "done"
    BY <1>3
  <2> QED
    BY Zenon, <1>1, <1>3, <2>1, SameLayer DEF StreamInv
<1>5. leader.join \notin {"Setup", "CfVd", "SfVd", "Flush"}
  BY <1>1, <1>2 DEF Phases
<1>6. PassesSettle'
  BY <1>1, <1>3, <1>5 DEF PassesSettle, FramesHandled
<1> QED
  BY Zenon, <1>4, <1>6 DEF StreamInv

\* The leader fails.
LEMMA StreamFails ==
    ASSUME Inv, StreamInv, Fail
    PROVE  StreamInv'
<1>1. leader \in LeaderType /\ client \in ClientType
  BY Zenon, Parts
<1>2. /\ leader'.state = "Error" /\ leader'.join = "none" /\ leader'.sf_vd = leader.sf_vd
      /\ leader'.rl = NewRecordLayer("Leader")
      /\ client'.pc = "failed" /\ client'.hs = client.hs /\ client'.received = client.received
  BY Zenon, <1>1 DEF Fail, LeaderType, ClientType
<1>3. /\ leader'.rl.started = FALSE /\ leader'.rl.encrypt_buffer = <<>>
      /\ leader'.rl.sent_records = <<>>
  BY ONLY <1>2 DEF NewRecordLayer
<1>4. Delivered' /\ PassesSettle'
  BY <1>2 DEF Delivered, PassesSettle
<1>5. NothingEarly'
  BY <1>2, <1>3 DEF StreamInv, NothingEarly
<1> QED
  BY Zenon, <1>4, <1>5 DEF StreamInv

\* The set-up.
LEMMA StreamSetUp ==
    ASSUME Inv, StreamInv, LeaderAlloc \/ JointPreprocess
    PROVE  StreamInv'
<1>1. leader \in LeaderType /\ client \in ClientType /\ leader.rl \in RlType /\ Phases
  BY Zenon, Parts DEF Inv, LeaderInv
<1>2. /\ leader'.rl \in {leader.rl, alloc(leader.rl)} /\ leader'.sf_vd = leader.sf_vd
      /\ client'.received = client.received /\ client'.hs = client.hs
      /\ leader'.join \in {"Preprocess", "none"}
      /\ \/ leader'.state = "Setup" /\ client' = client /\ leader.state = "Init"
         \/ leader'.state = "Handshake" /\ client'.pc = "active" /\ leader.state # "Error"
  <2>1. CASE LeaderAlloc
    BY <1>1, <2>1 DEF LeaderAlloc, LeaderType
  <2>2. CASE JointPreprocess
    <3>1. leader.state # "Error"
      BY <1>1, <2>2 DEF JointPreprocess, Joined, Phases
    <3>2. /\ leader'.rl = leader.rl /\ leader'.sf_vd = leader.sf_vd
          /\ client'.received = client.received /\ client'.hs = client.hs
          /\ leader'.join = "none" /\ leader'.state = "Handshake" /\ client'.pc = "active"
      BY Zenon, <1>1, <2>2 DEF JointPreprocess, LeaderType, ClientType
    <3> QED
      BY <3>1, <3>2
  <2> QED
    BY Zenon, <2>1, <2>2
<1>3. /\ leader'.rl.recv_records = leader.rl.recv_records
      /\ leader'.rl.decrypted_buffer = leader.rl.decrypted_buffer
      /\ leader'.rl.started = leader.rl.started
      /\ leader'.rl.encrypt_buffer = leader.rl.encrypt_buffer
      /\ leader'.rl.sent_records = leader.rl.sent_records
  <2>1. \A r \in RlType :
          /\ alloc(r).recv_records = r.recv_records /\ alloc(r).decrypted_buffer = r.decrypted_buffer
          /\ alloc(r).started = r.started /\ alloc(r).encrypt_buffer = r.encrypt_buffer
          /\ alloc(r).sent_records = r.sent_records
    BY Zenon DEF alloc, RlType
  <2> QED
    BY Zenon, <1>1, <1>2, <2>1
<1>4. client'.pc \in {"off", "active"}
  BY <1>1, <1>2 DEF Phases
<1>5. Delivered'
  <2>1. client'.pc # "done" /\ leader.state # "Error"
    BY <1>2, <1>4
  <2> QED
    BY Zenon, <1>2, <1>3, <2>1, KeepDelivered DEF StreamInv
<1>6. NothingEarly'
  BY Zenon, <1>2, <1>3, KeepEarly DEF StreamInv
<1>7. PassesSettle'
  BY <1>2, <1>4 DEF PassesSettle, FramesHandled
<1> QED
  BY Zenon, <1>5, <1>6, <1>7 DEF StreamInv

\* MpcTlsClient::poll starts a run.
LEMMA StreamPoll ==
    ASSUME Inv, StreamInv, Poll \/ PollClosing
    PROVE  StreamInv'
<1>1. leader \in LeaderType /\ client \in ClientType /\ Phases
  BY Zenon, Parts DEF Inv, LeaderInv
<1>2. client.pc \in {"active", "close_active"} /\ leader.join = "none"
  BY DEF Poll, PollClosing, At
<1>3. /\ client'.pc = "start" /\ client'.pass = 1 /\ client'.received = client.received
      /\ client'.hs = client.hs
  BY Zenon, <1>1 DEF Poll, PollClosing, ClientType
<1>4. /\ leader'.rl = leader.rl /\ leader'.sf_vd = leader.sf_vd /\ leader'.join = leader.join
      /\ leader'.state = leader.state
  BY Zenon, <1>1 DEF Poll, PollClosing, LeaderType
<1>5. Delivered' /\ NothingEarly'
  <2>1. client'.pc # "done"
    BY <1>3
  <2> QED
    BY Zenon, <1>3, <1>4, <2>1, SameLayer DEF StreamInv
<1>6. PassesSettle'
  BY <1>2, <1>3, <1>4 DEF PassesSettle, FramesHandled
<1> QED
  BY Zenon, <1>5, <1>6 DEF StreamInv
-----------------------------------------------------------------------------
(* The TLS client's steps. *)

\* What the operations of the record layer leave alone, and what they add.
LEMMA PushFields ==
    ASSUME NEW r \in RlType, NEW typ, NEW len, NEW q, q = push_encrypt(r, typ, len)
    PROVE  /\ q.recv_records = r.recv_records /\ q.decrypted_buffer = r.decrypted_buffer
           /\ q.decrypt_buffer = r.decrypt_buffer /\ q.started = r.started
           /\ q.sent_records = r.sent_records
           /\ q.encrypt_buffer = Append(r.encrypt_buffer,
                    [seq |-> r.write_seq, typ |-> typ, len |-> len, ok |-> TRUE])
  BY Zenon DEF push_encrypt, RlType

\* push_decrypt adds to the decrypt buffer alone.
LEMMA PullFields ==
    ASSUME NEW r \in RlType, NEW typ, NEW len, NEW ok, NEW q, q = push_decrypt(r, typ, len, ok)
    PROVE  /\ q.recv_records = r.recv_records /\ q.decrypted_buffer = r.decrypted_buffer
           /\ q.started = r.started /\ q.sent_records = r.sent_records
           /\ q.encrypt_buffer = r.encrypt_buffer
  BY Zenon DEF push_decrypt, RlType

\* next_decrypted takes the first record of its output buffer.
LEMMA TakeFields ==
    ASSUME NEW r \in RlType, NEW q, q = next_decrypted(r)
    PROVE  /\ q.recv_records = r.recv_records /\ q.decrypted_buffer = Tail(r.decrypted_buffer)
           /\ q.decrypt_buffer = r.decrypt_buffer /\ q.started = r.started
           /\ q.sent_records = r.sent_records /\ q.encrypt_buffer = r.encrypt_buffer
           /\ q.write_seq = r.write_seq
  BY Zenon DEF next_decrypted, RlType

\* Types and phases, as the steps need them.
LEMMA Where ==
    ASSUME Inv
    PROVE  /\ leader \in LeaderType /\ client \in ClientType /\ leader.rl \in RlType /\ Phases
           /\ leader.is_decrypting \in BOOLEAN
<1>1. leader \in LeaderType /\ client \in ClientType /\ leader.rl \in RlType /\ Phases
  BY Zenon, Parts DEF Inv, LeaderInv
<1> QED
  BY Zenon, <1>1 DEF LeaderType

\* The record a push queues is a record.
LEMMA QueuedRecord ==
    ASSUME NEW r \in RlType, NEW typ \in ContentType
    PROVE  [seq |-> r.write_seq, typ |-> typ, len |-> RecordLen, ok |-> TRUE] \in Record
<1>1. r.write_seq \in Nat
  BY Zenon DEF RlType
<1> QED
  BY Zenon, <1>1, OneByte DEF Record

\* flush_plaintext.
LEMMA StreamPlaintext ==
    ASSUME Inv, StreamInv, FlushPlaintext
    PROVE  StreamInv'
<1>1. leader \in LeaderType /\ client \in ClientType /\ leader.rl \in RlType /\ Phases
  BY Zenon, Where
<1>2. leader.join = "none" /\ client.pc \in {"start", "traffic"}
  BY Zenon DEF FlushPlaintext, At
<1>3. CASE Fail
  BY Zenon, <1>3, StreamFails
<1>4. CASE /\ PushOutgoing("ApplicationData") /\ client.hs = "Traffic"
           /\ client' = [client EXCEPT !.plaintext = @ - 1]
  <2>1. /\ client'.pc = client.pc /\ client'.pass = client.pass /\ client'.frames = client.frames
        /\ client'.hs = client.hs /\ client'.received = client.received
        /\ client'.unread = client.unread
    BY Zenon, <1>1, <1>4 DEF ClientType
  <2> DEFINE e == [seq |-> leader.rl.write_seq, typ |-> "ApplicationData", len |-> RecordLen,
                   ok |-> TRUE]
  <2>2. /\ leader'.state = leader.state /\ leader'.join = leader.join
        /\ leader'.sf_vd = leader.sf_vd /\ leader'.is_decrypting = leader.is_decrypting
        /\ leader'.rl = push_encrypt(leader.rl, "ApplicationData", RecordLen)
    BY Zenon, <1>1, <1>4 DEF PushOutgoing, LeaderType
  <2>3. /\ leader'.rl.recv_records = leader.rl.recv_records
        /\ leader'.rl.decrypted_buffer = leader.rl.decrypted_buffer
        /\ leader'.rl.decrypt_buffer = leader.rl.decrypt_buffer
        /\ leader'.rl.started = leader.rl.started
        /\ leader'.rl.sent_records = leader.rl.sent_records
        /\ leader'.rl.encrypt_buffer = Append(leader.rl.encrypt_buffer, e)
    <3>1. leader'.rl = push_encrypt(leader.rl, "ApplicationData", RecordLen)
      BY Zenon, <2>2
    <3> QED
      BY <1>1, <3>1, PushFields
  <2>4. e \in Record
    <3>1. "ApplicationData" \in ContentType
      BY DEF ContentType
    <3> QED
      BY Zenon, <1>1, <3>1, QueuedRecord
  <2>5. leader.sf_vd
    BY Zenon, <1>4 DEF StreamInv, NothingEarly
  <2> HIDE DEF e
  <2>6. client'.pc # "done"
    BY <1>2, <2>1
  <2>7. Delivered'
    BY Zenon, <2>1, <2>2, <2>3, <2>6, KeepDelivered DEF StreamInv
  <2>8. NothingEarly'
    BY Zenon, <2>1, <2>2, <2>3, <2>4, <2>5, PushEarly DEF StreamInv
  <2>9. PassesSettle'
    <3>1. client.pc # "incoming"
      BY <1>2
    <3>2. Settled' <=> Settled
      BY Zenon, <2>2, <2>3 DEF Settled, DecryptOps
    <3>3. CanTakeDecrypted(leader.rl)' <=> CanTakeDecrypted(leader.rl)
      BY Zenon, <2>3 DEF CanTakeDecrypted, CanTake
    <3> QED
      BY Zenon, <2>1, <2>2, <3>1, <3>2, <3>3 DEF StreamInv, PassesSettle, FramesHandled
  <2> QED
    BY Zenon, <2>7, <2>8, <2>9 DEF StreamInv
<1>5. CASE /\ client' = [client EXCEPT !.pc = IF @ = "start" THEN "frames" ELSE "incoming"]
           /\ leader' = leader
  <2>1. /\ client'.pc = IF client.pc = "start" THEN "frames" ELSE "incoming"
        /\ client'.pass = client.pass /\ client'.frames = client.frames
        /\ client'.hs = client.hs /\ client'.received = client.received
    BY Zenon, <1>1, <1>5 DEF ClientType
  <2>2. client'.pc # "done"
    BY <2>1
  <2>3. Delivered' /\ NothingEarly'
    BY Zenon, <1>5, <2>1, <2>2, SameLayer DEF StreamInv
  <2>4. PassesSettle'
    <3>1. Settled' <=> Settled
      BY Zenon, <1>5 DEF Settled
    <3>2. client.pc = "traffic" => client.pass = 1
      BY Zenon DEF StreamInv, PassesSettle
    <3> QED
      BY <1>2, <1>5, <2>1, <3>1, <3>2 DEF StreamInv, PassesSettle, FramesHandled
  <2> QED
    BY Zenon, <2>3, <2>4 DEF StreamInv
<1> QED
  BY Zenon, <1>3, <1>4, <1>5 DEF FlushPlaintext

\* The frames loop.  It has frames only in the first pass.
LEMMA StreamFrames ==
    ASSUME Inv, StreamInv, HandleServerHello \/ HandleServerDone \/ HandleCcs \/ HandleOpaque
    PROVE  StreamInv'
<1>1. leader \in LeaderType /\ client \in ClientType /\ leader.rl \in RlType /\ Phases
  BY Zenon, Where
<1>2. CASE Fail
  BY Zenon, <1>2, StreamFails
<1>3. CASE ~Fail
  <2>1. leader.join = "none" /\ client.pc = "frames" /\ client.frames # <<>>
    BY Zenon DEF HandleServerHello, HandleServerDone, HandleCcs, HandleOpaque, NextFrame, At
  <2>2. leader.state \in {"Handshake", "Active"}
    <3>1. CASE HandleOpaque
      BY Zenon, <1>3, <3>1 DEF HandleOpaque, CanPushIncoming
    <3>2. CASE client.hs # "Traffic"
      BY <1>1, <2>1, <3>2 DEF Phases, LeaderType
    <3> QED
      BY <3>1, <3>2 DEF HandleServerHello, HandleServerDone, HandleCcs
  <2>3. client.pass = 1
    <3>1. client.pass \in {1, 2}
      BY Zenon, <1>1 DEF ClientType
    <3> QED
      BY <2>1, <2>2, <3>1 DEF StreamInv, PassesSettle, FramesHandled
  <2>4. /\ client'.pc = "frames" /\ client'.pass = 1 /\ client'.received = client.received
        /\ client'.hs = "Traffic" => client.hs = "Traffic"
    <3>1. client'.pc = client.pc /\ client'.pass = client.pass /\ client'.received = client.received
      BY Zenon, <1>1, <1>3 DEF HandleServerHello, HandleServerDone, HandleCcs, HandleOpaque,
         ClientType
    <3>2. client'.hs \in {client.hs, "ServerDone", "Finished"}
      BY Zenon, <1>1, <1>3 DEF HandleServerHello, HandleServerDone, HandleCcs, HandleOpaque,
         ClientType
    <3> QED
      BY <2>1, <2>3, <3>1, <3>2
  <2>5. /\ leader'.state = leader.state /\ leader'.sf_vd = leader.sf_vd
        /\ leader'.join \in {"none", "Setup"}
        /\ \/ leader'.rl = leader.rl
           \/ \E typ, ok : leader'.rl = push_decrypt(leader.rl, typ, RecordLen, ok)
    <3>1. CASE HandleOpaque
      <4>1. PushIncoming(Head(client.frames).typ, Head(client.frames).ok)
        BY Zenon, <1>3, <3>1 DEF HandleOpaque
      <4>2. leader' = [leader EXCEPT !.rl = push_decrypt(leader.rl, Head(client.frames).typ,
                                              RecordLen, Head(client.frames).ok)]
        BY Zenon, <1>1, <4>1 DEF PushIncoming, LeaderType
      <4>3. /\ leader'.state = leader.state /\ leader'.sf_vd = leader.sf_vd
            /\ leader'.join = leader.join
            /\ leader'.rl = push_decrypt(leader.rl, Head(client.frames).typ, RecordLen,
                                         Head(client.frames).ok)
        BY Zenon, <1>1, <4>2 DEF LeaderType
      <4> QED
        BY Zenon, <2>1, <4>3
    <3>2. CASE ~HandleOpaque
      BY Zenon, <1>1, <2>1, <3>2 DEF HandleServerHello, HandleServerDone, HandleCcs, LeaderType
    <3> QED
      BY Zenon, <3>1, <3>2
  <2>6. /\ leader'.rl.recv_records = leader.rl.recv_records
        /\ leader'.rl.decrypted_buffer = leader.rl.decrypted_buffer
        /\ leader'.rl.started = leader.rl.started
        /\ leader'.rl.sent_records = leader.rl.sent_records
        /\ leader'.rl.encrypt_buffer = leader.rl.encrypt_buffer
    <3>1. CASE leader'.rl = leader.rl
      BY Zenon, <3>1
    <3>2. ASSUME NEW typ, NEW ok, leader'.rl = push_decrypt(leader.rl, typ, RecordLen, ok)
          PROVE  /\ leader'.rl.recv_records = leader.rl.recv_records
                 /\ leader'.rl.decrypted_buffer = leader.rl.decrypted_buffer
                 /\ leader'.rl.started = leader.rl.started
                 /\ leader'.rl.sent_records = leader.rl.sent_records
                 /\ leader'.rl.encrypt_buffer = leader.rl.encrypt_buffer
      BY <1>1, <3>2, PullFields
    <3> QED
      BY Zenon, <2>5, <3>1, <3>2
  <2>7. client'.pc # "done"
    BY <2>4
  <2>8. Delivered'
    BY Zenon, <2>4, <2>5, <2>6, <2>7, KeepDelivered DEF StreamInv
  <2>9. NothingEarly'
    BY Zenon, <2>4, <2>5, <2>6, KeepEarly DEF StreamInv
  <2>10. PassesSettle'
    BY <2>4, <2>5 DEF PassesSettle, FramesHandled
  <2> QED
    BY Zenon, <2>8, <2>9, <2>10 DEF StreamInv
<1> QED
  BY Zenon, <1>2, <1>3
\* The leader's flush: nothing to decrypt, or a computation.
LEMMA StreamFlush ==
    ASSUME StreamHelpers, Inv, StreamInv, Flush
    PROVE  StreamInv'
<1>1. /\ leader \in LeaderType /\ client \in ClientType /\ leader.rl \in RlType /\ Phases
      /\ leader.is_decrypting \in BOOLEAN
  BY Zenon, Where
<1>2. leader.join = "none" /\ client.pc = "frames" /\ client.frames = <<>>
  BY Zenon DEF Flush, At
<1>3. CASE Fail
  BY Zenon, <1>3, StreamFails
<1>4. CASE /\ client' = [client EXCEPT !.pc = "incoming"] /\ leader' = leader
           /\ \/ leader.state = "Handshake" \/ ~wants_flush(leader.rl)
              \/ ~HasOps(leader.rl, leader.is_decrypting)
  <2>1. /\ client'.pc = "incoming" /\ client'.pass = client.pass
        /\ client'.frames = client.frames /\ client'.hs = client.hs
        /\ client'.received = client.received
    BY Zenon, <1>1, <1>4 DEF ClientType
  <2>2. client'.pc # "done"
    BY <2>1
  <2>3. Delivered' /\ NothingEarly'
    BY Zenon, <1>4, <2>1, <2>2, SameLayer DEF StreamInv
  <2>4. leader.state # "Handshake" => leader.rl.encrypt_buffer = <<>> /\ Settled
    <3>1. leader.rl.decrypt_buffer \in Seq(Record)
      BY Zenon, <1>1 DEF RlType
    <3>2. ~wants_flush(leader.rl) => leader.rl.encrypt_buffer = <<>> /\ Settled
      BY Zenon, <1>1, <3>1 DEF wants_flush, StreamHelpers, Settled
    <3>3. ~HasOps(leader.rl, leader.is_decrypting) => leader.rl.encrypt_buffer = <<>> /\ Settled
      BY Zenon DEF HasOps, Settled
    <3> QED
      BY Zenon, <1>4, <3>2, <3>3
  <2>5. PassesSettle'
    <3>1. Settled' <=> Settled
      BY Zenon, <1>4 DEF Settled
    <3>2. leader.state = "Active" /\ client.pass = 2 => ~CanTakeDecrypted(leader.rl)
      BY Zenon, <1>2 DEF StreamInv, PassesSettle
    <3> QED
      BY <1>2, <1>4, <2>1, <2>4, <3>1, <3>2 DEF PassesSettle
  <2> QED
    BY Zenon, <2>3, <2>5 DEF StreamInv
<1>5. CASE leader' = [leader EXCEPT !.join = "Flush"] /\ client' = client
  <2>1. /\ leader'.rl = leader.rl /\ leader'.sf_vd = leader.sf_vd /\ leader'.join = "Flush"
        /\ leader'.state = leader.state /\ leader'.is_decrypting = leader.is_decrypting
    BY Zenon, <1>1, <1>5 DEF LeaderType, Calls
  <2>2. client'.pc # "done"
    BY <1>2, <1>5
  <2>3. Delivered' /\ NothingEarly'
    BY Zenon, <1>5, <2>1, <2>2, SameLayer DEF StreamInv
  <2>4. PassesSettle'
    <3>1. Settled' <=> Settled
      BY Zenon, <2>1 DEF Settled
    <3> QED
      BY <1>2, <1>5, <2>1, <3>1 DEF StreamInv, PassesSettle
  <2> QED
    BY Zenon, <2>3, <2>4 DEF StreamInv
<1> QED
  BY Zenon, <1>3, <1>4, <1>5 DEF Flush

\* The TLS client takes a decrypted record.  There is one only in the first pass, or
\* after the commit.
LEMMA StreamTake ==
    ASSUME StreamHelpers, Inv, StreamInv,
           leader.join = "none", client.pc = "incoming", CanTakeDecrypted(leader.rl),
           leader'.rl.recv_records = leader.rl.recv_records,
           leader'.rl.decrypted_buffer = Tail(leader.rl.decrypted_buffer),
           leader'.rl.decrypt_buffer = leader.rl.decrypt_buffer,
           leader'.rl.started = leader.rl.started,
           leader'.rl.sent_records = leader.rl.sent_records,
           \/ leader'.rl.encrypt_buffer = leader.rl.encrypt_buffer
           \/ /\ leader.state \in {"Handshake", "Active"}
              /\ \E e \in Record : /\ ~Private(e)
                                   /\ leader'.rl.encrypt_buffer = Append(leader.rl.encrypt_buffer, e),
           leader'.state = leader.state, leader'.sf_vd = leader.sf_vd,
           leader'.is_decrypting = leader.is_decrypting,
           leader'.join \in {"none", "SfVd"}, leader'.join = "SfVd" => leader.state = "Active",
           client'.received = IF Private(Head(leader.rl.decrypted_buffer))
                              THEN Append(client.received, Head(leader.rl.decrypted_buffer).seq)
                              ELSE client.received,
           client'.pc = "incoming", client'.pass = client.pass, client'.frames = client.frames,
           client'.hs = client.hs
    PROVE  StreamInv'
<1>1. leader \in LeaderType /\ client \in ClientType /\ leader.rl \in RlType /\ Phases
  BY Zenon, Where
<1>2. leader.state # "Error" /\ client'.pc # "done"
  BY <1>1 DEF Phases
<1>3. /\ leader.rl.decrypted_buffer # <<>>
      /\ Private(Head(leader.rl.decrypted_buffer)) => leader.rl.started
  BY Zenon DEF CanTakeDecrypted, CanTake, Private
<1>4. Delivered'
  BY Zenon, <1>2, <1>3, TakeDelivered DEF StreamInv
<1>5. NothingEarly'
  <2>1. Private(Head(leader.rl.decrypted_buffer)) => leader.sf_vd
    BY Zenon, <1>3 DEF StreamInv, NothingEarly
  <2>2. client'.received # <<>> => leader.sf_vd
    BY Zenon, <2>1 DEF StreamInv, NothingEarly
  <2>3. CASE leader'.rl.encrypt_buffer = leader.rl.encrypt_buffer
    BY Zenon, <2>2, <2>3 DEF StreamInv, NothingEarly
  <2>4. ASSUME NEW e \in Record, ~Private(e),
               leader'.rl.encrypt_buffer = Append(leader.rl.encrypt_buffer, e)
        PROVE  NothingEarly'
    BY Zenon, <2>2, <2>4, PushEarly DEF StreamInv
  <2> QED
    BY Zenon, <2>3, <2>4
<1>6. PassesSettle'
  <2>1. Settled' <=> Settled
    BY Zenon DEF Settled, DecryptOps
  <2>2. leader.state = "Active" => client.pass = 1
    <3>1. client.pass \in {1, 2}
      BY Zenon, <1>1 DEF ClientType
    <3> QED
      BY <3>1 DEF StreamInv, PassesSettle
  <2>3. leader.state \in {"Handshake", "Active"} => client.frames = <<>>
    BY Zenon DEF StreamInv, PassesSettle, FramesHandled
  <2>4. leader.state = "Active" => Settled
    BY Zenon DEF StreamInv, PassesSettle
  <2> QED
    BY <2>1, <2>2, <2>3, <2>4 DEF PassesSettle
<1> QED
  BY Zenon, <1>4, <1>5, <1>6 DEF StreamInv
\* The records that process_new_packets handles, one handler per content type.
LEMMA StreamIncoming ==
    ASSUME StreamHelpers, Inv, StreamInv,
           HandleFinished \/ HandleRenegotiation \/ HandleAlert \/ HandleAppData
    PROVE  StreamInv'
<1>1. leader \in LeaderType /\ client \in ClientType /\ leader.rl \in RlType /\ Phases
  BY Zenon, Where
<1>2. CASE Fail
  BY Zenon, <1>2, StreamFails
<1>3. leader.join = "none" /\ client.pc = "incoming" /\ CanTakeDecrypted(leader.rl)
  BY Zenon DEF HandleFinished, HandleRenegotiation, HandleAlert, HandleAppData, NextIncoming, At
<1> DEFINE q == next_decrypted(leader.rl)
<1>4. /\ q.recv_records = leader.rl.recv_records
      /\ q.decrypted_buffer = Tail(leader.rl.decrypted_buffer)
      /\ q.decrypt_buffer = leader.rl.decrypt_buffer /\ q.started = leader.rl.started
      /\ q.sent_records = leader.rl.sent_records /\ q.encrypt_buffer = leader.rl.encrypt_buffer
  BY <1>1, TakeFields
<1>5. q \in RlType
  <2>1. Counted(leader.rl) /\ leader.rl.decrypted_buffer # <<>>
    BY Zenon, <1>3, Parts DEF CanTakeDecrypted, CanTake
  <2> QED
    BY Zenon, <1>1, <2>1, TakeLayer
<1> HIDE DEF q
<1>6. CASE HandleFinished
  <2>1. /\ leader'.rl = q /\ leader'.join = "SfVd" /\ leader'.state = leader.state
        /\ leader'.sf_vd = leader.sf_vd /\ leader'.is_decrypting = leader.is_decrypting
        /\ client' = client /\ client.hs = "Finished"
        /\ Head(leader.rl.decrypted_buffer).typ = "Handshake"
    BY Zenon, <1>1, <1>6 DEF HandleFinished, NextIncoming, LeaderType, Calls, q
  <2>2. ~Private(Head(leader.rl.decrypted_buffer))
    BY <2>1 DEF Private
  <2>3. leader.state = "Active"
    BY <1>1, <1>3, <2>1 DEF Phases, LeaderType
  <2>4. leader'.join \in {"none", "SfVd"}
    BY <2>1
  <2> QED
    BY Zenon, <1>3, <1>4, <2>1, <2>2, <2>3, <2>4, StreamTake
<1>7. CASE HandleRenegotiation /\ ~Fail
  <2> DEFINE e == [seq |-> q.write_seq, typ |-> "OtherAlert", len |-> RecordLen, ok |-> TRUE]
  <2>1. /\ leader' = [leader EXCEPT !.rl = push_encrypt(next_decrypted(leader.rl), "OtherAlert", RecordLen)]
        /\ client' = client /\ CanPushOutgoing
        /\ Head(leader.rl.decrypted_buffer).typ = "Handshake"
    BY Zenon, <1>1, <1>7 DEF HandleRenegotiation, NextIncoming, LeaderType
  <2>2. /\ leader'.rl = push_encrypt(q, "OtherAlert", RecordLen) /\ leader'.join = leader.join
        /\ leader'.state = leader.state /\ leader'.sf_vd = leader.sf_vd
        /\ leader'.is_decrypting = leader.is_decrypting
    BY Zenon, <1>1, <2>1 DEF LeaderType, q
  <2>3. leader'.rl = push_encrypt(q, "OtherAlert", RecordLen)
    BY Zenon, <2>2
  <2>4. /\ leader'.rl.recv_records = q.recv_records
        /\ leader'.rl.decrypted_buffer = q.decrypted_buffer
        /\ leader'.rl.decrypt_buffer = q.decrypt_buffer
        /\ leader'.rl.started = q.started /\ leader'.rl.sent_records = q.sent_records
        /\ leader'.rl.encrypt_buffer = Append(q.encrypt_buffer, e)
    BY <1>5, <2>3, PushFields
  <2>5. e \in Record /\ ~Private(e)
    <3>1. "OtherAlert" \in ContentType
      BY DEF ContentType
    <3>2. e \in Record
      BY Zenon, <1>5, <3>1, QueuedRecord
    <3>3. e.typ = "OtherAlert"
      BY Zenon
    <3> QED
      BY <3>2, <3>3 DEF Private
  <2>6. ~Private(Head(leader.rl.decrypted_buffer))
    BY <2>1 DEF Private
  <2>7. leader.state \in {"Handshake", "Active"}
    BY Zenon, <2>1 DEF CanPushOutgoing
  <2>8. leader'.join \in {"none", "SfVd"} /\ leader'.join # "SfVd"
    BY <1>3, <2>2
  <2> HIDE DEF e
  <2>9. /\ leader'.rl.recv_records = leader.rl.recv_records
        /\ leader'.rl.decrypted_buffer = Tail(leader.rl.decrypted_buffer)
        /\ leader'.rl.decrypt_buffer = leader.rl.decrypt_buffer
        /\ leader'.rl.started = leader.rl.started
        /\ leader'.rl.sent_records = leader.rl.sent_records
        /\ leader'.rl.encrypt_buffer = Append(leader.rl.encrypt_buffer, e)
    BY Zenon, <1>4, <2>4
  <2> QED
    BY Zenon, <1>3, <2>1, <2>2, <2>5, <2>6, <2>7, <2>8, <2>9, StreamTake
<1>8. CASE (HandleAlert \/ HandleAppData) /\ ~Fail
  <2>1. /\ leader' = [leader EXCEPT !.rl = next_decrypted(leader.rl)]
        /\ client'.pc = client.pc /\ client'.pass = client.pass /\ client'.frames = client.frames
        /\ client'.hs = client.hs
    BY Zenon, <1>1, <1>8 DEF HandleAlert, HandleAppData, LeaderType, ClientType
  <2>2. /\ leader'.rl = q /\ leader'.join = leader.join
        /\ leader'.state = leader.state /\ leader'.sf_vd = leader.sf_vd
        /\ leader'.is_decrypting = leader.is_decrypting
    BY Zenon, <1>1, <2>1 DEF LeaderType, q
  <2>3. client'.received = IF Private(Head(leader.rl.decrypted_buffer))
                           THEN Append(client.received, Head(leader.rl.decrypted_buffer).seq)
                           ELSE client.received
    <3>1. CASE HandleAlert
      <4>1. Head(leader.rl.decrypted_buffer).typ \in {"Alert", "OtherAlert"}
        BY <3>1 DEF HandleAlert, NextIncoming
      <4>2. client'.received = client.received
        BY Zenon, <1>1, <1>8, <3>1 DEF HandleAlert, ClientType
      <4> QED
        BY <4>1, <4>2 DEF Private
    <3>2. CASE HandleAppData
      <4>1. Private(Head(leader.rl.decrypted_buffer))
        BY Zenon, <3>2 DEF HandleAppData, NextIncoming, Private
      <4>2. client'.received = Append(client.received, Head(leader.rl.decrypted_buffer).seq)
        BY Zenon, <1>1, <3>2 DEF HandleAppData, ClientType
      <4> QED
        BY Zenon, <4>1, <4>2
    <3> QED
      BY Zenon, <1>8, <3>1, <3>2
  <2>4. leader'.join \in {"none", "SfVd"} /\ leader'.join # "SfVd"
    BY <1>3, <2>2
  <2> QED
    BY Zenon, <1>3, <1>4, <2>1, <2>2, <2>3, <2>4, StreamTake
<1> QED
  BY Zenon, <1>2, <1>6, <1>7, <1>8

\* The end of a pass and of a run.
LEMMA StreamPasses ==
    ASSUME Inv, StreamInv, NextOutgoing \/ RunAgain \/ EndRun
    PROVE  StreamInv'
<1>1. leader \in LeaderType /\ client \in ClientType /\ leader.rl \in RlType /\ Phases
  BY Zenon, Where
<1>2. leader.join = "none" /\ client.pc = "incoming" /\ ~CanTakeDecrypted(leader.rl)
  BY Zenon DEF NextOutgoing, RunAgain, EndRun, RunDone, EndOfPass, At
<1>3. /\ leader'.state = leader.state /\ leader'.join = leader.join
      /\ leader'.sf_vd = leader.sf_vd /\ leader'.is_decrypting = leader.is_decrypting
      /\ leader'.rl \in {leader.rl, next_encrypted(leader.rl)}
  <2>1. CASE NextOutgoing
    <3>1. leader' = [leader EXCEPT !.rl = next_encrypted(leader.rl)]
      BY Zenon, <1>1, <2>1 DEF NextOutgoing, LeaderType
    <3>2. /\ leader'.state = leader.state /\ leader'.join = leader.join
          /\ leader'.sf_vd = leader.sf_vd /\ leader'.is_decrypting = leader.is_decrypting
          /\ leader'.rl = next_encrypted(leader.rl)
      BY Zenon, <1>1, <3>1 DEF LeaderType
    <3> QED
      BY Zenon, <3>2
  <2>2. CASE RunAgain \/ EndRun
    BY Zenon, <2>2 DEF RunAgain, EndRun
  <2> QED
    BY Zenon, <2>1, <2>2
<1>4. /\ leader'.rl.recv_records = leader.rl.recv_records
      /\ leader'.rl.decrypted_buffer = leader.rl.decrypted_buffer
      /\ leader'.rl.decrypt_buffer = leader.rl.decrypt_buffer
      /\ leader'.rl.started = leader.rl.started
      /\ leader'.rl.sent_records = leader.rl.sent_records
      /\ leader'.rl.encrypt_buffer = leader.rl.encrypt_buffer
  <2>1. CASE leader'.rl = leader.rl
    BY Zenon, <2>1
  <2>2. CASE leader'.rl = next_encrypted(leader.rl)
    BY Zenon, <1>1, <2>2 DEF next_encrypted, RlType
  <2> QED
    BY Zenon, <1>3, <2>1, <2>2
<1>5. client'.received = client.received /\ client'.hs = client.hs /\ client'.frames = client.frames
      /\ client'.unread = client.unread
  BY Zenon, <1>1 DEF NextOutgoing, RunAgain, EndRun, ClientType
<1>6. \/ client'.pc = "incoming" /\ client'.pass = client.pass
      \/ client'.pc = "start" /\ client'.pass = 2
      \/ client'.pc \in {"active", "close_active"}
      \/ client'.pc = "done" /\ leader.rl.decrypted_buffer = <<>> /\ ~client.unread
  <2>1. CASE NextOutgoing
    BY Zenon, <1>1, <1>2, <2>1 DEF NextOutgoing, ClientType
  <2>2. CASE RunAgain
    BY Zenon, <1>1, <2>2 DEF RunAgain, ClientType
  <2>3. CASE EndRun
    BY Zenon, <1>1, <2>3 DEF EndRun, ClientType, Drained, is_empty
  <2> QED
    BY Zenon, <2>1, <2>2, <2>3
<1>7. Delivered'
  <2>1. client'.pc = "done" => leader.rl.decrypted_buffer = <<>> /\ ~client'.unread
    BY <1>5, <1>6
  <2> QED
    BY Zenon, <1>3, <1>4, <1>5, <2>1, KeepDelivered DEF StreamInv
<1>8. NothingEarly'
  BY Zenon, <1>3, <1>4, <1>5, KeepEarly DEF StreamInv
<1>9. PassesSettle'
  <2>1. Settled' <=> Settled
    BY Zenon, <1>3, <1>4 DEF Settled, DecryptOps
  <2>2. ~CanTakeDecrypted(leader.rl)'
    BY Zenon, <1>2, <1>4 DEF CanTakeDecrypted, CanTake
  <2>3. leader.state \in {"Handshake", "Active"} => client.frames = <<>>
    BY Zenon, <1>2 DEF StreamInv, PassesSettle, FramesHandled
  <2>4. leader.state = "Active" =>
          Settled /\ (client.pass = 2 => leader.rl.encrypt_buffer = <<>>)
    BY Zenon, <1>2 DEF StreamInv, PassesSettle
  <2> QED
    BY <1>2, <1>3, <1>4, <1>5, <1>6, <2>1, <2>2, <2>3, <2>4 DEF PassesSettle
<1> QED
  BY Zenon, <1>7, <1>8, <1>9 DEF StreamInv

\* client_close and server_close, after their run.
LEMMA StreamCloses ==
    ASSUME Inv, StreamInv, EndClientClose \/ CloseConnection
    PROVE  StreamInv'
<1>1. leader \in LeaderType /\ client \in ClientType /\ leader.rl \in RlType /\ Phases
  BY Zenon, Where
<1>2. leader.join = "none" /\ client.pc = "incoming"
  BY Zenon DEF EndClientClose, CloseConnection, RunDone, EndOfPass, At
<1>3. CASE Fail
  BY Zenon, <1>3, StreamFails
<1>4. CASE EndClientClose
  <2>1. client'.received = client.received /\ client'.hs = client.hs /\ client'.pc = "active"
    BY Zenon, <1>1, <1>4 DEF EndClientClose, ClientType
  <2>2. CASE PushOutgoing("Alert")
    <3> DEFINE e == [seq |-> leader.rl.write_seq, typ |-> "Alert", len |-> RecordLen, ok |-> TRUE]
    <3>1. /\ leader'.state = leader.state /\ leader'.join = leader.join
          /\ leader'.sf_vd = leader.sf_vd
          /\ leader'.rl = push_encrypt(leader.rl, "Alert", RecordLen)
      BY Zenon, <1>1, <2>2 DEF PushOutgoing, LeaderType
    <3>2. leader'.rl = push_encrypt(leader.rl, "Alert", RecordLen)
      BY Zenon, <3>1
    <3>3. /\ leader'.rl.recv_records = leader.rl.recv_records
          /\ leader'.rl.decrypted_buffer = leader.rl.decrypted_buffer
          /\ leader'.rl.started = leader.rl.started
          /\ leader'.rl.sent_records = leader.rl.sent_records
          /\ leader'.rl.encrypt_buffer = Append(leader.rl.encrypt_buffer, e)
      BY <1>1, <3>2, PushFields
    <3>4. e \in Record /\ ~Private(e)
      <4>1. "Alert" \in ContentType
        BY DEF ContentType
      <4>2. e \in Record
        BY Zenon, <1>1, <4>1, QueuedRecord
      <4>3. e.typ = "Alert"
        BY Zenon
      <4> QED
        BY <4>2, <4>3 DEF Private
    <3> HIDE DEF e
    <3>5. client'.pc # "done" /\ leader'.join = "none"
      BY <1>2, <2>1, <3>1
    <3>6. Delivered'
      BY Zenon, <2>1, <3>1, <3>3, <3>5, KeepDelivered DEF StreamInv
    <3>7. NothingEarly'
      BY Zenon, <2>1, <3>1, <3>3, <3>4, PushEarly DEF StreamInv
    <3>8. PassesSettle'
      BY <2>1, <3>5 DEF PassesSettle, FramesHandled
    <3> QED
      BY Zenon, <3>6, <3>7, <3>8 DEF StreamInv
  <2>3. CASE leader' = leader
    <3>1. client'.pc # "done"
      BY <2>1
    <3>2. Delivered' /\ NothingEarly'
      BY Zenon, <2>1, <2>3, <3>1, SameLayer DEF StreamInv
    <3>3. PassesSettle'
      BY <1>2, <2>1, <2>3 DEF PassesSettle, FramesHandled
    <3> QED
      BY Zenon, <3>2, <3>3 DEF StreamInv
  <2> QED
    BY Zenon, <1>4, <2>2, <2>3 DEF EndClientClose
<1>5. CASE leader' = [leader EXCEPT !.join = "Commit"] /\ client' = client
  <2>1. /\ leader'.rl = leader.rl /\ leader'.sf_vd = leader.sf_vd /\ leader'.join = "Commit"
        /\ leader'.state = leader.state /\ leader'.is_decrypting = leader.is_decrypting
    BY Zenon, <1>1, <1>5 DEF LeaderType, Calls
  <2>2. client'.pc # "done"
    BY <1>2, <1>5
  <2>3. Delivered' /\ NothingEarly'
    BY Zenon, <1>5, <2>1, <2>2, SameLayer DEF StreamInv
  <2>4. PassesSettle'
    <3>1. Settled' <=> Settled
      BY Zenon, <2>1 DEF Settled
    <3> QED
      BY <1>2, <1>5, <2>1, <3>1 DEF StreamInv, PassesSettle, FramesHandled
  <2> QED
    BY Zenon, <2>3, <2>4 DEF StreamInv
<1> QED
  BY Zenon, <1>3, <1>4, <1>5 DEF CloseConnection
-----------------------------------------------------------------------------
(* The two-party computations. *)

\* The keys, and the client's Finished message.
LEMMA StreamKeys ==
    ASSUME Inv, StreamInv, JointSetup \/ JointCfVd
    PROVE  StreamInv'
<1>1. leader \in LeaderType /\ client \in ClientType /\ leader.rl \in RlType /\ Phases
  BY Zenon, Where
<1>2. leader.join \in {"Setup", "CfVd"}
  BY DEF JointSetup, JointCfVd, Joined
<1>3. client.pc = "frames" /\ client.pass = 1 /\ leader.state # "Error"
  BY <1>1, <1>2 DEF Phases, StreamInv, PassesSettle
<1>4. CASE Fail
  BY Zenon, <1>4, StreamFails
<1>5. CASE JointSetup
  <2>1. /\ leader'.rl = leader.rl /\ leader'.sf_vd = leader.sf_vd /\ leader'.join = "CfVd"
        /\ client' = client
    BY Zenon, <1>1, <1>5 DEF JointSetup, LeaderType, Calls
  <2>2. client'.pc # "done"
    BY <1>3, <2>1
  <2>3. Delivered' /\ NothingEarly'
    BY Zenon, <1>3, <2>1, <2>2, SameLayer DEF StreamInv
  <2>4. PassesSettle'
    BY <1>3, <2>1 DEF PassesSettle, FramesHandled
  <2> QED
    BY Zenon, <2>3, <2>4 DEF StreamInv
<1>6. CASE JointCfVd /\ ~Fail
  <2> DEFINE e == [seq |-> leader.rl.write_seq, typ |-> "Handshake", len |-> RecordLen,
                   ok |-> TRUE]
  <2>1. /\ leader' = [leader EXCEPT !.join = "none", !.cf_vd = TRUE,
                        !.rl = push_encrypt(leader.rl, "Handshake", RecordLen)]
        /\ client' = [client EXCEPT !.hs = "Ccs"]
    BY Zenon, <1>1, <1>6 DEF JointCfVd, LeaderType
  <2>2. /\ leader'.state = leader.state /\ leader'.join = "none"
        /\ leader'.sf_vd = leader.sf_vd
        /\ leader'.rl = push_encrypt(leader.rl, "Handshake", RecordLen)
    BY Zenon, <1>1, <2>1 DEF LeaderType, Calls
  <2>3. leader'.rl = push_encrypt(leader.rl, "Handshake", RecordLen)
    BY Zenon, <2>2
  <2>4. /\ leader'.rl.recv_records = leader.rl.recv_records
        /\ leader'.rl.decrypted_buffer = leader.rl.decrypted_buffer
        /\ leader'.rl.started = leader.rl.started
        /\ leader'.rl.sent_records = leader.rl.sent_records
        /\ leader'.rl.encrypt_buffer = Append(leader.rl.encrypt_buffer, e)
    BY <1>1, <2>3, PushFields
  <2>5. e \in Record /\ ~Private(e)
    <3>1. "Handshake" \in ContentType
      BY DEF ContentType
    <3>2. e \in Record
      BY Zenon, <1>1, <3>1, QueuedRecord
    <3>3. e.typ = "Handshake"
      BY Zenon
    <3> QED
      BY <3>2, <3>3 DEF Private
  <2> HIDE DEF e
  <2>6. /\ client'.pc = client.pc /\ client'.pass = client.pass
        /\ client'.received = client.received /\ client'.hs = "Ccs"
    BY Zenon, <1>1, <2>1 DEF ClientType
  <2>7. client'.pc # "done" /\ client'.hs # "Traffic"
    BY <1>3, <2>6
  <2>8. Delivered'
    BY Zenon, <1>3, <2>2, <2>4, <2>6, <2>7, KeepDelivered DEF StreamInv
  <2>9. NothingEarly'
    BY Zenon, <2>2, <2>4, <2>5, <2>6, <2>7, PushEarly DEF StreamInv
  <2>10. PassesSettle'
    BY <1>3, <2>2, <2>6 DEF PassesSettle, FramesHandled
  <2> QED
    BY Zenon, <2>8, <2>9, <2>10 DEF StreamInv
<1> QED
  BY Zenon, <1>4, <1>5, <1>6

\* The server's Finished message is checked.
LEMMA StreamFinished ==
    ASSUME Inv, StreamInv, JointSfVd
    PROVE  StreamInv'
<1>1. leader \in LeaderType /\ client \in ClientType /\ leader.rl \in RlType /\ Phases
  BY Zenon, Where
<1>2. leader.join = "SfVd"
  BY Zenon DEF JointSfVd, Joined
<1>3. client.pc = "incoming" /\ client.pass = 1 /\ leader.state = "Active"
  BY <1>1, <1>2 DEF Phases, LeaderType, StreamInv, PassesSettle
<1>4. client.frames = <<>> /\ Settled
  BY Zenon, <1>3 DEF StreamInv, PassesSettle, FramesHandled
<1>5. CASE Fail
  BY Zenon, <1>5, StreamFails
<1>6. CASE ~Fail
  <2>1. /\ leader' = [leader EXCEPT !.join = "none", !.sf_vd = TRUE, !.rl = start_traffic(leader.rl)]
        /\ client' = [client EXCEPT !.hs = "Traffic", !.pc = "traffic"]
    BY Zenon, <1>1, <1>6 DEF JointSfVd, LeaderType
  <2>2. /\ leader'.state = leader.state /\ leader'.join = "none" /\ leader'.sf_vd = TRUE
        /\ leader'.is_decrypting = leader.is_decrypting
        /\ leader'.rl = start_traffic(leader.rl)
    BY Zenon, <1>1, <2>1 DEF LeaderType, Calls
  <2>3. /\ leader'.rl.recv_records = leader.rl.recv_records
        /\ leader'.rl.decrypted_buffer = leader.rl.decrypted_buffer
        /\ leader'.rl.decrypt_buffer = leader.rl.decrypt_buffer
    BY Zenon, <1>1, <2>2 DEF start_traffic, RlType
  <2>4. /\ client'.pc = "traffic" /\ client'.pass = client.pass
        /\ client'.frames = client.frames /\ client'.received = client.received
    BY Zenon, <1>1, <2>1 DEF ClientType
  <2>5. client'.pc # "done" /\ leader.state # "Error"
    BY <1>3, <2>4
  <2>6. Delivered'
    BY Zenon, <2>2, <2>3, <2>4, <2>5, KeepDelivered DEF StreamInv
  <2>7. NothingEarly'
    BY Zenon, <2>2 DEF NothingEarly
  <2>8. PassesSettle'
    <3>1. Settled'
      BY Zenon, <1>4, <2>2, <2>3 DEF Settled, DecryptOps
    <3> QED
      BY <1>3, <1>4, <2>2, <2>4, <3>1 DEF PassesSettle
  <2> QED
    BY Zenon, <2>6, <2>7, <2>8 DEF StreamInv
<1> QED
  BY Zenon, <1>5, <1>6

\* Both flush.
LEMMA StreamJointFlush ==
    ASSUME StreamHelpers, HelpersSound, Inv, StreamInv, JointFlush
    PROVE  StreamInv'
<1>1. /\ leader \in LeaderType /\ client \in ClientType /\ leader.rl \in RlType /\ Phases
      /\ leader.is_decrypting \in BOOLEAN /\ Counted(leader.rl)
  BY Zenon, Where, Parts
<1>2. leader.join = "Flush"
  BY Zenon DEF JointFlush, Joined
<1>3. client.pc = "frames" /\ leader.state # "Error"
  BY <1>1, <1>2 DEF Phases
<1>4. leader.state \in {"Handshake", "Active"} => client.frames = <<>>
  BY Zenon, <1>2 DEF StreamInv, PassesSettle, FramesHandled
<1>5. CASE Fail
  BY Zenon, <1>5, StreamFails
<1>6. CASE ~Fail
  <2> DEFINE dec == leader.is_decrypting
             q == flush(leader.rl, dec)
             ops == DecryptOps(leader.rl, dec)
  <2>1. /\ leader' = [leader EXCEPT !.join = "none", !.rl = q]
        /\ client' = [client EXCEPT !.pc = "incoming"]
    BY Zenon, <1>1, <1>6 DEF JointFlush, LeaderType
  <2>2. /\ q.started = leader.rl.started /\ q.encrypt_buffer = <<>>
        /\ q.decrypt_buffer = DeferredOps(leader.rl, dec)
        /\ q.decrypted_buffer = leader.rl.decrypted_buffer \o ops
        /\ q.sent_records = leader.rl.sent_records \o leader.rl.encrypt_buffer
        /\ q.recv_records = leader.rl.recv_records \o ops /\ ops \in Seq(Record)
    BY Zenon, <1>1, FlushLayer
  <2> HIDE DEF q
  <2>3. /\ leader'.state = leader.state /\ leader'.join = "none" /\ leader'.sf_vd = leader.sf_vd
        /\ leader'.is_decrypting = dec /\ leader'.rl = q
    BY Zenon, <1>1, <2>1 DEF LeaderType, Calls
  <2>4. /\ client'.pc = "incoming" /\ client'.pass = client.pass /\ client'.hs = client.hs
        /\ client'.frames = client.frames /\ client'.received = client.received
    BY Zenon, <1>1, <2>1 DEF ClientType
  <2>5. client'.pc # "done"
    BY <2>4
  <2>6. Delivered'
    <3>1. PICK o \in Seq(Record) : o = ops
      BY Zenon, <2>2
    <3>2. /\ leader'.rl.recv_records = leader.rl.recv_records \o o
          /\ leader'.rl.decrypted_buffer = leader.rl.decrypted_buffer \o o
      BY Zenon, <2>2, <2>3, <3>1
    <3> QED
      BY Zenon, <1>3, <2>4, <2>5, <3>2, MoreDelivered DEF StreamInv
  <2>7. NothingEarly'
    <3>1. /\ leader'.rl.started = leader.rl.started /\ leader'.rl.encrypt_buffer = <<>>
          /\ leader'.rl.sent_records = leader.rl.sent_records \o leader.rl.encrypt_buffer
      BY Zenon, <2>2, <2>3
    <3> DEFINE a == leader.rl.sent_records
               b == leader.rl.encrypt_buffer
    <3>2. a \in Seq(Record) /\ b \in Seq(Record)
      BY Zenon, <1>1 DEF RlType
    <3>3. \A i \in 1..Len(a \o b) : \/ \E j \in 1..Len(a) : (a \o b)[i] = a[j]
                                    \/ \E j \in 1..Len(b) : (a \o b)[i] = b[j]
      <4> HIDE DEF a, b
      <4> SUFFICES ASSUME NEW i \in 1..Len(a \o b)
                   PROVE  \/ \E j \in 1..Len(a) : (a \o b)[i] = a[j]
                          \/ \E j \in 1..Len(b) : (a \o b)[i] = b[j]
        BY Zenon
      <4>1. CASE i \in 1..Len(a)
        BY <3>2, <4>1
      <4>2. CASE i \notin 1..Len(a)
        <5>1. i - Len(a) \in 1..Len(b) /\ (a \o b)[i] = b[i - Len(a)]
          BY <3>2, <4>2
        <5> QED
          BY Zenon, <5>1
      <4> QED
        BY Zenon, <4>1, <4>2
    <3>4. \A i \in 1..Len(<<>>) : FALSE
      OBVIOUS
    <3>5. ~leader.sf_vd => \A i \in 1..Len(a \o b) : ~Private((a \o b)[i])
      BY Zenon, <3>3 DEF StreamInv, NothingEarly
    <3> QED
      BY Zenon, <2>3, <2>4, <3>1, <3>4, <3>5 DEF StreamInv, NothingEarly
  <2>8. PassesSettle'
    <3>1. Settled'
      <4>1. leader.rl.decrypt_buffer \in Seq(Record)
        BY Zenon, <1>1 DEF RlType
      <4>2. DecryptOps(q, dec) = <<>>
        BY Zenon, <1>1, <2>2, <4>1 DEF StreamHelpers
      <4> QED
        BY Zenon, <2>3, <4>2 DEF Settled
    <3>2. leader.state = "Active" /\ client.pass = 2 => ~CanTakeDecrypted(leader.rl)'
      <4> SUFFICES ASSUME leader.state = "Active", client.pass = 2
                   PROVE  ~CanTakeDecrypted(leader.rl)'
        BY Zenon
      <4>1. ops = <<>> /\ ~CanTakeDecrypted(leader.rl)
        BY Zenon, <1>3 DEF StreamInv, PassesSettle, Settled
      <4>2. leader.rl.decrypted_buffer \in Seq(Record)
        BY Zenon, <1>1 DEF RlType
      <4>3. leader.rl.decrypted_buffer \o <<>> = leader.rl.decrypted_buffer
        BY <4>2
      <4>4. leader'.rl.decrypted_buffer = leader.rl.decrypted_buffer
            /\ leader'.rl.started = leader.rl.started
        BY Zenon, <2>2, <2>3, <4>1, <4>3
      <4> QED
        BY Zenon, <4>1, <4>4 DEF CanTakeDecrypted, CanTake
    <3>3. leader'.rl.encrypt_buffer = <<>>
      BY Zenon, <2>2, <2>3
    <3> QED
      BY <1>4, <2>3, <2>4, <3>1, <3>2, <3>3 DEF PassesSettle
  <2> QED
    BY Zenon, <2>6, <2>7, <2>8 DEF StreamInv
<1> QED
  BY Zenon, <1>5, <1>6

\* Both commit.
LEMMA StreamCommit ==
    ASSUME HelpersSound, Inv, StreamInv, JointCommit
    PROVE  StreamInv'
<1>1. /\ leader \in LeaderType /\ client \in ClientType /\ leader.rl \in RlType /\ Phases
      /\ Counted(leader.rl)
  BY Zenon, Where, Parts
<1>2. leader.state # "Error"
  BY <1>1 DEF JointCommit, Joined, Phases
<1>3. CASE Fail
  BY Zenon, <1>3, StreamFails
<1>4. CASE ~Fail
  <2> DEFINE q == commit(leader.rl)
             closed == [leader EXCEPT !.state = "Closed", !.join = "none", !.rl = commit(@)]
             ops == leader.rl.decrypt_buffer
  <2>1. /\ leader' = closed
        /\ client' = [client EXCEPT !.pc = IF Drained(closed.rl) THEN "done" ELSE "close_active"]
    BY Zenon, <1>4 DEF JointCommit
  <2>2. /\ q.started = leader.rl.started /\ q.encrypt_buffer = leader.rl.encrypt_buffer
        /\ q.decrypted_buffer = leader.rl.decrypted_buffer \o ops
        /\ q.sent_records = leader.rl.sent_records
        /\ q.recv_records = leader.rl.recv_records \o ops
    BY Zenon, <1>1, CommitLayer
  <2>3. ops \in Seq(Record)
    BY Zenon, <1>1 DEF RlType
  <2>4. closed = [leader EXCEPT !.state = "Closed", !.join = "none", !.rl = q]
    BY Zenon, <1>1 DEF LeaderType
  <2> HIDE DEF q, closed
  <2>5. /\ leader'.state = "Closed" /\ leader'.join = "none" /\ leader'.sf_vd = leader.sf_vd
        /\ leader'.rl = q /\ closed.rl = q
    BY Zenon, <1>1, <2>1, <2>4 DEF LeaderType, Calls
  <2>6. /\ client'.pc = IF Drained(q) THEN "done" ELSE "close_active"
        /\ client'.hs = client.hs /\ client'.received = client.received
        /\ client'.unread = client.unread
    BY Zenon, <1>1, <2>1, <2>5 DEF ClientType
  <2>7. client'.pc \in {"done", "close_active"}
    BY Zenon, <2>6
  <2>8. client'.pc = "done" => leader'.rl.decrypted_buffer = <<>> /\ ~client'.unread
    <3>1. client'.pc = "done" => Drained(q)
      BY <2>6
    <3> QED
      BY Zenon, <2>5, <2>6, <3>1 DEF Drained, is_empty
  <2>9. Delivered'
    <3>1. PICK o \in Seq(Record) : o = ops
      BY Zenon, <2>3
    <3>2. /\ leader'.rl.recv_records = leader.rl.recv_records \o o
          /\ leader'.rl.decrypted_buffer = leader.rl.decrypted_buffer \o o
      BY Zenon, <2>2, <2>5, <3>1
    <3> QED
      BY Zenon, <1>2, <2>6, <2>8, <3>2, MoreDelivered DEF StreamInv
  <2>10. NothingEarly'
    <3>1. /\ leader'.rl.started = leader.rl.started
          /\ leader'.rl.encrypt_buffer = leader.rl.encrypt_buffer
          /\ leader'.rl.sent_records = leader.rl.sent_records
      BY Zenon, <2>2, <2>5
    <3> QED
      BY Zenon, <2>5, <2>6, <3>1, KeepEarly DEF StreamInv
  <2>11. PassesSettle'
    BY <2>5, <2>7 DEF PassesSettle
  <2> QED
    BY Zenon, <2>9, <2>10, <2>11 DEF StreamInv
<1> QED
  BY Zenon, <1>3, <1>4
-----------------------------------------------------------------------------
(* The stream's invariant holds, and what it says. *)

\* Nothing has been taken at the beginning.
LEMMA StreamInit ==
    ASSUME StreamHelpers, Init
    PROVE  StreamInv
<1>1. /\ leader.state = "Init" /\ leader.join = "none" /\ leader.sf_vd = FALSE
      /\ leader.rl = NewRecordLayer("Leader")
      /\ client.pc = "off" /\ client.hs = "ServerHello" /\ client.received = <<>>
  BY DEF Init
<1>2. /\ leader.rl.recv_records = <<>> /\ leader.rl.decrypted_buffer = <<>>
      /\ leader.rl.started = FALSE /\ leader.rl.encrypt_buffer = <<>>
      /\ leader.rl.sent_records = <<>>
  BY ONLY <1>1 DEF NewRecordLayer
<1>3. Delivered
  <2>1. Taken = 0 /\ SubSeq(<<>>, 1, 0) = <<>>
    BY ONLY <1>2 DEF Taken
  <2>2. client.received = AppSeqs(SubSeq(leader.rl.recv_records, 1, Taken))
    BY Zenon, <1>1, <1>2, <2>1 DEF StreamHelpers
  <2> QED
    BY <1>1, <1>2, <2>2 DEF Delivered
<1>4. NothingEarly
  BY <1>1, <1>2 DEF NothingEarly
<1>5. PassesSettle
  BY <1>1 DEF PassesSettle
<1> QED
  BY Zenon, <1>3, <1>4, <1>5 DEF StreamInv

\* Every step of MpcTls keeps the stream's invariant.
LEMMA StreamNext ==
    ASSUME StreamHelpers, HelpersSound, Inv, StreamInv, [Next]_vars
    PROVE  StreamInv'
<1>1. CASE LeaderNext
  <2>1. CASE RefuseHandshake \/ LeaderPeerGone
    BY Zenon, <2>1, StreamFails DEF RefuseHandshake, LeaderPeerGone
  <2> QED
    BY Zenon, <1>1, <2>1, StreamSetUp, StreamPoll, StreamPlaintext, StreamFrames, StreamFlush,
       StreamIncoming, StreamPasses, StreamCloses DEF LeaderNext
<1>2. CASE FollowerNext \/ Terminated \/ UNCHANGED vars
  BY Zenon, <1>2, StreamFollower
<1>3. CASE Joint
  BY Zenon, <1>3, StreamSetUp, StreamKeys, StreamFinished, StreamJointFlush, StreamCommit DEF Joint
<1>4. CASE Environment
  BY Zenon, <1>4, StreamApp, StreamServer, StreamFollower DEF Environment
<1> QED
  BY Zenon, <1>1, <1>2, <1>3, <1>4 DEF Next

\* The application's stream, from its invariant.
LEMMA InvApplicationStream ==
    ASSUME Inv, StreamInv
    PROVE  ApplicationStream
<1>1. leader \in LeaderType /\ client \in ClientType /\ leader.rl \in RlType /\ Phases
  BY Zenon, Where
<1>2. DeliveredInOrder
  <2> SUFFICES ASSUME client.pc # "failed"
               PROVE  /\ client.received = AppSeqs(SubSeq(leader.rl.recv_records, 1, Taken))
                      /\ client.pc = "done" =>
                           client.received = AppSeqs(leader.rl.recv_records) /\ ~client.unread
    BY Zenon DEF DeliveredInOrder, Taken
  <2>1. leader.state # "Error"
    BY Zenon, <1>1 DEF Phases
  <2>2. /\ client.received = AppSeqs(SubSeq(leader.rl.recv_records, 1, Taken))
        /\ client.pc = "done" => leader.rl.decrypted_buffer = <<>> /\ ~client.unread
    BY Zenon, <2>1 DEF StreamInv, Delivered
  <2>3. leader.rl.decrypted_buffer = <<>> =>
          SubSeq(leader.rl.recv_records, 1, Taken) = leader.rl.recv_records
    <3>1. leader.rl.recv_records \in Seq(Record)
      BY Zenon, <1>1 DEF RlType
    <3> DEFINE R == leader.rl.recv_records
    <3>2. leader.rl.decrypted_buffer = <<>> => Taken = Len(R)
      BY <3>1 DEF Taken
    <3>3. SubSeq(R, 1, Len(R)) = R
      <4> HIDE DEF R
      <4> QED
        BY <3>1 DEF R
    <3> QED
      BY Zenon, <3>2, <3>3
  <2> QED
    BY Zenon, <2>2, <2>3
<1>3. NoDataBeforeFinished
  BY Zenon DEF StreamInv, NothingEarly, NoDataBeforeFinished
<1>4. RunFlushesAll
  <2> SUFFICES ASSUME leader.state = "Active", NEW task, RunDone(task)
               PROVE  leader.rl.encrypt_buffer = <<>>
    BY Zenon DEF RunFlushesAll
  <2>1. client.pc = "incoming" /\ client.pass = 2
    BY Zenon DEF RunDone, EndOfPass, At
  <2> QED
    BY Zenon, <2>1 DEF StreamInv, PassesSettle
<1> QED
  BY Zenon, <1>2, <1>3, <1>4 DEF ApplicationStream
-----------------------------------------------------------------------------
(* What the invariant says of the parties. *)

\* The sequences of a record layer.
LEMMA LayerTyped ==
    ASSUME NEW r \in RlType, Counted(r)
    PROVE  /\ r.state \in {"Init", "Online", "Complete", "Error"}
           /\ \A s \in {r.encrypt_buffer, r.decrypt_buffer, r.encrypted_buffer,
                        r.decrypted_buffer, r.sent_records, r.recv_records} : RecordSeq(s)
<1>1. /\ r.encrypt_buffer \in Seq(Record) /\ r.decrypt_buffer \in Seq(Record)
      /\ r.encrypted_buffer \in Seq(Record) /\ r.decrypted_buffer \in Seq(Record)
      /\ r.sent_records \in Seq(Record) /\ r.recv_records \in Seq(Record)
      /\ r.sent \in Nat /\ r.recv \in Nat
      /\ r.state \in {"Init", "Online", "Complete", "Error"}
  BY Zenon DEF RlType
<1>2. \A s \in Seq(Record) : Len(s) <= MaxSent + MaxRecv => RecordSeq(s)
  BY DEF RecordSeq
<1>3. \A s \in Seq(Record) : Len(s) \in Nat
  OBVIOUS
<1>4. PICK a \in Nat, b \in Nat, c \in Nat, d \in Nat, e \in Nat, f \in Nat :
        /\ a = Len(r.encrypt_buffer) /\ b = Len(r.decrypt_buffer)
        /\ c = Len(r.encrypted_buffer) /\ d = Len(r.decrypted_buffer)
        /\ e = Len(r.sent_records) /\ f = Len(r.recv_records)
  BY Zenon, <1>1, <1>3
<1>5. /\ r.sent = e + a /\ r.recv = f + b /\ r.sent <= MaxSent /\ r.recv <= MaxRecv
      /\ c <= e /\ d <= f
  BY Zenon, <1>4 DEF Counted
<1>6. MaxSent \in Nat /\ MaxRecv \in Nat
  BY LimitsAssumption
<1>7. /\ a <= MaxSent + MaxRecv /\ b <= MaxSent + MaxRecv /\ c <= MaxSent + MaxRecv
      /\ d <= MaxSent + MaxRecv /\ e <= MaxSent + MaxRecv /\ f <= MaxSent + MaxRecv
  BY <1>1, <1>5, <1>6
<1>8. /\ RecordSeq(r.encrypt_buffer) /\ RecordSeq(r.decrypt_buffer)
      /\ RecordSeq(r.encrypted_buffer) /\ RecordSeq(r.decrypted_buffer)
      /\ RecordSeq(r.sent_records) /\ RecordSeq(r.recv_records)
  BY Zenon, <1>1, <1>2, <1>4, <1>7
<1> QED
  BY Zenon, <1>1, <1>8

\* The same base and the same queues make the same view.
LEMMA SameView ==
    ASSUME NEW r \in RlType, NEW s \in RlType, Counted(r), Counted(s), SameBase(r, s),
           r.encrypt_buffer = s.encrypt_buffer, r.decrypt_buffer = s.decrypt_buffer
    PROVE  View(r) = View(s)
<1>1. /\ r.write_seq = s.write_seq /\ r.read_seq = s.read_seq /\ r.sent = s.sent
      /\ r.recv = s.recv
  BY Zenon DEF Counted, SameBase
<1> QED
  BY Zenon, <1>1 DEF View, SameBase

\* Parties that have caught up have the same view of the record layer.
LEMMA InvLockstep ==
    ASSUME Inv
    PROVE  Lockstep
<1> SUFFICES ASSUME CaughtUp
             PROVE  /\ View(leader.rl) = View(follower.rl)
                    /\ leader.join = "Flush" => follower.dec = leader.is_decrypting
  BY Zenon DEF Lockstep
<1>1. /\ chan = <<>> /\ leader.join = follower.join
      /\ leader.state # "Error" /\ follower.state # "Error"
  BY Zenon DEF CaughtUp
<1>2. /\ leader \in LeaderType /\ follower \in FollowerType
      /\ leader.rl \in RlType /\ Counted(leader.rl) /\ follower.rl \in RlType /\ Counted(follower.rl)
      /\ LeaderInv
  BY Zenon, Parts DEF Inv
<1>3. CASE leader.state \in {"Init", "Setup"}
  <2>1. Fresh(leader, "Leader") /\ Fresh(follower, "Follower")
    BY Zenon, <1>3 DEF Inv, Pairing
  <2>2. \/ leader.rl = NewRecordLayer("Leader") /\ follower.rl = NewRecordLayer("Follower")
        \/ leader.rl = alloc(NewRecordLayer("Leader"))
           /\ follower.rl = alloc(NewRecordLayer("Follower"))
    BY <1>1, <2>1 DEF Fresh
  <2>3. /\ View(NewRecordLayer("Leader")) = View(NewRecordLayer("Follower"))
        /\ View(alloc(NewRecordLayer("Leader"))) = View(alloc(NewRecordLayer("Follower")))
    BY DEF View, alloc, NewRecordLayer
  <2>4. leader.join # "Flush"
    BY <2>1 DEF Fresh
  <2> QED
    BY Zenon, <2>2, <2>3, <2>4
<1>4. CASE leader.state \notin {"Init", "Setup"}
  <2>1. Running
    <3>1. follower.state \notin {"Init", "Setup"}
      BY Zenon, <1>4 DEF Inv, Pairing
    <3> QED
      BY <1>1, <1>2, <1>4, <3>1 DEF Running, LeaderType, FollowerType
  <2>2. Meets
    BY Zenon, <2>1 DEF Inv, Synced
  <2>3. leader.join = "Flush" => follower.dec = leader.is_decrypting
    BY <1>1, <2>2 DEF Meets
  <2>4. OnTheWay(FALSE)
    <3>1. leader.join = "none" \/ follower.join # "none"
      BY <1>1
    <3> QED
      BY Zenon, <2>1, <3>1, InTouch
  <2>5. PositionOf(follower.rl, follower.have) = PositionOf(leader.rl, Told)
    <3> DEFINE v == PositionOf(follower.rl, follower.have)
               w == PositionOf(leader.rl, Told)
               n == Len(leader.rl.sent_records)
               k == Len(leader.rl.recv_records)
    <3>1. v \in Position /\ w \in Position
      BY Zenon, <1>2, ToldType, IsPosition DEF FollowerType
    <3>2. Leads(<<>>, v, w, n, k, FALSE)
      BY Zenon, <1>1, <2>4 DEF OnTheWay
    <3>3. v = w
      <4> HIDE DEF v, w, n, k
      <4> QED
        BY Zenon, <3>1, <3>2, LeadsEmpty
    <3> QED
      BY Zenon, <3>3
  <2>6. /\ leader.rl.encrypt_buffer = follower.rl.encrypt_buffer
        /\ leader.rl.decrypt_buffer = follower.rl.decrypt_buffer
    BY ONLY <2>5 DEF PositionOf
  <2>7. SameBase(leader.rl, follower.rl)
    BY Zenon, <2>4 DEF OnTheWay
  <2>8. View(leader.rl) = View(follower.rl)
    BY Zenon, <1>2, <2>6, <2>7, SameView
  <2> QED
    BY Zenon, <2>3, <2>8
<1> QED
  BY Zenon, <1>3, <1>4

\* The parties are never in two different computations.
LEMMA InvNoCrossWait ==
    ASSUME Inv
    PROVE  NoCrossWait
<1>1. leader \in LeaderType /\ follower \in FollowerType /\ Phases
  BY Zenon, Parts DEF Inv, LeaderInv
<1>2. leader.join # "none" => leader.state \in {"Setup", "Handshake", "Active"}
  BY <1>1 DEF Phases, LeaderType
<1>3. follower.join # "none" => follower.state \in {"Setup", "Ready"}
  <2>1. follower.state \in {"Done", "Error"} => follower.join = "none"
    BY Zenon DEF Inv, FollowerInv
  <2>2. follower.state = "Init" => follower.join = "none"
    BY DEF Inv, Pairing, Fresh
  <2> QED
    BY <1>1, <2>1, <2>2 DEF FollowerType
<1>4. leader.join # "none" => follower.state # "Done"
  BY <1>2 DEF Inv, Pairing
<1>5. follower.join # "none" => leader.state # "Closed"
  BY <1>3 DEF Inv, Pairing
<1>6. ASSUME leader.join # "none", follower.join # "none"
      PROVE  leader.join = follower.join
  <2>1. CASE leader.state = "Setup"
    <3>1. Fresh(leader, "Leader") /\ Fresh(follower, "Follower")
      BY <2>1 DEF Inv, Pairing
    <3> QED
      BY <1>6, <3>1 DEF Fresh
  <2>2. CASE leader.state \in {"Handshake", "Active"}
    <3>1. Running
      <4>1. follower.state # "Setup"
        BY <2>2 DEF Inv, Pairing
      <4> QED
        BY <1>3, <1>6, <2>2, <4>1 DEF Running
    <3> QED
      BY Zenon, <1>6, <3>1 DEF Inv, Synced, Meets
  <2> QED
    BY <1>2, <1>6, <2>1, <2>2
<1> QED
  BY Zenon, <1>4, <1>5, <1>6 DEF NoCrossWait

\* The parties are in step, in states of the code.
LEMMA InvInStep ==
    ASSUME Inv
    PROVE  InStep
<1>1. /\ leader \in LeaderType /\ follower \in FollowerType /\ client \in ClientType
      /\ leader.rl \in RlType /\ Counted(leader.rl) /\ follower.rl \in RlType /\ Counted(follower.rl)
  BY Zenon, Parts DEF Inv
<1>2. \A r \in {leader.rl, follower.rl} :
         /\ r.state \in {"Init", "Online", "Complete", "Error"}
         /\ \A s \in {r.encrypt_buffer, r.decrypt_buffer, r.encrypted_buffer,
                      r.decrypted_buffer, r.sent_records, r.recv_records} : RecordSeq(s)
  BY Zenon, <1>1, LayerTyped
<1>3. /\ leader.state \in {"Init", "Setup", "Handshake", "Active", "Closed", "Error"}
      /\ follower.state \in {"Init", "Setup", "Ready", "Done", "Error"}
      /\ leader.join \in Calls /\ follower.join \in Calls /\ follower.have \in SUBSET Everything
      /\ client.pc \in {"off", "active", "start", "frames", "incoming", "traffic",
                        "close_active", "done", "failed"}
      /\ client.hs \in {"ServerHello", "ServerDone", "Ccs", "Finished", "Traffic"}
  BY Zenon, <1>1 DEF LeaderType, FollowerType, ClientType
<1>4. {leader.join, follower.join}
         \subseteq {"none", "Preprocess", "Setup", "CfVd", "SfVd", "Flush", "Commit"}
  BY Zenon, <1>3 DEF Calls
<1>5. TypeOK
  BY Zenon, <1>2, <1>3, <1>4 DEF TypeOK
<1> QED
  BY Zenon, <1>5, InvLockstep, InvNoCrossWait DEF InStep

\* The close is one for both, and finds the Finished records.
LEMMA InvCloseAgreed ==
    ASSUME Inv
    PROVE  CloseAgreed
<1>1. CloseAgreement
  BY Zenon DEF Inv, Pairing, CloseAgreement
<1>2. FinishedRecorded
  <2> SUFFICES ASSUME leader.join = "Commit"
               PROVE  leader.rl.sent_records # <<>> /\ leader.rl.recv_records # <<>>
    BY Zenon DEF FinishedRecorded
  <2>1. leader \in LeaderType /\ Phases /\ FinishedSeen /\ leader.rl \in RlType /\ Counted(leader.rl)
    BY Zenon, Parts DEF Inv, LeaderInv
  <2>2. leader.state = "Active" /\ client.hs = "Traffic"
    BY <2>1 DEF Phases, LeaderType
  <2>3. /\ leader.rl.sent >= 1 /\ leader.rl.recv_records # <<>>
        /\ leader.rl.encrypt_buffer = <<>>
    BY <2>1, <2>2 DEF FinishedSeen
  <2>4. leader.rl.sent = Len(leader.rl.sent_records) + Len(leader.rl.encrypt_buffer)
    BY Zenon, <2>1 DEF Counted
  <2>5. leader.rl.sent_records # <<>>
    BY ONLY <2>3, <2>4
  <2> QED
    BY Zenon, <2>3, <2>5
<1> QED
  BY Zenon, <1>1, <1>2 DEF CloseAgreed

-----------------------------------------------------------------------------
(* The beginning, and steps of nothing. *)

\* The invariant holds before the set-up.
LEMMA InitInv ==
    ASSUME Init
    PROVE  Inv
<1>1. PICK decrypt \in BOOLEAN :
        /\ leader = [ state |-> "Init", rl |-> NewRecordLayer("Leader"), join |-> "none",
                      cf_vd |-> FALSE, sf_vd |-> FALSE, is_decrypting |-> decrypt ]
        /\ follower = [ state |-> "Init", rl |-> NewRecordLayer("Follower"), join |-> "none",
                        have |-> {}, dec |-> TRUE ]
        /\ chan = <<>>
        /\ client = [ pc |-> "off", task |-> "run", pass |-> 1, changed |-> FALSE,
                      hs |-> "ServerHello", frames |-> <<>>, plaintext |-> 0, written |-> 0,
                      received |-> <<>>, unread |-> FALSE, decrypt |-> decrypt,
                      wants_close |-> FALSE, client_closed |-> FALSE, close_notify |-> FALSE ]
        /\ server = [ next |-> "ServerHello", sent |-> 0, closed |-> FALSE ]
  BY Zenon DEF Init
<1>2. \A role \in {"Leader", "Follower"} :
        /\ NewRecordLayer(role) \in RlType /\ Counted(NewRecordLayer(role))
        /\ NewRecordLayer(role).role = role
  BY Zenon, NewLayer
<1>3. /\ leader \in LeaderType /\ leader.rl = NewRecordLayer("Leader") /\ leader.state = "Init"
      /\ leader.join = "none"
  BY <1>1, <1>2 DEF LeaderType, Calls
<1>4. /\ follower \in FollowerType /\ follower.rl = NewRecordLayer("Follower")
      /\ follower.state = "Init" /\ follower.join = "none" /\ follower.have = {}
  BY <1>1, <1>2 DEF FollowerType, Calls, Everything
<1>5. /\ client \in ClientType /\ client.pc = "off" /\ client.hs = "ServerHello"
      /\ client.frames = <<>> /\ client.task = "run"
  BY <1>1 DEF ClientType
<1>6. server \in ServerType /\ server.next = "ServerHello"
  BY <1>1 DEF ServerType
<1>7. LeaderInv
  <2>1. Phases
    BY <1>3, <1>5 DEF Phases
  <2>2. FramesInOrder
    BY <1>3, <1>5, <1>6 DEF FramesInOrder, Passed, Greeted
  <2>3. FinishedSeen
    BY <1>3, <1>5 DEF FinishedSeen
  <2> QED
    BY Zenon, <1>2, <1>3, <1>5, <1>6, <2>1, <2>2, <2>3 DEF LeaderInv
<1>8. FollowerInv(follower)
  BY <1>2, <1>4 DEF FollowerInv
<1>9. Pairing
  BY <1>1, <1>3, <1>4 DEF Pairing, Fresh
<1>10. Synced
  BY <1>3 DEF Synced, Running
<1>11. chan \in Seq(Message)
  BY <1>1
<1> QED
  BY Zenon, <1>7, <1>8, <1>9, <1>10, <1>11 DEF Inv

\* A stuttering step.
LEMMA StutterInv ==
    ASSUME Inv, UNCHANGED vars
    PROVE  Inv'
<1>1. UNCHANGED <<leader, follower, chan, client, server>>
  BY Zenon DEF vars
<1>2. Passed' = Passed /\ Told' = Told
  BY <1>1 DEF Passed, Told
<1>3. LeaderInv'
  <2>1. Phases' /\ FinishedSeen'
    BY Zenon, <1>1 DEF Inv, LeaderInv, Phases, FinishedSeen
  <2>2. FramesInOrder'
    BY Zenon, <1>1, <1>2 DEF Inv, LeaderInv, FramesInOrder, Greeted
  <2> QED
    BY Zenon, <1>1, <2>1, <2>2 DEF Inv, LeaderInv
<1>4. Synced'
  BY Zenon, <1>1, <1>2 DEF Inv, Synced, Running, Meets, OnTheWay, Announces
<1>5. Pairing' /\ FollowerInv(follower)' /\ (chan \in Seq(Message))'
  BY Zenon, <1>1 DEF Inv, Pairing, Fresh, FollowerInv
<1> QED
  BY Zenon, <1>3, <1>4, <1>5 DEF Inv
=============================================================================
