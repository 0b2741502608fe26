------------------------------- MODULE MpcTls -------------------------------
(***************************************************************************)
(* An MPC-TLS connection: MpcTlsLeader, driven through the Backend trait   *)
(* by the prover's TLS client, and MpcTlsFollower, driven by the leader's  *)
(* messages.                                                               *)
(*                                                                         *)
(* The two share one ordered channel.  The leader announces every          *)
(* operation with a message and, when the operation is a two-party         *)
(* computation, enters it at once; the follower enters it when it comes to *)
(* the message.  `join' is the computation a party is in, and a Joint      *)
(* action is its completion: it needs both parties in it.                  *)
(*                                                                         *)
(* The TLS client is the part of tls-client that calls the backend:        *)
(* process_new_packets (client.pc is the position in it), called twice or  *)
(* more by InnerState::run, which runs by itself or as the first half of   *)
(* client_close and server_close (client.task).  The handshake messages    *)
(* that are not encrypted are reduced to those that reach the backend.     *)
(*                                                                         *)
(* A failing call ends its party: the TLS client is dropped, and with it   *)
(* the leader and the channel.                                             *)
(***************************************************************************)
EXTENDS RecordLayerOps

CONSTANTS
    MaxWrites,          \* bound: records of plaintext the application writes
    MaxFrames,          \* bound: records the server sends once it encrypts
    ServerTypes,        \* bound: the content types among these
    MaxPending          \* bound: messages the channel takes before a flush waits

ASSUME MpcTlsAssumption ==
    /\ MaxWrites \in Nat /\ MaxFrames \in Nat
    /\ ServerTypes \subseteq ContentType
    /\ MaxLen >= 1
    /\ MaxPending \in Nat \ {0}

VARIABLES
    leader,             \* MpcTlsLeader
    follower,           \* MpcTlsFollower
    chan,               \* messages sent by the leader, not read by the follower
    client,             \* the TLS client and the application above it
    server              \* the TLS server

vars == <<leader, follower, chan, client, server>>

\* config.defer_decryption is the user's choice.
Init == \E decrypt \in BOOLEAN :
    /\ leader = [ state |-> "Init", rl |-> NewRecordLayer("Leader"), join |-> "none",
                  cf_vd |-> FALSE, sf_vd |-> FALSE, is_decrypting |-> decrypt ]
    /\ follower = [ state |-> "Init", rl |-> NewRecordLayer("Follower"), join |-> "none",
                    have |-> {}, dec |-> TRUE ]
    /\ chan = <<>>
    /\ client = [ pc |-> "off", task |-> "run", pass |-> 1, changed |-> FALSE,
                  hs |-> "ServerHello", frames |-> <<>>, plaintext |-> 0, written |-> 0,
                  received |-> <<>>, unread |-> FALSE, decrypt |-> decrypt,
                  wants_close |-> FALSE, client_closed |-> FALSE, close_notify |-> FALSE ]
    /\ server = [ next |-> "ServerHello", sent |-> 0, closed |-> FALSE ]

-----------------------------------------------------------------------------
(* Messages. *)

Msg(kind) == [kind |-> kind]
EncryptMsg(typ) == [kind |-> "Encrypt", typ |-> typ]
DecryptMsg(typ, ok) == [kind |-> "Decrypt", typ |-> typ, ok |-> ok]
FlushMsg(dec) == [kind |-> "Flush", is_decrypting |-> dec]

\* Every record is one byte long: the byte limits count records here.
RecordLen == 1

-----------------------------------------------------------------------------
(* The set-up both parties make before the connection. *)

LeaderAlloc ==
    /\ leader.state = "Init"
    /\ leader' = [leader EXCEPT !.state = "Setup", !.rl = alloc(@), !.join = "Preprocess"]
    /\ UNCHANGED <<follower, chan, client, server>>

FollowerAlloc ==
    /\ follower.state = "Init"
    /\ follower' = [follower EXCEPT !.state = "Setup", !.rl = alloc(@), !.join = "Preprocess"]
    /\ UNCHANGED <<leader, chan, client, server>>

\* Both parties are in the same two-party computation.
Joined(op) == leader.join = op /\ follower.join = op

JointPreprocess ==
    /\ Joined("Preprocess")
    /\ leader' = [leader EXCEPT !.state = "Handshake", !.join = "none"]
    /\ follower' = [follower EXCEPT !.state = "Ready", !.join = "none"]
    /\ chan' = Append(chan, Msg("SetClientRandom"))
    /\ client' = [client EXCEPT !.pc = "active"]
    /\ UNCHANGED server

-----------------------------------------------------------------------------
(* The leader's side.  The TLS client only runs while no call is waiting. *)

\* The TLS client is at this point of its code.
At(pc) == client.pc = pc /\ leader.join = "none"

\* A backend call, or the TLS client above it, fails: everything is dropped.
Fail ==
    /\ leader' = [leader EXCEPT !.state = "Error", !.join = "none",
                                !.rl = NewRecordLayer("Leader")]
    /\ client' = [client EXCEPT !.pc = "failed", !.frames = <<>>, !.plaintext = 0]

\* push_outgoing returns Ok.
CanPushOutgoing ==
    leader.state \in {"Handshake", "Active"} /\ CanPushEncrypt(leader.rl, RecordLen)

\* push_outgoing: the record layer first, then the message.
PushOutgoing(typ) ==
    /\ leader' = [leader EXCEPT !.rl = push_encrypt(@, typ, RecordLen)]
    /\ chan' = Append(chan, EncryptMsg(typ))

\* push_incoming returns Ok.
CanPushIncoming ==
    leader.state \in {"Handshake", "Active"} /\ CanPushDecrypt(leader.rl, RecordLen)

PushIncoming(typ, ok) ==
    /\ leader' = [leader EXCEPT !.rl = push_decrypt(@, typ, RecordLen, ok)]
    /\ chan' = Append(chan, DecryptMsg(typ, ok))

\* MpcTlsClient::poll in its Active state: a pending close comes first, then a
\* change of the decryption flag, which only takes effect between two runs.
Poll ==
    /\ At("active")
    /\ LET traffic == client.hs = "Traffic"
           task == IF traffic /\ server.closed THEN "server_close"
                   ELSE IF traffic /\ client.wants_close THEN "client_close" ELSE "run"
       IN /\ client' = [client EXCEPT !.pc = "start", !.task = task,
                                      !.pass = 1, !.changed = FALSE]
          /\ leader' = IF traffic /\ task = "run"
                       THEN [leader EXCEPT !.is_decrypting = client.decrypt] ELSE leader
    /\ UNCHANGED <<follower, chan, server>>

\* MpcTlsClient::poll in its CloseActive state.
PollClosing ==
    /\ At("close_active")
    /\ client' = [client EXCEPT !.pc = "start", !.task = "close_run",
                                !.pass = 1, !.changed = FALSE]
    /\ UNCHANGED <<leader, follower, chan, server>>

\* flush_plaintext, one record at a time: at the start of process_new_packets,
\* where it does nothing during the handshake, and in start_traffic.
FlushPlaintext ==
    /\ At("start") \/ At("traffic")
    /\ IF client.plaintext > 0 /\ client.hs = "Traffic"
       THEN IF CanPushOutgoing
            THEN /\ PushOutgoing("ApplicationData")
                 /\ client' = [client EXCEPT !.plaintext = @ - 1]
            ELSE Fail /\ UNCHANGED chan
       ELSE /\ client' = [client EXCEPT !.pc = IF @ = "start" THEN "frames" ELSE "incoming"]
            /\ UNCHANGED <<leader, chan>>
    /\ UNCHANGED <<follower, server>>

\* The frames loop of process_new_packets takes the next frame.
NextFrame == At("frames") /\ client.frames # <<>>

\* A handshake message the TLS client refuses: a wrong parameter, certificate
\* or signature.
RefuseHandshake ==
    /\ NextFrame /\ client.hs \in {"ServerHello", "ServerDone"}
    /\ Fail
    /\ UNCHANGED <<follower, chan, server>>

\* ExpectServerHello: set_protocol_version, set_cipher_suite, set_server_random.
HandleServerHello ==
    /\ NextFrame /\ client.hs = "ServerHello"
    /\ client' = [client EXCEPT !.frames = Tail(@), !.hs = "ServerDone"]
    /\ chan' = chan \o <<Msg("StartHandshake"), Msg("SetServerRandom")>>
    /\ UNCHANGED <<leader, follower, server>>

\* ExpectServerDone: set_server_kx_details and set_server_key_share, then
\* prepare_encryption, which computes the keys with the follower.
HandleServerDone ==
    /\ NextFrame /\ client.hs = "ServerDone"
    /\ client' = [client EXCEPT !.frames = Tail(@), !.changed = TRUE]
    /\ chan' = Append(chan, Msg("SetServerKey"))
    /\ leader' = [leader EXCEPT !.join = "Setup"]
    /\ UNCHANGED <<follower, server>>

\* ExpectCcs: the server's records are encrypted from here on.
HandleCcs ==
    /\ NextFrame /\ client.hs = "Ccs"
    /\ client' = [client EXCEPT !.frames = Tail(@), !.hs = "Finished"]
    /\ UNCHANGED <<leader, follower, chan, server>>

\* An encrypted frame goes to the backend.
HandleOpaque ==
    /\ NextFrame /\ client.hs \in {"Finished", "Traffic"}
    /\ IF CanPushIncoming
       THEN /\ PushIncoming(Head(client.frames).typ, Head(client.frames).ok)
            /\ client' = [client EXCEPT !.frames = Tail(@)]
       ELSE Fail /\ UNCHANGED chan
    /\ UNCHANGED <<follower, server>>

\* record_layer.flush gets as far as the two-party computation.
FlushStarts(r, dec) ==
    /\ WithinOnlineLimit(r, dec)
    /\ EncrypterServes(r)
    /\ DecrypterServes(r, DecryptOps(r, dec))
    /\ OtpServes(r, DecryptOps(r, dec))

\* The leader's flush, after the frames loop.  The message goes out first,
\* also when the record layer then finds nothing to process or refuses: as long
\* as application data is deferred every pass sends one, which is why the model
\* needs the bound a transport has anyway.
Flush ==
    /\ At("frames") /\ client.frames = <<>> /\ Len(chan) < MaxPending
    /\ LET dec == leader.is_decrypting
           done == client' = [client EXCEPT !.pc = "incoming"]
       IN IF leader.state = "Handshake" \/ ~wants_flush(leader.rl)
          THEN done /\ UNCHANGED <<leader, chan>>
          ELSE /\ chan' = Append(chan, FlushMsg(dec))
               /\ \/ ~HasOps(leader.rl, dec) /\ done /\ UNCHANGED leader
                  \/ /\ HasOps(leader.rl, dec) /\ FlushStarts(leader.rl, dec)
                     /\ leader' = [leader EXCEPT !.join = "Flush"]
                     /\ UNCHANGED client
                  \/ HasOps(leader.rl, dec) /\ ~FlushStarts(leader.rl, dec) /\ Fail
    /\ UNCHANGED <<follower, server>>

\* next_incoming returns a record of this type.
NextIncoming(typ) ==
    /\ At("incoming") /\ CanTakeDecrypted(leader.rl)
    /\ Head(leader.rl.decrypted_buffer).typ = typ

\* The server's Finished: get_server_finished_vd.
HandleFinished ==
    /\ NextIncoming("Handshake") /\ client.hs = "Finished"
    /\ leader' = [leader EXCEPT !.rl = next_decrypted(@), !.join = "SfVd"]
    /\ chan' = Append(chan, Msg("ServerFinishedVd"))
    /\ UNCHANGED <<follower, client, server>>

\* A handshake message after the handshake: a HelloRequest is answered with a
\* no_renegotiation warning, any other message is an error.
HandleRenegotiation ==
    /\ NextIncoming("Handshake") /\ client.hs = "Traffic"
    /\ \/ /\ CanPushOutgoing
          /\ leader' = [leader EXCEPT
                          !.rl = push_encrypt(next_decrypted(@), "OtherAlert", RecordLen)]
          /\ chan' = Append(chan, EncryptMsg("OtherAlert"))
          /\ UNCHANGED client
       \/ Fail /\ UNCHANGED chan
    /\ UNCHANGED <<follower, server>>

\* process_alert: close_notify is noted; another alert is ignored when it is a
\* warning and ends the connection when it is fatal.
HandleAlert ==
    /\ NextIncoming("Alert") \/ NextIncoming("OtherAlert")
    /\ \/ /\ leader' = [leader EXCEPT !.rl = next_decrypted(@)]
          /\ client' = [client EXCEPT !.close_notify = @ \/ NextIncoming("Alert")]
       \/ NextIncoming("OtherAlert") /\ Fail
    /\ UNCHANGED <<follower, chan, server>>

\* ExpectTraffic: take_received_plaintext.
HandleAppData ==
    /\ NextIncoming("ApplicationData")
    /\ leader' = [leader EXCEPT !.rl = next_decrypted(@)]
    /\ client' = [client EXCEPT
                    !.received = Append(@, Head(leader.rl.decrypted_buffer).seq),
                    !.unread = TRUE, !.changed = TRUE]
    /\ UNCHANGED <<follower, chan, server>>

\* process_new_packets queues what was encrypted.
NextOutgoing ==
    /\ At("incoming") /\ ~CanTakeDecrypted(leader.rl) /\ CanTakeEncrypted(leader.rl)
    /\ leader' = [leader EXCEPT !.rl = next_encrypted(@)]
    /\ client' = [client EXCEPT !.changed = TRUE]
    /\ UNCHANGED <<follower, chan, server>>

\* process_new_packets returns.
EndOfPass ==
    /\ At("incoming") /\ ~CanTakeDecrypted(leader.rl) /\ ~CanTakeEncrypted(leader.rl)

\* InnerState::run calls process_new_packets again: always once, then as long
\* as there is new plaintext or new TLS data.
RunAgain ==
    /\ EndOfPass /\ (client.pass = 1 \/ client.changed)
    /\ client' = [client EXCEPT !.pc = "start", !.pass = 2, !.changed = FALSE]
    /\ UNCHANGED <<leader, follower, chan, server>>

\* InnerState::run returns.
RunDone(task) == EndOfPass /\ client.pass = 2 /\ ~client.changed /\ client.task = task

\* Faulty: does not look at the record layer.
DrainedPlaintext(rl) == ~client.unread

\* Faulty: waits for a close_notify as well.
DrainedClosed(rl) == client.close_notify /\ ~client.unread /\ is_empty(rl)

\* is_record_layer_empty, which also asks that the application has read all.
Drained(rl) == ~client.unread /\ is_empty(rl)

\* MpcTlsClient's Busy and CloseBusy futures complete.
EndRun ==
    /\ \/ RunDone("run") /\ client' = [client EXCEPT !.pc = "active"]
       \/ /\ RunDone("close_run")
          /\ client' = [client EXCEPT !.pc = IF Drained(leader.rl) THEN "done" ELSE "close_active"]
    /\ UNCHANGED <<leader, follower, chan, server>>

\* client_close: close_notify is sent once, and a failure is only logged.
EndClientClose ==
    /\ RunDone("client_close")
    /\ client' = [client EXCEPT !.pc = "active", !.client_closed = TRUE]
    /\ IF ~client.client_closed /\ CanPushOutgoing
       THEN PushOutgoing("Alert") ELSE UNCHANGED <<leader, chan>>
    /\ UNCHANGED <<follower, server>>

\* server_close: close_connection, up to the commit.
CloseConnection ==
    /\ RunDone("server_close")
    /\ chan' = Append(chan, Msg("CloseConnection"))
    /\ IF leader.rl.encrypt_buffer = <<>>
       THEN leader' = [leader EXCEPT !.join = "Commit"] /\ UNCHANGED client
       ELSE Fail
    /\ UNCHANGED <<follower, server>>

\* Any call fails once the follower is gone and the leader needs it.
LeaderPeerGone ==
    /\ follower.state = "Error"
    /\ \/ leader.join # "none"
       \/ leader.state # "Closed" /\ client.pc \in {"start", "traffic", "frames", "incoming"}
    /\ Fail
    /\ UNCHANGED <<follower, chan, server>>

-----------------------------------------------------------------------------
(* The follower's side: MpcTlsFollower::run, one action per message. *)

\* The next message is of this kind, and its handler leaves f.
Receive(kind) ==
    /\ follower.state = "Ready" /\ follower.join = "none"
    /\ chan # <<>> /\ Head(chan).kind = kind
    /\ chan' = Tail(chan)
    /\ UNCHANGED <<leader, client, server>>

\* run returns Err and drops what it has.
FollowerErr ==
    [follower EXCEPT !.state = "Error", !.join = "none", !.rl = NewRecordLayer("Follower")]

\* Handlers of the values that may be set once: they refuse a second one.
SetOnce(kind, value) ==
    /\ Receive(kind)
    /\ follower' = IF value \in follower.have
                   THEN FollowerErr ELSE [follower EXCEPT !.have = @ \cup {value}]

FollowerSetClientRandom == SetOnce("SetClientRandom", "client_random")

FollowerSetServerRandom == SetOnce("SetServerRandom", "server_random")

\* Faulty: checks the time and does not keep it.
FollowerStartHandshakeForgets ==
    Receive("StartHandshake") /\ follower' \in {follower, FollowerErr}

\* StartHandshake also refuses a time that is too far from the follower's.
FollowerStartHandshake ==
    \/ SetOnce("StartHandshake", "time")
    \/ Receive("StartHandshake") /\ follower' = FollowerErr

\* The handlers that go on with a two-party computation.
JoinOnce(kind, value, op) ==
    /\ Receive(kind)
    /\ follower' = IF value \in follower.have
                   THEN FollowerErr
                   ELSE [follower EXCEPT !.have = @ \cup {value}, !.join = op]

FollowerSetServerKey == JoinOnce("SetServerKey", "server_key", "Setup")

FollowerClientFinishedVd == JoinOnce("ClientFinishedVd", "cf_vd", "CfVd")

FollowerServerFinishedVd == JoinOnce("ServerFinishedVd", "sf_vd", "SfVd")

FollowerEncrypt ==
    /\ Receive("Encrypt")
    /\ follower' = IF CanPushEncrypt(follower.rl, RecordLen)
                   THEN [follower EXCEPT !.rl = push_encrypt(@, Head(chan).typ, RecordLen)]
                   ELSE FollowerErr

FollowerDecrypt ==
    /\ Receive("Decrypt")
    /\ follower' = IF CanPushDecrypt(follower.rl, RecordLen)
                   THEN [follower EXCEPT
                           !.rl = push_decrypt(@, Head(chan).typ, RecordLen, Head(chan).ok)]
                   ELSE FollowerErr

FollowerStartTraffic ==
    /\ Receive("StartTraffic")
    /\ follower' = [follower EXCEPT !.rl = start_traffic(@)]

\* Faulty: enters the computation with nothing to compute.
FollowerFlushAlways ==
    /\ Receive("Flush")
    /\ follower' = [follower EXCEPT !.join = "Flush", !.dec = Head(chan).is_decrypting]

\* record_layer.flush, up to the two-party computation.
FollowerFlush ==
    /\ Receive("Flush")
    /\ LET dec == Head(chan).is_decrypting
       IN follower' = IF ~HasOps(follower.rl, dec) THEN follower
                      ELSE IF FlushStarts(follower.rl, dec)
                      THEN [follower EXCEPT !.join = "Flush", !.dec = dec]
                      ELSE FollowerErr

FollowerCloseConnection ==
    /\ Receive("CloseConnection")
    /\ follower' = IF follower.rl.encrypt_buffer = <<>>
                   THEN [follower EXCEPT !.join = "Commit"] ELSE FollowerErr

\* The leader is gone: what it sent is still read, and then reading fails.
FollowerPeerGone ==
    /\ leader.state = "Error" /\ follower.state \in {"Setup", "Ready"}
    /\ follower.join # "none" \/ chan = <<>>
    /\ follower' = FollowerErr
    /\ UNCHANGED <<leader, chan, client, server>>

-----------------------------------------------------------------------------
(* The two-party computations. *)

\* prepare_encryption and SetServerKey: the keys are computed and the record
\* layer is set up.  The leader goes on with get_client_finished_vd.
JointSetup ==
    /\ Joined("Setup")
    /\ leader' = [leader EXCEPT !.state = "Active", !.join = "CfVd"]
    /\ follower' = [follower EXCEPT !.join = "none"]
    /\ chan' = Append(chan, Msg("ClientFinishedVd"))
    /\ UNCHANGED <<client, server>>

\* The client's verify data is computed; the leader emits the Finished message.
JointCfVd ==
    /\ Joined("CfVd")
    /\ follower' = [follower EXCEPT !.join = "none"]
    /\ IF CanPushOutgoing
       THEN /\ leader' = [leader EXCEPT !.join = "none", !.cf_vd = TRUE,
                            !.rl = push_encrypt(@, "Handshake", RecordLen)]
            /\ chan' = Append(chan, EncryptMsg("Handshake"))
            /\ client' = [client EXCEPT !.hs = "Ccs"]
       ELSE Fail /\ UNCHANGED chan
    /\ UNCHANGED server

\* The server's verify data is computed; when it is the one of the server's
\* Finished message the traffic starts, otherwise the connection fails.
JointSfVd ==
    /\ Joined("SfVd")
    /\ follower' = [follower EXCEPT !.join = "none"]
    /\ \/ /\ leader' = [leader EXCEPT !.join = "none", !.sf_vd = TRUE,
                                      !.rl = start_traffic(@)]
          /\ chan' = Append(chan, Msg("StartTraffic"))
          /\ client' = [client EXCEPT !.hs = "Traffic", !.pc = "traffic"]
       \/ Fail /\ UNCHANGED chan
    /\ UNCHANGED server

\* Both flush.  When a tag is wrong the leader alone sees it, and the follower
\* finishes its own part or not.
JointFlush ==
    /\ Joined("Flush")
    /\ LET dec == leader.is_decrypting
           flushed == [follower EXCEPT !.join = "none", !.rl = flush(@, follower.dec)]
       IN \/ /\ CanFlush(leader.rl, dec)
             /\ leader' = [leader EXCEPT !.join = "none", !.rl = flush(@, dec)]
             /\ client' = [client EXCEPT !.pc = "incoming"]
             /\ follower' = flushed
          \/ /\ ~CanFlush(leader.rl, dec)
             /\ Fail
             /\ follower' \in {flushed, FollowerErr}
    /\ UNCHANGED <<chan, server>>

\* check_close_notify: the last record ends the direction properly.
check_close_notify(records) ==
    records[Len(records)].typ \in {"ApplicationData", "Alert"}

\* The records pass TlsTranscriptBuilder::build and check_close_notify.
TranscriptOk(sent, recv) ==
    \A records \in {sent, recv} :
        /\ records # <<>> /\ records[1].typ = "Handshake" /\ records[1].seq = 0
        /\ \A i \in 1..(Len(records) - 1) : records[i].seq < records[i + 1].seq
        /\ check_close_notify(records)

\* What the follower has when it was told everything.
Everything == {"time", "client_random", "server_random", "server_key", "cf_vd", "sf_vd"}

LeaderCloses ==
    /\ CanCommit(leader.rl)
    /\ leader.cf_vd /\ leader.sf_vd
    /\ TranscriptOk(leader.rl.sent_records, commit(leader.rl).recv_records)

FollowerCloses ==
    /\ CanCommit(follower.rl)
    /\ follower.have = Everything
    /\ TranscriptOk(follower.rl.sent_records, commit(follower.rl).recv_records)

\* Both commit and check the transcript.  When only the leader sees a wrong tag
\* the follower finishes its own part or not.
JointCommit ==
    /\ Joined("Commit")
    /\ LET closed == [leader EXCEPT !.state = "Closed", !.join = "none", !.rl = commit(@)]
           done == IF FollowerCloses
                   THEN [follower EXCEPT !.state = "Done", !.join = "none", !.rl = commit(@)]
                   ELSE FollowerErr
       IN \/ /\ LeaderCloses
             /\ leader' = closed
             /\ client' = [client EXCEPT !.pc = IF Drained(closed.rl)
                                                THEN "done" ELSE "close_active"]
             /\ follower' = done
          \/ ~LeaderCloses /\ Fail /\ follower' \in {done, FollowerErr}
    /\ UNCHANGED <<chan, server>>

-----------------------------------------------------------------------------
(* The application and the server.  They act between two runs, where the TLS *)
(* client looks at what they did.                                            *)

\* Prover::poll finds the TLS client in a state that takes input and output.
Between == client.pc \in {"active", "close_active"}

AppWrite ==
    /\ Between /\ client.written < MaxWrites /\ ~client.wants_close
    /\ client' = [client EXCEPT !.plaintext = @ + 1, !.written = @ + 1]
    /\ UNCHANGED <<leader, follower, chan, server>>

AppRead ==
    /\ Between /\ client.unread
    /\ client' = [client EXCEPT !.unread = FALSE]
    /\ UNCHANGED <<leader, follower, chan, server>>

AppClose ==
    /\ Between /\ ~client.wants_close /\ ~server.closed
    /\ client' = [client EXCEPT !.wants_close = TRUE]
    /\ UNCHANGED <<leader, follower, chan, server>>

\* ProverControl::enable_decryption
SetDecrypt ==
    /\ Between
    /\ client' = [client EXCEPT !.decrypt = ~@]
    /\ UNCHANGED <<leader, follower, chan, server>>

\* The server sends the frame and the TLS client, which wants to read, reads it.
ReadFrame(frame, next) ==
    /\ client.pc = "active" /\ ~client.unread /\ ~client.close_notify
    /\ ~server.closed
    /\ client' = [client EXCEPT !.frames = Append(@, frame)]
    /\ server' = [server EXCEPT !.next = next,
                                !.sent = IF next = "Records" /\ server.next = next
                                         THEN @ + 1 ELSE @]
    /\ UNCHANGED <<leader, follower, chan>>

ServerSend ==
    \/ server.next = "ServerHello" /\ ReadFrame(Msg("ServerHello"), "ServerDone")
    \/ server.next = "ServerDone" /\ ReadFrame(Msg("ServerHelloDone"), "Ccs")
    \/ server.next = "Ccs" /\ ReadFrame(Msg("ChangeCipherSpec"), "Records")
    \/ /\ server.next = "Records" /\ server.sent < MaxFrames
       /\ \E typ \in ServerTypes, ok \in BOOLEAN : ReadFrame([typ |-> typ, ok |-> ok], "Records")

\* The end of the server's stream, after all it sent was read.
ServerClose ==
    /\ client.pc = "active" /\ ~server.closed
    /\ server' = [server EXCEPT !.closed = TRUE]
    /\ UNCHANGED <<leader, follower, chan, client>>

-----------------------------------------------------------------------------
LeaderNext ==
    \/ LeaderAlloc \/ Poll \/ PollClosing \/ FlushPlaintext \/ RefuseHandshake
    \/ HandleServerHello \/ HandleServerDone \/ HandleCcs \/ HandleOpaque \/ Flush
    \/ HandleFinished \/ HandleRenegotiation \/ HandleAlert \/ HandleAppData
    \/ NextOutgoing \/ RunAgain \/ EndRun \/ EndClientClose \/ CloseConnection
    \/ LeaderPeerGone

FollowerNext ==
    \/ FollowerAlloc \/ FollowerSetClientRandom \/ FollowerSetServerRandom
    \/ FollowerStartHandshake \/ FollowerSetServerKey \/ FollowerClientFinishedVd
    \/ FollowerServerFinishedVd \/ FollowerEncrypt \/ FollowerDecrypt
    \/ FollowerStartTraffic \/ FollowerFlush \/ FollowerCloseConnection
    \/ FollowerPeerGone

Joint ==
    \/ JointPreprocess \/ JointSetup \/ JointCfVd \/ JointSfVd \/ JointFlush \/ JointCommit

Environment ==
    AppWrite \/ AppRead \/ AppClose \/ SetDecrypt \/ ServerSend \/ ServerClose

\* Both parties have finished or failed.
Over == client.pc \in {"done", "failed"} /\ follower.state \in {"Done", "Error"}

Terminated == Over /\ UNCHANGED vars

Next == LeaderNext \/ FollowerNext \/ Joint \/ Environment \/ Terminated

Spec == Init /\ [][Next]_vars

\* Both parties and the computations they share are polled by their sessions;
\* the application reads what there is.  Nothing else need ever happen.
Fairness ==
    /\ WF_vars(LeaderNext) /\ WF_vars(FollowerNext) /\ WF_vars(Joint)
    /\ SF_vars(AppRead)

FairSpec == Spec /\ Fairness

-----------------------------------------------------------------------------
RecordSeq(s) == Len(s) <= MaxSent + MaxRecv /\ \A i \in 1..Len(s) : s[i] \in Record

\* The sequences are sequences of records and every state is one of the code's.
TypeOK ==
    /\ leader.state \in {"Init", "Setup", "Handshake", "Active", "Closed", "Error"}
    /\ follower.state \in {"Init", "Setup", "Ready", "Done", "Error"}
    /\ {leader.join, follower.join}
         \subseteq {"none", "Preprocess", "Setup", "CfVd", "SfVd", "Flush", "Commit"}
    /\ client.pc \in {"off", "active", "start", "frames", "incoming", "traffic",
                      "close_active", "done", "failed"}
    /\ client.hs \in {"ServerHello", "ServerDone", "Ccs", "Finished", "Traffic"}
    /\ \A rl \in {leader.rl, follower.rl} :
         /\ rl.state \in {"Init", "Online", "Complete", "Error"}
         /\ \A s \in {rl.encrypt_buffer, rl.decrypt_buffer, rl.encrypted_buffer,
                      rl.decrypted_buffer, rl.sent_records, rl.recv_records} : RecordSeq(s)
    /\ follower.have \subseteq Everything

\* What the two record layers must agree on for their flushes and commits to be
\* the same two-party computation, and for their transcripts to be the same.
View(rl) ==
    <<rl.state, rl.write_seq, rl.read_seq, rl.sent, rl.recv, rl.recv_online,
      rl.encrypt_buffer, rl.decrypt_buffer, rl.sent_records, rl.recv_records,
      rl.enc_keystream, rl.dec_keystream, rl.enc_j0s, rl.dec_j0s>>

\* The follower has handled every message and neither party has failed.
CaughtUp ==
    /\ chan = <<>> /\ leader.join = follower.join
    /\ leader.state # "Error" /\ follower.state # "Error"

\* Whenever the follower has caught up with the leader, the parties have the same
\* operations queued, the same counters and the same transcript: in particular
\* they enter each flush and each commit with the same operations.
Lockstep ==
    CaughtUp =>
        /\ View(leader.rl) = View(follower.rl)
        /\ leader.join = "Flush" => follower.dec = leader.is_decrypting

\* The parties are never in two different computations, and neither ends while
\* the other is in one it needs it for, unless it failed.
NoCrossWait ==
    /\ leader.join # "none" /\ follower.join # "none" => leader.join = follower.join
    /\ leader.join # "none" => follower.state # "Done"
    /\ follower.join # "none" => leader.state # "Closed"

\* close_connection succeeds for the leader only if the follower's run succeeds
\* as well: the follower's checks are not stricter than the leader's.
CloseAgreement ==
    leader.state = "Closed" => follower.state = "Done"

\* The numbers of the application data records.
AppSeqs(records) ==
    LET app == {i \in 1..Len(records) : Private(records[i])}
    IN [k \in 1..Cardinality(app) |->
          records[CHOOSE i \in app : Cardinality({j \in app : j <= i}) = k].seq]

\* The application receives the application data of the transcript in order and
\* without gaps, however often decryption is switched on and off and whatever is
\* left for the commit; when the client is done it has received all of it.
DeliveredInOrder ==
    LET recv == leader.rl.recv_records
        taken == Len(recv) - Len(leader.rl.decrypted_buffer)
    IN client.pc # "failed" =>
         /\ client.received = AppSeqs(SubSeq(recv, 1, taken))
         /\ client.pc = "done" => client.received = AppSeqs(recv) /\ ~client.unread

\* No application data is received or sent before the server's Finished message
\* has been checked, also when it arrives in the same batch of frames.
NoDataBeforeFinished ==
    \/ client.received # <<>>
    \/ \E i \in 1..Len(leader.rl.sent_records) : Private(leader.rl.sent_records[i])
    => leader.sf_vd

\* When InnerState::run returns, everything that was to be encrypted has been
\* flushed, so the commit's "pending encrypt operations" error cannot happen:
\* what the last pass queues while it handles incoming records makes another.
RunFlushesAll ==
    /\ leader.state = "Active" /\ client.hs = "Traffic"
    /\ \E task \in {"run", "client_close", "server_close"} : RunDone(task)
    => leader.rl.encrypt_buffer = <<>>

\* The commit always finds both Finished records: `first().expect(..)' in
\* TlsTranscriptBuilder::build does not panic.
FinishedRecorded ==
    leader.join = "Commit" =>
        leader.rl.sent_records # <<>> /\ leader.rl.recv_records # <<>>

\* The two parties compute together or not at all: they enter every computation
\* with the same operations and never two different ones (MpcTlsLeader against
\* MpcTlsFollower::run), in states of the code's types.
InStep == TypeOK /\ Lockstep /\ NoCrossWait

\* The close is one for both: close_connection ends both parties' runs, on records
\* from which the transcript can be built.
CloseAgreed == CloseAgreement /\ FinishedRecorded

\* The application's stream: received data starts after the Finished messages, has
\* no gaps, and nothing written is left in the record layer when a run returns.
ApplicationStream == DeliveredInOrder /\ NoDataBeforeFinished /\ RunFlushesAll

\* Once the server has closed an established connection both parties end, with
\* or without an error, if the application reads what it receives.
CloseEnds ==
    server.closed /\ client.hs = "Traffic" ~> Over
=============================================================================
