--------------------------- MODULE TlsConnection ---------------------------
(***************************************************************************)
(* The TLS 1.2 client connection: ConnectionCommon and CommonState of      *)
(* conn.rs, the states of hs.rs and tls12.rs, and a server they talk to.   *)
(*                                                                         *)
(* A call of the connection runs to its end before the next one, so each   *)
(* is one action.  The connection is a record, and the functions that the  *)
(* code calls on it map a record to a record; one that has failed is left  *)
(* alone by the rest of the call.  f names the backend function that fails *)
(* in a call ("none" if none does).                                        *)
(*                                                                         *)
(* TLS 1.3 is not among the versions that tls-core enables, and neither    *)
(* tickets nor the extended master secret are offered.  The record         *)
(* counters, whose limits are near 2^64, are left out.                     *)
(***************************************************************************)
EXTENDS TlsMessages, FiniteSets

CONSTANTS
    MaxApp,             \* bound: cells of plaintext the application writes
    MaxData,            \* bound: cells of plaintext the server sends
    WriteSizes,         \* bound: what the socket takes in one write
    MaxNet,             \* bound: cells on their way before the server waits
    MaxFaults           \* bound: things that go wrong at the server or the backend

ASSUME TlsConnectionAssumption ==
    /\ MaxApp \in Nat /\ MaxData \in Nat /\ MaxNet \in Nat /\ MaxFaults \in Nat
    /\ WriteSizes \subseteq Nat

VARIABLES
    c,                  \* the connection and its backend
    wire,               \* what the client wrote to the socket
    net,                \* what the server sent and the client has not read
    srv,                \* the server
    app,                \* the application: what it wrote, what it got
    faults              \* things that may still go wrong

vars == <<c, wire, net, srv, app, faults>>

Init ==
    /\ c = [state |-> "Initialized", err |-> "none",
            buf |-> <<>>, frames |-> <<>>, desynced |-> FALSE,
            hsbuf |-> <<>>, aligned |-> TRUE,
            encrypting |-> FALSE, decrypting |-> FALSE,
            may_send |-> FALSE, may_receive |-> FALSE,
            sent_fatal |-> FALSE, close_notify |-> FALSE, eof |-> FALSE,
            plaintext |-> <<>>, tls |-> <<>>, received |-> <<>>,
            transcript |-> <<>>, ext |-> {}, cert |-> "none", kx |-> "none",
            auth |-> "None",
            out |-> <<>>, enc |-> <<>>, in |-> <<>>, dec |-> <<>>]
    /\ wire = <<>> /\ net = <<>>
    /\ srv = [phase |-> "hello", todo |-> <<>>, enc |-> FALSE, tr |-> <<>>, data |-> 0,
              empty |-> FALSE, closed |-> FALSE]
    /\ app = [written |-> 0, got |-> <<>>, closed |-> FALSE]
    /\ faults = MaxFaults

-----------------------------------------------------------------------------
(* Failing, and what is sent *)

Failed(s) == s.state = "Err"

\* The call returns the error and the connection keeps it.
Fail(s, e) == IF Failed(s) THEN s ELSE [s EXCEPT !.state = "Err", !.err = e]

\* The call returns the error; the connection keeps the placeholder that replaced
\* its state.
Abort(s, e) ==
    IF Failed(s) THEN [s EXCEPT !.err = "HandshakeNotComplete"]
    ELSE [s EXCEPT !.state = "Err", !.err = "HandshakeNotComplete"]

\* A call of the backend.
Call(s, name, f) == IF name = f THEN Fail(s, "Backend") ELSE s

Become(s, state) == IF Failed(s) THEN s ELSE [s EXCEPT !.state = state]

\* CommonState::queue_tls_message, for each of the records
QueueTls(s, rs) == [s EXCEPT !.tls = @ \o [i \in 1..Len(rs) |-> Encode(rs[i])]]

\* CommonState::send_msg with must_encrypt, and send_appdata_encrypt: the fragments
\* go to the backend.
SendEncrypted(s, typ, body, f) ==
    LET frags == Fragment(body)
    IN IF Failed(s) \/ f = "push_outgoing" THEN Fail(s, "Backend")
       ELSE [s EXCEPT !.out = @ \o [i \in 1..Len(frags) |-> Record(typ, TRUE, frags[i])]]

\* CommonState::send_msg without: they are queued.
SendPlain(s, typ, body) ==
    LET frags == Fragment(body)
    IN IF Failed(s) THEN s
       ELSE QueueTls(s, [i \in 1..Len(frags) |-> Record(typ, FALSE, frags[i])])

\* build_alert, sent under the current protection.
SendAlert(s, is, f) ==
    LET m == [Msg("Alert") EXCEPT !.is = is]
    IN IF s.encrypting THEN SendEncrypted(s, "Alert", Bytes(m, TRUE), f)
       ELSE SendPlain(s, "Alert", Bytes(m, FALSE))

\* CommonState::send_fatal_alert
FatalAlertSent(s) == IF Failed(s) THEN s ELSE [s EXCEPT !.sent_fatal = TRUE]
SendFatalAlert(s, f) == FatalAlertSent(SendAlert(s, "fatal", f))

\* An error that is reported to the server.
Refuse(s, e, f) == Fail(SendFatalAlert(s, f), e)

\* process_main_protocol for InappropriateMessage and InappropriateHandshakeMessage
Unexpected(s, f) == Refuse(s, "Inappropriate", f)

\* CommonState::check_aligned_handshake
CheckAligned(s, f) == IF s.aligned \/ Failed(s) THEN s ELSE Refuse(s, "PeerMisbehaved", f)

\* HandshakeHash::add_message
AddMessage(s, t) == IF Failed(s) THEN s ELSE [s EXCEPT !.transcript = Append(@, t)]

\* The emit_ functions of tls12.rs
Emit(s, t) == SendPlain(AddMessage(s, t), "Handshake", Bytes(Msg(t), FALSE))

\* Faulty: encrypts before the handshake is complete.
FlushPlaintextEarly(s, f) ==
    LET Flush(t, chunk) == SendEncrypted(t, "ApplicationData", chunk, f)
    IN IF ~s.encrypting THEN s ELSE [FoldLeft(Flush, s, s.plaintext) EXCEPT !.plaintext = <<>>]

\* CommonState::flush_plaintext
FlushPlaintext(s, f) ==
    LET Flush(t, chunk) == SendEncrypted(t, "ApplicationData", chunk, f)
    IN IF ~s.may_send \/ Failed(s) THEN s
       ELSE [FoldLeft(Flush, s, s.plaintext) EXCEPT !.plaintext = <<>>]

-----------------------------------------------------------------------------
(* The states of the handshake.  m is the message that is handled. *)

\* The extensions of the ClientHello that a ServerHello may answer.
Offered == {"StatusRequest"}

ExpectServerHello(s, m, f) ==
    LET accepted == Call(Call(s, "set_protocol_version", f), "set_cipher_suite", f)
        added == AddMessage(Call(accepted, "set_server_random", f), "ServerHello")
    IN CASE m.typ # "ServerHello" -> Unexpected(s, f)
         [] m.typ = "ServerHello" /\ m.is = "unsupported_version" ->
              Refuse(s, "PeerIncompatible", f)
         [] m.typ = "ServerHello" /\ (m.is = "illegal" \/ m.ext \ Offered # {}) ->
              Refuse(Call(s, "set_protocol_version", f), "PeerMisbehaved", f)
         [] m.typ = "ServerHello" /\ m.is = "bad_scts" -> Fail(added, "PeerMisbehaved")
         [] OTHER -> Become([added EXCEPT !.ext = m.ext], "ExpectCertificate")

ExpectCertificate(s, m, f) ==
    LET kept == [AddMessage(s, "Certificate") EXCEPT !.cert = m.is]
    IN IF m.typ # "Certificate" THEN Unexpected(s, f)
       ELSE IF "StatusRequest" \in s.ext
       THEN Become(kept, "ExpectCertificateStatusOrServerKx")
       ELSE Become(Call(kept, "set_server_cert_details", f), "ExpectServerKx")

\* Faulty: forgets to hash the message.
ExpectServerKxUnhashed(s, m, f) ==
    CASE m.typ # "ServerKeyExchange" -> Unexpected(s, f)
      [] OTHER -> Become([s EXCEPT !.kx = m.is], "ExpectServerDoneOrCertReq")

ExpectServerKx(s, m, f) ==
    LET added == AddMessage(s, "ServerKeyExchange")
    IN CASE m.typ # "ServerKeyExchange" -> Unexpected(s, f)
         [] m.typ = "ServerKeyExchange" /\ m.is = "not_ecdhe" -> Refuse(added, "Corrupt", f)
         [] OTHER -> Become([added EXCEPT !.kx = m.is], "ExpectServerDoneOrCertReq")

ExpectCertificateStatusOrServerKx(s, m, f) ==
    LET known == Call(s, "set_server_cert_details", f)
    IN CASE m.typ = "ServerKeyExchange" -> IF Failed(known) THEN known
                                           ELSE ExpectServerKx(known, m, f)
         [] m.typ = "CertificateStatus" ->
              Become(Call(AddMessage(s, m.typ), "set_server_cert_details", f), "ExpectServerKx")
         [] OTHER -> Unexpected(s, f)

\* The checks of the certificate and of the signed key exchange.
VerifyServer(s, f) ==
    CASE Failed(s) -> s
      [] ~Failed(s) /\ s.cert = "empty" -> Fail(s, "NoCertificates")
      [] ~Failed(s) /\ s.cert = "invalid" -> Refuse(s, "Certificate", f)
      [] ~Failed(s) /\ s.cert = "ok" /\ s.kx = "wrong_algorithm" -> Fail(s, "PeerMisbehaved")
      [] ~Failed(s) /\ s.cert = "ok" /\ s.kx = "bad_signature" -> Refuse(s, "Certificate", f)
      [] OTHER -> s

\* The steps of the client's answer: its certificate if one was requested, ...
ClientCertificate(s) == IF s.auth = "None" THEN s ELSE Emit(s, "ClientCertificate")

\* ... the server's parameters, decoded and compared with the client's group, ...
DecodeParams(s, f) ==
    IF s.kx = "undecodable" /\ ~Failed(s) THEN Refuse(s, "Corrupt", f) ELSE s
CheckGroup(s) == IF s.kx = "other_group" THEN Fail(s, "PeerMisbehaved") ELSE s

\* ... the proof of possession of the certificate, and the change to encryption.
CertificateVerify(s, f) ==
    IF s.auth = "Verify" THEN Emit(Call(s, "sign", f), "CertificateVerify") ELSE s
StartEncrypting(s) == IF Failed(s) THEN s ELSE [s EXCEPT !.encrypting = TRUE]

\* The client's answer: key exchange, change of cipher and Finished.
ClientFlight(s, f) ==
    LET params == DecodeParams(ClientCertificate(s), f)
        group == CheckGroup(Call(params, "get_client_key_share", f))
        kx == Call(Emit(group, "ClientKeyExchange"), "set_hs_hash_client_key_exchange", f)
        ccs == SendPlain(CertificateVerify(kx, f), "ChangeCipherSpec", Bytes(Msg("CCS"), FALSE))
        peer == Call(Call(ccs, "set_server_kx_details", f), "set_server_key_share", f)
        on == StartEncrypting(Call(peer, "prepare_encryption", f))
        vd == AddMessage(Call(on, "get_client_finished_vd", f), "ClientFinished")
    IN SendEncrypted(vd, "Handshake", Bytes(Msg("ClientFinished"), TRUE), f)

ExpectServerDone(s, m, f) ==
    IF m.typ # "ServerHelloDone" THEN Unexpected(s, f)
    ELSE LET checked == VerifyServer(CheckAligned(AddMessage(s, m.typ), f), f)
         IN Become(ClientFlight(checked, f), "ExpectCcs")

\* With ExpectCertificateRequest: there is a certificate for the request, or not.
ExpectServerDoneOrCertReq(s, m, f) ==
    IF m.typ = "CertificateRequest"
    THEN Become([AddMessage(s, m.typ) EXCEPT !.auth = IF m.is = "ok" THEN "Verify" ELSE "Empty"],
                "ExpectServerDone")
    ELSE ExpectServerDone(s, m, f)

\* Faulty: the keys change within a message.
ExpectCcsUnaligned(s, m, f) ==
    IF m.typ # "CCS" THEN Unexpected(s, f)
    ELSE [Become(s, "ExpectFinished") EXCEPT !.decrypting = TRUE]

ExpectCcs(s, m, f) ==
    CASE m.typ # "CCS" -> Unexpected(s, f)
      [] m.typ = "CCS" /\ ~s.aligned -> CheckAligned(s, f)
      [] OTHER -> [s EXCEPT !.state = "ExpectFinished", !.decrypting = TRUE]

\* start_traffic and start_outgoing_traffic
StartTraffic(s, f) ==
    IF Failed(s) THEN s
    ELSE IF f = "start_traffic" THEN Fail([s EXCEPT !.may_receive = TRUE], "Backend")
    ELSE FlushPlaintext([s EXCEPT !.may_receive = TRUE, !.may_send = TRUE], f)

\* The comparison of the verify data.
CheckFinished(s, m, f) ==
    IF Failed(s) \/ m.vd = s.transcript THEN s ELSE Refuse(s, "Decrypt", f)

ExpectFinished(s, m, f) ==
    LET ready == Call(CheckAligned(s, f), "get_server_finished_vd", f)
    IN IF m.typ # "ServerFinished" THEN Unexpected(s, f)
       ELSE Become(StartTraffic(AddMessage(CheckFinished(ready, m, f), m.typ), f),
                   "ExpectTraffic")

Handle(s, m, f) ==
    CASE Failed(s) -> s
      [] s.state = "ExpectServerHello" -> ExpectServerHello(s, m, f)
      [] s.state = "ExpectCertificate" -> ExpectCertificate(s, m, f)
      [] s.state = "ExpectCertificateStatusOrServerKx" ->
            ExpectCertificateStatusOrServerKx(s, m, f)
      [] s.state = "ExpectServerKx" -> ExpectServerKx(s, m, f)
      [] s.state = "ExpectServerDoneOrCertReq" -> ExpectServerDoneOrCertReq(s, m, f)
      [] s.state = "ExpectServerDone" -> ExpectServerDone(s, m, f)
      [] s.state = "ExpectCcs" -> ExpectCcs(s, m, f)
      [] s.state = "ExpectFinished" -> ExpectFinished(s, m, f)
      [] s.state = "ExpectTraffic" -> Unexpected(s, f)

\* CommonState::process_main_protocol for all but application data
ProcessMainProtocol(s, m, f) ==
    IF s.may_receive /\ m.typ = "HelloRequest" /\ ~Failed(s)
    THEN SendAlert(s, "no_renegotiation", f)
    ELSE Handle(s, m, f)

-----------------------------------------------------------------------------
(* process_new_packets *)

\* CommonState::process_alert
ProcessAlert(s, m, f) ==
    CASE Failed(s) -> s
      [] ~Failed(s) /\ m.is = "close_notify" -> [s EXCEPT !.close_notify = TRUE]
      [] ~Failed(s) /\ m.is = "warning" -> s
      [] ~Failed(s) /\ m.is = "unknown_level" -> Refuse(s, "AlertReceived", f)
      [] OTHER -> Fail(s, "AlertReceived")

\* process_incoming_plain for handshake fragments
ProcessHandshake(s, body, f) ==
    LET j == TakeMessage(s.hsbuf, body)
        joined == [s EXCEPT !.hsbuf = j.buf, !.aligned = j.buf = <<>>]
        Step(t, m) == ProcessMainProtocol(t, m, f)
    IN IF j.bad THEN Refuse(s, "Corrupt", f) ELSE FoldLeft(Step, joined, j.msgs)

\* ConnectionCommon::process_incoming_plain
ProcessIncomingPlain(s, r, f) ==
    CASE r.typ = "Handshake" -> ProcessHandshake(s, r.body, f)
      [] r.typ # "Handshake" /\ r.body # <<>> /\ Head(r.body).m.is = "corrupt" ->
            Fail(s, "Corrupt")
      [] r.typ = "Alert" /\ Head(r.body).m.is # "corrupt" ->
            ProcessAlert(s, Head(r.body).m, f)
      [] r.typ = "ChangeCipherSpec" /\ Head(r.body).m.is # "corrupt" ->
            ProcessMainProtocol(s, Msg("CCS"), f)
      [] OTHER ->
            IF s.state = "ExpectTraffic"
            THEN [s EXCEPT !.received = AppendChunk(@, r.body)]
            ELSE Handle(s, Msg("ApplicationData"), f)

\* The next frame: process_incoming_opaque, and process_incoming_plain if it is not
\* for the backend.
ProcessFrame(s, f) ==
    LET r == Head(s.frames)
        popped == [s EXCEPT !.frames = Tail(@)]
    IN CASE Failed(s) -> s
         [] ~Failed(s) /\ s.decrypting /\ f = "push_incoming" -> Abort(popped, "Backend")
         [] ~Failed(s) /\ s.decrypting /\ f # "push_incoming" ->
              [popped EXCEPT !.in = Append(@, r)]
         [] OTHER -> ProcessIncomingPlain(popped, r, f)

\* Backend::flush encrypts what is to be sent and decrypts what was received; a
\* record that the server did not encrypt has no valid tag.  RecordLayer.tla has
\* the details, and the deferral of the decryption.
Flush(s, f) ==
    CASE Failed(s) -> s
      [] ~Failed(s) /\ (f = "flush" \/ \E i \in 1..Len(s.in) : ~s.in[i].enc) ->
            Abort(s, "Backend")
      [] OTHER -> [s EXCEPT !.enc = @ \o s.out, !.out = <<>>,
                            !.dec = @ \o s.in, !.in = <<>>]

\* The next decrypted message.
ProcessIncoming(s, f) ==
    CASE Failed(s) -> s
      [] ~Failed(s) /\ f = "next_incoming" -> Abort(s, "Backend")
      [] OTHER -> ProcessIncomingPlain([s EXCEPT !.dec = Tail(@)], Head(s.dec), f)

\* The encrypted records are queued, and the call returns.
ProcessOutgoing(s, f) ==
    CASE Failed(s) -> s
      [] ~Failed(s) /\ f = "next_outgoing" -> Abort(s, "Backend")
      [] OTHER -> [QueueTls(s, s.enc) EXCEPT !.enc = <<>>]

\* An error of flush_plaintext ends the call.
AbortFailed(s) == IF Failed(s) THEN Abort(s, "Backend") ELSE s
FlushWritten(s, f) ==
    AbortFailed(FlushPlaintext(s, f))

ProcessFrames(s, f) == FoldLeft(LAMBDA t, frame : ProcessFrame(t, f), s, s.frames)

ProcessDecrypted(s, f) == FoldLeft(LAMBDA t, msg : ProcessIncoming(t, f), s, s.dec)

\* ConnectionCommon::process_new_packets
Process(s, f) ==
    CASE Failed(s) -> s
      [] ~Failed(s) /\ s.desynced -> Abort(s, "Corrupt")
      [] OTHER ->
           LET received == Flush(ProcessFrames(FlushWritten(s, f), f), f)
           IN ProcessOutgoing(ProcessDecrypted(received, f), f)

-----------------------------------------------------------------------------
(* The calls of the connection *)

BackendCalls ==
    {"get_client_random", "set_protocol_version", "set_cipher_suite", "set_server_random",
     "set_server_cert_details", "get_client_key_share", "set_hs_hash_client_key_exchange",
     "sign", "set_server_kx_details", "set_server_key_share",
     "prepare_encryption", "get_client_finished_vd", "get_server_finished_vd",
     "start_traffic", "push_outgoing", "push_incoming", "flush", "next_incoming",
     "next_outgoing"}

\* The backend may fail in one of the calls, if there is a fault left and the call
\* is made.
Failing(calls) == {"none"} \cup (IF faults > 0 /\ ~Failed(c) THEN calls ELSE {})
MayFail(f) ==
    \/ f = "none" /\ UNCHANGED faults
    \/ f # "none" /\ faults' = faults - 1 /\ Failed(c')

\* ConnectionCommon::start, start_handshake and emit_client_hello_for_retry
Start ==
    /\ c.state = "Initialized"
    /\ \E f \in Failing({"get_client_random"}) :
        /\ c' = Become(Emit(Call(c, "get_client_random", f), "ClientHello"),
                       "ExpectServerHello")
        /\ MayFail(f)
    /\ UNCHANGED <<wire, net, srv, app>>

Started == c.state # "Initialized"

ProcessNewPackets ==
    /\ Started
    /\ \E f \in Failing(BackendCalls) :
        c' = Process(c, f) /\ MayFail(f)
    /\ UNCHANGED <<wire, net, srv, app>>

\* CommonState::wants_read
WantsRead(s) == s.received = <<>> /\ ~s.close_notify /\ (s.may_send \/ s.tls = <<>>)

\* ConnectionCommon::read_tls: a part of what has arrived, at most what fits; an
\* empty read is the end of the stream.  The caller processes what it read before
\* it reads again.
ReadTls ==
    /\ Started /\ WantsRead(c) /\ c.frames = <<>> /\ ~Failed(c)
    /\ \/ \E n \in 1..Len(net) :
            /\ n <= Space(c.buf)
            /\ LET d == DeframeAll([buf |-> c.buf, frames |-> c.frames, desynced |-> c.desynced],
                                   SubSeq(net, 1, n))
               IN c' = [c EXCEPT !.buf = d.buf, !.frames = d.frames, !.desynced = d.desynced]
            /\ net' = SubSeq(net, n + 1, Len(net))
       \/ /\ Space(c.buf) = 0 \/ (net = <<>> /\ srv.closed)
          /\ c' = [c EXCEPT !.eof = TRUE]
          /\ UNCHANGED net
    /\ UNCHANGED <<wire, srv, app, faults>>

\* CommonState::write_tls: the socket takes a part.
WriteTls ==
    /\ c.tls # <<>>
    /\ LET bytes == FlattenSeq(c.tls)
       IN \E size \in WriteSizes :
            LET n == IF size < Len(bytes) THEN size ELSE Len(bytes) IN
            /\ wire' = wire \o SubSeq(bytes, 1, n)
            /\ c' = [c EXCEPT !.tls = Consume(c.tls, n)]
    /\ UNCHANGED <<net, srv, app, faults>>

AppBytes(from, to) ==
    [i \in 1..(to - from) |-> [m |-> Msg("ApplicationData"), i |-> from + i, enc |-> TRUE]]

\* ConnectionCommon::write_plaintext: as much of what the application has left as
\* the limit allows.  What is written after an error stays in the buffer.
WritePlaintext ==
    /\ ~Failed(c) /\ ~app.closed
    /\ LET take == ApplyLimit(c.plaintext, MaxApp - app.written)
       IN /\ take > 0
          /\ c' = [c EXCEPT !.plaintext =
                      AppendChunk(@, AppBytes(app.written, app.written + take))]
          /\ app' = [app EXCEPT !.written = @ + take]
    /\ UNCHANGED <<wire, net, srv, faults>>

\* Faulty: does not look at what is still to be processed.
ReaderEager(s) ==
    CASE s.received # <<>> -> "data"
      [] s.received = <<>> /\ (s.close_notify \/ s.eof) -> "end"
      [] OTHER -> "WouldBlock"

\* What Reader::read returns.
Reader(s) ==
    CASE s.received # <<>> -> "data"
      [] s.received = <<>> /\ s.close_notify /\ s.frames = <<>> /\ s.buf = <<>> -> "end"
      [] s.received = <<>> /\ ~(s.close_notify /\ s.frames = <<>> /\ s.buf = <<>>) ->
            IF s.eof THEN "UnexpectedEof" ELSE "WouldBlock"

\* Reader::read into a buffer of n cells.
ReadPlaintext ==
    /\ Started /\ Reader(c) = "data"
    /\ \E n \in 1..2 :
        LET bytes == FlattenSeq(c.received)
            take == IF n < Len(bytes) THEN n ELSE Len(bytes)
        IN /\ app' = [app EXCEPT !.got = @ \o SubSeq(bytes, 1, take)]
           /\ c' = [c EXCEPT !.received = Consume(c.received, take)]
    /\ UNCHANGED <<wire, net, srv, faults>>

\* CommonState::send_close_notify.  MpcTlsClient calls it once the handshake is over
\* and all packets are processed, and takes no more plaintext.
SendCloseNotify ==
    /\ c.may_send /\ c.plaintext = <<>> /\ c.frames = <<>> /\ ~Failed(c) /\ ~app.closed
    /\ app' = [app EXCEPT !.closed = TRUE]
    /\ c' = SendAlert(c, "close_notify", "none")
    /\ UNCHANGED <<wire, net, srv, faults>>

ClientNext ==
    \/ Start \/ ProcessNewPackets \/ ReadTls \/ WriteTls
    \/ WritePlaintext \/ ReadPlaintext \/ SendCloseNotify

-----------------------------------------------------------------------------
(* The server.  It follows the protocol, except for the faults. *)

Types(s) == [i \in 1..Len(s) |-> s[i].m.typ]

\* The messages of which the last cell is on the wire.
ClientMessages == Types(SelectSeq(Payloads(wire), LAMBDA x : x.i = Size(x.m)))
Seen(t) == Contains(ClientMessages, t)

\* The server sends while there is room, to a client that still reads.
CanSend == Len(net) < MaxNet /\ ~Failed(c)
Send(r) == net' = net \o Encode(r)

Flight(sh, cert, kx, status, request) ==
    LET ms == <<sh, cert>> \o (IF status THEN <<Msg("CertificateStatus")>> ELSE <<>>)
              \o <<kx>> \o request
              \o <<Msg("ServerHelloDone")>>
    IN FlattenSeq([i \in 1..Len(ms) |-> Bytes(ms[i], FALSE)])

\* What can be wrong with the content of a message.
Wrong(t) ==
    CASE t = "ServerHello" -> {"unsupported_version", "illegal", "bad_scts"}
      [] t = "Certificate" -> {"empty", "invalid"}
      [] t = "ServerKeyExchange" ->
            {"not_ecdhe", "wrong_algorithm", "bad_signature", "undecodable",
             "other_group"}

Content(t) == {[Msg(t) EXCEPT !.is = is] : is \in Wrong(t) \cup {"ok"}}

\* The extensions, the stapled status and the request for a certificate: none, one
\* that the client has a certificate for, or one it has not.
Variants ==
    LET request == Msg("CertificateRequest")
    IN { <<{}, FALSE, <<>> >>, <<{"StatusRequest"}, TRUE, <<request>> >>,
         <<{"StatusRequest"}, FALSE, <<[request EXCEPT !.is = "no_certificate"]>> >> }

\* The server answers the ClientHello.
ServerHello ==
    /\ srv.phase = "hello" /\ Seen("ClientHello")
    /\ \E hello \in Content("ServerHello"), cert \in Content("Certificate"),
          kx \in Content("ServerKeyExchange"), v \in Variants, ticket \in SUBSET {"SessionTicket"} :
        LET sh == [hello EXCEPT !.ext = v[1] \cup ticket]
            wrong == Cardinality(ticket)
                     + Len(SelectSeq(<<hello, cert, kx>>, LAMBDA m : m.is # "ok"))
            todo == Flight(sh, cert, kx, v[2], v[3])
        IN /\ wrong = 1 => v[1] = {}
           /\ wrong <= 1 /\ wrong <= faults /\ faults' = faults - wrong
           /\ srv' = [srv EXCEPT
                !.phase = "flight", !.todo = todo,
                !.tr = <<"ClientHello">> \o Types(SelectSeq(todo, LAMBDA x : x.i = 1))]
    /\ UNCHANGED <<c, wire, net, app>>

\* The next fragment of the server's handshake messages.
ServerFragment ==
    /\ srv.phase \in {"flight", "finished"} /\ srv.todo # <<>> /\ CanSend
    /\ \E n \in 1..Len(srv.todo) :
        /\ n < MaxPayload
        /\ Send(Record("Handshake", srv.enc, SubSeq(srv.todo, 1, n)))
        /\ srv' = [srv EXCEPT
             !.todo = SubSeq(@, n + 1, Len(@)),
             !.phase = IF n < Len(srv.todo) THEN @ ELSE IF srv.enc THEN "traffic" ELSE "wait",
             !.tr = IF n = Len(srv.todo) /\ srv.enc THEN Append(@, "ServerFinished") ELSE @]
    /\ UNCHANGED <<c, wire, app, faults>>

ClientHandshake == SelectSeq(ClientMessages, LAMBDA t : t \in
    {"ClientHello", "ClientCertificate", "ClientKeyExchange", "CertificateVerify",
     "ClientFinished"})

\* The server has the client's Finished message and answers it.
ServerChangeCipherSpec ==
    /\ srv.phase = "wait" /\ Seen("ClientFinished") /\ CanSend
    /\ LET tr == srv.tr \o Tail(ClientHandshake)
           fin(vd) == [Msg("ServerFinished") EXCEPT !.vd = vd]
           ccs == Encode(Record("ChangeCipherSpec", FALSE, Bytes(Msg("CCS"), FALSE)))
       IN \/ /\ net' = net \o ccs
             /\ srv' = [srv EXCEPT !.phase = "finished", !.enc = TRUE, !.tr = tr,
                                   !.todo = Bytes(fin(tr), TRUE)]
             /\ UNCHANGED faults
          \/ /\ faults > 0 /\ faults' = faults - 1
             /\ net' = net \o ccs
             /\ srv' = [srv EXCEPT !.phase = "finished", !.enc = TRUE, !.tr = tr,
                                   !.todo = Bytes(fin(<<>>), TRUE)]
          \/ /\ faults > 0 /\ faults' = faults - 1
             /\ net' = net \o Encode(Record("Handshake", FALSE, <<Bytes(fin(tr), FALSE)[1]>>)) \o ccs
             /\ srv' = [srv EXCEPT !.phase = "finished", !.enc = TRUE, !.tr = tr,
                                   !.todo = Tail(Bytes(fin(tr), TRUE))]
    /\ UNCHANGED <<c, wire, app>>

\* Application data, a request to renegotiate, or the end.
ServerTraffic ==
    /\ srv.phase = "traffic" /\ CanSend
    /\ \/ \E n \in 0..2 :
            /\ srv.data + n <= MaxData
            /\ n = 0 => ~srv.empty
            /\ Send(Record("ApplicationData", TRUE, AppBytes(srv.data, srv.data + n)))
            /\ srv' = [srv EXCEPT !.data = @ + n, !.empty = @ \/ n = 0]
       \/ /\ ~Seen("Alert") /\ ~app.closed
          /\ Send(Record("Handshake", TRUE, Bytes(Msg("HelloRequest"), TRUE)))
          /\ srv' = [srv EXCEPT !.phase = "requested"]
       \/ /\ Send(Record("Alert", TRUE, Bytes([Msg("Alert") EXCEPT !.is = "close_notify"], TRUE)))
          /\ srv' = [srv EXCEPT !.phase = "closed"]
    /\ UNCHANGED <<c, wire, app, faults>>

\* The server is told that there is no renegotiation.
ServerResumes ==
    /\ srv.phase = "requested" /\ Seen("Alert")
    /\ srv' = [srv EXCEPT !.phase = "traffic"]
    /\ UNCHANGED <<c, wire, net, app, faults>>

ServerCloses ==
    /\ ~srv.closed /\ ~Failed(c)
    /\ \/ srv.phase = "closed" /\ UNCHANGED faults
       \/ srv.phase # "closed" /\ faults > 0 /\ faults' = faults - 1
    /\ srv' = [srv EXCEPT !.phase = "closed", !.closed = TRUE]
    /\ UNCHANGED <<c, wire, net, app>>

\* Records that are out of place or cannot be read.
FaultRecords ==
    LET enc == srv.enc
        Hs(t) == Record("Handshake", enc, Bytes(Msg(t), enc))
        Bad(typ, is) == Record(typ, enc, Bytes([Msg("Alert") EXCEPT !.is = is], enc))
    IN {Hs(t) : t \in {"Oversized", "Garbage", "HelloRequest", "Certificate"}}
       \cup {Bad("Alert", is) : is \in {"warning", "fatal", "unknown_level", "corrupt"}}
       \cup {Bad("ChangeCipherSpec", is) : is \in {"ok", "corrupt"}}
       \cup {Record("ApplicationData", enc, <<>>), Record("Unknown", enc, <<>>),
             Record("Alert", FALSE, Bytes(Msg("Alert"), FALSE))}

ServerFault ==
    /\ faults > 0 /\ faults' = faults - 1
    /\ srv.phase \notin {"hello", "closed"} /\ CanSend
    /\ \E r \in FaultRecords : Send(r)
    /\ UNCHANGED <<c, wire, srv, app>>

ServerNext ==
    \/ ServerHello \/ ServerFragment \/ ServerChangeCipherSpec \/ ServerTraffic
    \/ ServerResumes \/ ServerCloses \/ ServerFault

Next == ClientNext \/ ServerNext

Spec == Init /\ [][Next]_vars

-----------------------------------------------------------------------------
(* Properties *)

\* A server that follows the protocol and a backend that works never make the
\* connection fail, however the messages are cut into records, the records into
\* reads, and the calls are ordered (process_new_packets, HandshakeJoiner,
\* check_aligned_handshake, ExpectFinished).
HonestServerAccepted == faults = MaxFaults => ~Failed(c)

SentBytes == wire \o FlattenSeq(c.tls)
PendingRecords == c.enc \o c.out

\* Application data leaves the plaintext buffer only when the server's certificate
\* and key exchange are verified and both sides hashed the same handshake messages,
\* up to the server's Finished message (ExpectServerDone, ExpectFinished,
\* flush_plaintext).
DataAfterHandshake ==
    (\/ \E h \in Range(Headers(SentBytes)) : h.typ = "ApplicationData"
     \/ \E i \in 1..Len(PendingRecords) : PendingRecords[i].typ = "ApplicationData")
    => c.cert = "ok" /\ c.kx = "ok" /\ c.transcript = srv.tr

\* The fragments of one handshake message are received under one protection: those
\* that wait for the rest of their message are protected as the next record is
\* (check_aligned_handshake in ExpectCcs).
OneProtectionPerMessage ==
    \A i \in 1..Len(c.hsbuf) : ~Failed(c) => c.hsbuf[i].enc = c.decrypting

\* Nothing the client sends after its ChangeCipherSpec is in the clear, alerts
\* included (send_msg, send_fatal_alert, next_outgoing).
NoPlainAfterCcs ==
    LET h == Headers(SentBytes)
    IN \A i \in 1..Len(h) : h[i].typ = "ChangeCipherSpec" => \A j \in i+1..Len(h) : h[j].enc

\* What the application wrote is on the wire, in a buffer or with the backend, once
\* and in order (write_plaintext, flush_plaintext, fragment, next_outgoing and the
\* partial writes of write_tls).
WrittenInOrder ==
    LET bodies == FlattenSeq([i \in 1..Len(PendingRecords) |-> PendingRecords[i].body])
        bytes == Payloads(SentBytes) \o bodies \o FlattenSeq(c.plaintext)
    IN ~Failed(c) => SelectSeq(bytes, LAMBDA x : x.m.typ = "ApplicationData")
                     = AppBytes(0, app.written)

\* The client's data waits for the verified handshake and then goes out once and in
\* order, whatever is buffered where (flush_plaintext, next_outgoing, write_tls).
ClientDataInOrder == DataAfterHandshake /\ WrittenInOrder

\* The protection changes once in each direction and never within a message
\* (ExpectCcs, start_traffic, send_msg).
ProtectionChangesOnce == OneProtectionPerMessage /\ NoPlainAfterCcs

\* The application gets what the server sent, in order, and is told of a clean end
\* only when it has got all of it (Reader::read, has_pending).
CleanEndIsComplete ==
    /\ IsPrefix(app.got \o FlattenSeq(c.received), AppBytes(0, srv.data))
    /\ (Started /\ Reader(c) = "end") => app.got = AppBytes(0, srv.data)

\* When process_new_packets has returned an error of the protocol, the fatal alert
\* that it made for the server is queued, as its documentation says, so that
\* write_tls sends it (send_fatal_alert, process_new_packets).
FatalAlertQueued ==
    c.sent_fatal => \E h \in Range(Headers(SentBytes)) : h.typ = "Alert"

=============================================================================
