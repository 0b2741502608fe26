-------------------------------- MODULE Proxy --------------------------------
(***************************************************************************)
(* Proxy mode: the prover's TLS connection to the server goes through the  *)
(* verifier, which forwards and records it, and the transcripts the two    *)
(* make of the traffic when it has ended.                                  *)
(*                                                                         *)
(* A poll of the prover's task is one step here; ProverTask.tla has its    *)
(* steps and what wakes it.  rustls, which ProxyTlsClient drives, and the  *)
(* server are external: they complete a TLS 1.2 handshake and exchange     *)
(* records.  The prover's zero-knowledge executions send to the verifier   *)
(* and do not wait for it.                                                 *)
(***************************************************************************)
EXTENDS TlsTranscript, FiniteSets

CONSTANTS
    MaxWrites,          \* bound: writes of the application
    MaxData,            \* bound: application data records of the server
    AppCap,             \* capacity of client_io towards the application
    Splits,             \* where the server cuts its first flight (0: one record)
    Curves              \* curves of the server's certificate ("none": an RSA key)

ASSUME ProxyAssumption ==
    /\ MaxWrites \in Nat /\ MaxData \in Nat /\ AppCap \in Nat \ {0}
    /\ Splits \subseteq Nat

VARIABLES
    app,                \* the application and client_io
    client,             \* ProxyTlsClient, rustls in it, and the prover's own state
    pipe,               \* the four streams between prover, verifier and server
    verifier,           \* the forwarding and what it recorded
    server

proxyVars == <<app, client, pipe, verifier, server>>

EmptyPipe == [q |-> <<>>, eof |-> FALSE]

ClientFlight(auth) ==
    IF auth
    THEN Message("Certificate", "client") \o Message("ClientKeyExchange", "pk")
             \o Message("CertificateVerify", "sig")
    ELSE Message("ClientKeyExchange", "pk")

\* An ECDSA scheme of TLS 1.2 says nothing of the curve.
ServerScheme(curve) == IF curve = "none" THEN "RSA_PSS_SHA256" ELSE "ECDSA_NISTP256_SHA256"

ServerFlight(curve, auth) ==
    Message("ServerHello", "sr") \o Message("Certificate", curve)
        \o Message("ServerKeyExchange", ServerScheme(curve))
        \o (IF auth THEN Message("CertificateRequest", "any") ELSE <<>>)
        \o Message("ServerHelloDone", "")

NoTraffic == [tls_sent |-> <<>>, tls_recv |-> <<>>, app_sent |-> <<>>, app_recv |-> <<>>]

ProxyInit ==
    /\ app = [queue |-> <<>>, written |-> 0, closed |-> FALSE, io |-> <<>>, got |-> <<>>]
    /\ client = [ state |-> "Init", sent_close_notify |-> FALSE, client_closed |-> FALSE,
                  server_closed |-> FALSE, traffic |-> NoTraffic, output |-> Failed,
                  late |-> FALSE, unread_left |-> FALSE, phase |-> "connected",
                  task_client_closed |-> FALSE, task_server_closed |-> FALSE,
                  buf |-> <<>>, written |-> <<>>, got |-> <<>>,
                  \* rustls
                  frames |-> <<>>, hs |-> "hello", log |-> Message("ClientHello", "cr"),
                  seen |-> <<>>, plaintext |-> <<>>, unread |-> <<>>, peer_closed |-> FALSE,
                  out |-> <<HsRecord(Message("ClientHello", "cr"))>> ]
    /\ pipe = [p \in {"p2v", "v2s", "s2v", "v2p"} |-> EmptyPipe]
    /\ verifier = [ sent_buf |-> <<>>, recv_buf |-> <<>>, first_read |-> FALSE,
                    to_server |-> "copy", to_prover |-> "copy",
                    phase |-> "forwarding", output |-> Failed ]
    /\ \E curve \in Curves, auth \in BOOLEAN, split \in Splits :
         server = [ curve |-> curve, auth |-> auth, split |-> split, got |-> <<>>,
                    sent |-> <<>>, eof |-> FALSE, closed |-> "no", log |-> <<>>,
                    finished |-> FALSE, data |-> 0 ]

-----------------------------------------------------------------------------
(* rustls *)

FlightComplete(bytes) == Len(bytes) % 2 = 0 /\ Contains(bytes, "ServerHelloDone")

\* The client's flight, its ChangeCipherSpec and its Finished.
Answer(c, log) ==
    LET flight == ClientFlight(Contains(log, "CertificateRequest"))
    IN [c EXCEPT !.hs = "finished", !.log = <<>>,
                 !.out = @ \o << HsRecord(flight), CcsRecord, FinishedRecord(log \o flight) >>]

\* One record.  The server's first flight is answered when it is complete; its
\* Finished completes the handshake and lets out the plaintext that waited.
TakeFrame(c, f) ==
    CASE f.typ = "handshake" /\ c.hs = "hello" ->
           IF FlightComplete(c.seen \o f.body)
           THEN [Answer(c, c.log \o c.seen \o f.body) EXCEPT !.seen = <<>>]
           ELSE [c EXCEPT !.seen = @ \o f.body]
      [] f.typ = "handshake" /\ c.hs = "finished" ->
           [c EXCEPT !.hs = "done", !.plaintext = <<>>,
                     !.out = @ \o [i \in DOMAIN c.plaintext |-> AppRecord(c.plaintext[i])]]
      [] f.typ = "data" -> [c EXCEPT !.unread = @ \o f.body]
      [] f.typ = "alert" -> [c EXCEPT !.peer_closed = TRUE]
      [] OTHER -> c

\* process_new_packets, as the set of its one result.
ProcessNewPackets(c) ==
    LET after[n \in 0..Len(c.frames)] ==
          IF n = 0 THEN {[c EXCEPT !.frames = <<>>]}
          ELSE {TakeFrame(x, c.frames[n]) : x \in after[n - 1]}
    IN after[Len(c.frames)]

\* writer().write: plaintext is kept during the handshake.
ConnWrite(c, data) ==
    IF c.hs = "done"
    THEN [c EXCEPT !.out = @ \o [i \in DOMAIN data |-> AppRecord(data[i])]]
    ELSE [c EXCEPT !.plaintext = @ \o data]

\* ConnectionCommon::wants_read
WantsReadTls(c) == c.unread = <<>> /\ ~c.peer_closed /\ (c.hs = "done" \/ c.out = <<>>)

-----------------------------------------------------------------------------
(* ProxyTlsClient and Prover::poll, as functions of the state they change. *)

WantsWrite(c) == c.state \in {"Handshaking", "Connected"} /\ ~c.client_closed

\* tls_conn -> tls_client
FromApp(s) ==
    IF s.app.queue # <<>>
    THEN IF WantsWrite(s.client)
         THEN [s EXCEPT !.app.queue = <<>>,
                        !.client = [ConnWrite(@, s.app.queue) EXCEPT
                                        !.traffic.app_sent = @ \o s.app.queue]]
         ELSE s
    ELSE IF s.app.closed /\ ~s.client.task_client_closed /\ ~s.client.task_server_closed
    THEN [s EXCEPT !.client.task_client_closed = TRUE, !.client.client_closed = TRUE]
    ELSE s

\* server_socket -> buf
FromSocket(s) ==
    IF s.pipe.q # <<>>
    THEN [s EXCEPT !.pipe.q = <<>>, !.client.buf = @ \o s.pipe.q, !.client.got = @ \o s.pipe.q]
    ELSE [s EXCEPT !.client.task_server_closed = @ \/ s.pipe.eof]

\* buf -> tls_client
ToClient(s) ==
    IF s.client.buf # <<>>
    THEN IF WantsReadTls(s.client)
         THEN [s EXCEPT !.client.frames = @ \o s.client.buf, !.client.buf = <<>>,
                        !.client.traffic.tls_recv = @ \o s.client.buf]
         ELSE s
    ELSE [s EXCEPT !.client.server_closed = @ \/ s.client.task_server_closed]

\* ProxyProver::finalize up to its first execution: the transcript of the traffic.
Finalize(c) ==
    [c EXCEPT !.state = "Finalizing", !.traffic = NoTraffic,
              !.late = c.out # <<>>, !.unread_left = c.unread # <<>>,
              !.output = BuildTranscript(c.traffic.tls_sent, c.traffic.tls_recv,
                                         c.traffic.app_sent, c.traffic.app_recv)]

\* State::Connected, after the packets are processed.
PollConnected(c) ==
    IF c.server_closed THEN Finalize(c)
    ELSE IF c.client_closed /\ ~c.sent_close_notify
    THEN [c EXCEPT !.sent_close_notify = TRUE, !.out = Append(@, AlertRecord)]
    ELSE c

\* State::Init and State::Handshaking.
PollHandshaking(c) ==
    IF c.hs = "done" THEN PollConnected([c EXCEPT !.state = "Connected"])
    ELSE [c EXCEPT !.state = "Handshaking"]

\* TlsClient::poll, as the set of its one result.
PollClient(c) ==
    CASE c.state \in {"Init", "Handshaking"} ->
           {PollHandshaking(p) : p \in ProcessNewPackets(c)}
      [] c.state = "Connected" -> {PollConnected(p) : p \in ProcessNewPackets(c)}
      [] c.state = "Finalizing" ->
           {[c EXCEPT !.state = IF c.output = Failed THEN "Error" ELSE "Finished"]}
      [] OTHER -> {c}

\* tls_client -> buf -> server_socket
ToServer(s) ==
    [s EXCEPT !.client = [s.client EXCEPT !.out = <<>>, !.written = @ \o s.client.out,
                                          !.traffic.tls_sent = @ \o s.client.out],
              !.up.q = @ \o s.client.out]

Room(a) == AppCap - Len(a.io)

\* tls_client -> tls_conn: as much as there is room for.
ToApp(s) ==
    LET n == IF s.client.state # "Connected" THEN 0
             ELSE IF Len(s.client.unread) < Room(s.app) THEN Len(s.client.unread) ELSE Room(s.app)
        data == SubSeq(s.client.unread, 1, n)
    IN [s EXCEPT !.app.io = @ \o data,
                 !.client = [s.client EXCEPT !.unread = SubSeq(@, n + 1, Len(@)),
                                             !.traffic.app_recv = @ \o data]]

\* Faulty: waits for the application to close as well.
EndPollBothClosed(s) ==
    IF s.client.state = "Finished" /\ s.client.task_server_closed /\ s.client.task_client_closed
    THEN [s EXCEPT !.client.phase = "closed", !.up.eof = TRUE]
    ELSE s

\* The end of Prover::poll: both streams are closed once there is an output.
EndPoll(s) ==
    CASE s.client.state = "Error" -> [s EXCEPT !.client.phase = "failed", !.up.eof = TRUE]
      [] s.client.state = "Finished" /\ s.client.task_server_closed ->
           [s EXCEPT !.client.phase = "closed", !.up.eof = TRUE]
      [] OTHER -> s

PollTls(s) == {[s EXCEPT !.client = c] : c \in PollClient(s.client)}

IoToTlsClient(s) ==
    UNION { {ToClient(t) : t \in {FromSocket(u)}} : u \in {FromApp(s)} }

IoFromTlsClient(s) ==
    UNION { {EndPoll(t) : t \in {ToApp(u)}} : u \in {ToServer(s)} }

Poll ==
    /\ client.phase = "connected"
    /\ UNCHANGED <<verifier, server>>
    /\ \E s \in IoToTlsClient([app |-> app, client |-> client, pipe |-> pipe["v2p"],
                               up |-> pipe["p2v"]]) :
       \E t \in PollTls(s) : \E u \in IoFromTlsClient(t) :
         /\ app' = u.app /\ client' = u.client
         /\ pipe' = [pipe EXCEPT !["v2p"] = u.pipe, !["p2v"] = u.up]

\* The verifier has given up: its streams end with an error.
SessionLost ==
    /\ client.phase = "connected" /\ verifier.phase = "failed"
    /\ client' = [client EXCEPT !.phase = "failed"]
    /\ UNCHANGED <<app, pipe, verifier, server>>

\* Prover::finish: the tags of what was received are proven.
Finish ==
    /\ client.phase = "closed"
    /\ client' = [client EXCEPT !.phase = "committed"]
    /\ UNCHANGED <<app, pipe, verifier, server>>

AppWrite ==
    /\ app.written < MaxWrites /\ ~app.closed /\ client.phase = "connected"
    /\ app' = [app EXCEPT !.written = @ + 1, !.queue = Append(@, <<"w", app.written>>)]
    /\ UNCHANGED <<client, pipe, verifier, server>>

AppRead ==
    /\ app.io # <<>>
    /\ app' = [app EXCEPT !.io = Tail(@), !.got = Append(@, Head(app.io))]
    /\ UNCHANGED <<client, pipe, verifier, server>>

AppClose ==
    /\ ~app.closed /\ client.phase = "connected"
    /\ app' = [app EXCEPT !.closed = TRUE]
    /\ UNCHANGED <<client, pipe, verifier, server>>

-----------------------------------------------------------------------------
(* Verifier::run: two copies joined, each read through an InspectReader. *)

\* InspectReader::poll_read of what the prover sent.
RecordSent(v, f) == [v EXCEPT !.sent_buf = Append(@, f), !.first_read = TRUE]

Forwarding == verifier.phase = "forwarding"

\* A record of the prover reaches the server, or its socket is gone and the write
\* fails, which ends the join.
CopyToServer ==
    /\ Forwarding /\ verifier.to_server = "copy" /\ pipe["p2v"].q # <<>>
    /\ \/ /\ verifier' = RecordSent(verifier, Head(pipe["p2v"].q))
          /\ pipe' = [pipe EXCEPT !["p2v"].q = Tail(@),
                                  !["v2s"].q = Append(@, Head(pipe["p2v"].q))]
       \/ /\ server.closed = "full"
          /\ verifier' = [RecordSent(verifier, Head(pipe["p2v"].q)) EXCEPT !.phase = "failed"]
          /\ pipe' = [pipe EXCEPT !["p2v"].q = Tail(@)]
    /\ UNCHANGED <<app, client, server>>

CloseToServer ==
    /\ Forwarding /\ verifier.to_server = "copy" /\ pipe["p2v"].q = <<>> /\ pipe["p2v"].eof
    /\ verifier' = [verifier EXCEPT !.to_server = "done"]
    /\ pipe' = [pipe EXCEPT !["v2s"].eof = TRUE]
    /\ UNCHANGED <<app, client, server>>

CopyToProver ==
    /\ Forwarding /\ verifier.to_prover = "copy" /\ pipe["s2v"].q # <<>>
    /\ verifier' = [verifier EXCEPT !.recv_buf = Append(@, Head(pipe["s2v"].q))]
    /\ pipe' = [pipe EXCEPT !["s2v"].q = Tail(@), !["v2p"].q = Append(@, Head(pipe["s2v"].q))]
    /\ UNCHANGED <<app, client, server>>

\* Faulty: closes towards the prover although there is more to forward.
CloseToProverEarly ==
    /\ Forwarding /\ verifier.to_prover = "copy" /\ pipe["s2v"].eof
    /\ verifier' = [verifier EXCEPT !.to_prover = "done"]
    /\ pipe' = [pipe EXCEPT !["v2p"].eof = TRUE]
    /\ UNCHANGED <<app, client, server>>

CloseToProver ==
    /\ Forwarding /\ verifier.to_prover = "copy" /\ pipe["s2v"].q = <<>> /\ pipe["s2v"].eof
    /\ verifier' = [verifier EXCEPT !.to_prover = "done"]
    /\ pipe' = [pipe EXCEPT !["v2p"].eof = TRUE]
    /\ UNCHANGED <<app, client, server>>

\* VerifyDataCheck: alloc, assign the recorded Finished, check it against the
\* verify data the PRF computes from the hash of the recorded handshake.
VdAlloc(check) == IF check.state = "Init" THEN [check EXCEPT !.state = "Alloc"] ELSE Failed

VdAssign(check, record) ==
    IF check = Failed \/ check.state # "Alloc" THEN Failed
    ELSE [check EXCEPT !.state = "Assigned", !.actual = record.hash]

VdCheck(check, expected) ==
    check # Failed /\ check.state = "Assigned" /\ check.actual = expected

NoCheck == [state |-> "Init", actual |-> <<>>]

\* ProxyVerifier::finalize and the checks that follow the tag proof.
VerifierAccepts(t) ==
    /\ VdCheck(VdAssign(VdAlloc(NoCheck), t.sent[1].record), t.cf_hash)
    /\ VdCheck(VdAssign(VdAlloc(NoCheck), t.recv[1].record), t.sf_hash)

VerifierTranscript(v) == BuildTranscript(v.sent_buf, v.recv_buf, Failed, Failed)

\* Both copies are done.  The prover's messages are there if it came to send them.
VerifierFinalize ==
    /\ Forwarding /\ verifier.to_server = "done" /\ verifier.to_prover = "done"
    /\ UNCHANGED <<app, client, pipe, server>>
    /\ \E t \in {VerifierTranscript(verifier)} :
         verifier' = [verifier EXCEPT !.output = t,
                          !.phase = IF /\ t # Failed /\ verifier.first_read
                                       /\ client.phase # "failed" /\ VerifierAccepts(t)
                                    THEN "committed" ELSE "failed"]

-----------------------------------------------------------------------------
(* The server *)

ServerOpen == server.closed = "no"

Push(frames) ==
    /\ pipe' = [pipe EXCEPT !["s2v"].q = @ \o frames]
    /\ UNCHANGED <<app, client, verifier>>

\* The server takes all that has arrived and keeps the handshake messages.
ServerReads ==
    /\ pipe["v2s"].q # <<>> /\ server.closed # "full"
    /\ LET f == Head(pipe["v2s"].q)
       IN server' = [server EXCEPT
              !.got = Append(@, f),
              !.log = IF f.typ # "handshake" THEN @
                      ELSE IF f.body # <<>> THEN @ \o f.body ELSE @ \o Message("Finished", "cf"),
              !.finished = @ \/ (f.typ = "handshake" /\ f.body = <<>>)]
    /\ pipe' = [pipe EXCEPT !["v2s"].q = Tail(@)]
    /\ UNCHANGED <<app, client, verifier>>

ServerSeesEnd ==
    /\ pipe["v2s"].q = <<>> /\ pipe["v2s"].eof /\ ~server.eof
    /\ server' = [server EXCEPT !.eof = TRUE]
    /\ UNCHANGED <<app, client, pipe, verifier>>

Flight == ServerFlight(server.curve, server.auth)

FlightRecords ==
    IF server.split = 0 THEN <<HsRecord(Flight)>>
    ELSE << HsRecord(SubSeq(Flight, 1, server.split)),
            HsRecord(SubSeq(Flight, server.split + 1, Len(Flight))) >>

SendsNext(frames) ==
    /\ server' = [server EXCEPT !.sent = @ \o frames]
    /\ Push(frames)

ServerHello ==
    /\ ServerOpen /\ server.sent = <<>> /\ server.log # <<>>
    /\ server' = [server EXCEPT !.sent = FlightRecords, !.log = @ \o Flight]
    /\ Push(FlightRecords)

Established == \E i \in DOMAIN server.sent : server.sent[i].hash # <<>>
Ended == \E i \in DOMAIN server.sent : server.sent[i].typ \in {"alert", "partial"}

ServerFinished ==
    /\ ServerOpen /\ server.finished /\ ~Established /\ ~Ended
    /\ SendsNext(<<CcsRecord, FinishedRecord(server.log)>>)

ServerData ==
    /\ ServerOpen /\ Established /\ ~Ended /\ server.data < MaxData
    /\ server' = [server EXCEPT !.data = @ + 1, !.sent = Append(@, AppRecord(<<"d", server.data>>))]
    /\ Push(<<AppRecord(<<"d", server.data>>)>>)

\* The server says that it closes, or breaks off in a record.
ServerEnds ==
    /\ ServerOpen /\ ~Ended
    /\ \E f \in {AlertRecord, PartialRecord} : (f = AlertRecord => Established) /\ SendsNext(<<f>>)

\* It closes its side or the socket.
ServerClose ==
    /\ \E kind \in {"half", "full"} :
         /\ server.closed = "no" \/ (server.closed = "half" /\ kind = "full")
         /\ server' = [server EXCEPT !.closed = kind]
    /\ pipe' = [pipe EXCEPT !["s2v"].eof = TRUE]
    /\ UNCHANGED <<app, client, verifier>>

-----------------------------------------------------------------------------
ProverNext == Poll \/ SessionLost \/ Finish

VerifierNext ==
    CopyToServer \/ CloseToServer \/ CopyToProver \/ CloseToProver \/ VerifierFinalize

ServerNext ==
    ServerReads \/ ServerSeesEnd \/ ServerHello \/ ServerFinished \/ ServerData \/ ServerEnds
        \/ ServerClose

ProxyNext ==
    \/ Poll \/ SessionLost \/ Finish \/ AppWrite \/ AppRead \/ AppClose
    \/ VerifierNext \/ ServerNext

-----------------------------------------------------------------------------
Up == INSTANCE Pipe WITH
    sent <- client.written, closed <- pipe["p2v"].eof,
    got <- server.got, ended <- server.eof

Down == INSTANCE Pipe WITH
    sent <- server.sent, closed <- server.closed # "no",
    got <- client.got, ended <- client.task_server_closed

\* The forwarding of Verifier::run, with its two copies and their closes, is a
\* stream in each direction for the prover and the server.
ForwardingIsPipe == Up!Spec /\ Down!Spec

BothCommitted == client.phase = "committed" /\ verifier.phase = "committed"

Plain(records) == [i \in DOMAIN records |-> [records[i] EXCEPT !.plaintext = <<>>]]

\* When both have committed they have the same transcript of the connection, unless
\* a record was still in ProxyTlsClient when the end of the server's stream made it
\* take the traffic; then the verifier has seen more than the prover's transcript.
TranscriptsAgree ==
    BothCommitted =>
        LET p == client.output
            v == verifier.output
        IN /\ Plain(p.recv) = v.recv
           /\ p.handshake = v.handshake /\ p.cf_hash = v.cf_hash /\ p.sf_hash = v.sf_hash
           /\ IF client.late THEN IsPrefix(Plain(p.sent), v.sent) ELSE Plain(p.sent) = v.sent
           /\ ToTranscript(p.recv) = [i \in 1..server.data |-> <<"d", i - 1>>]

\* A finished connection between honest parties fails for two reasons only.  The
\* prover fails if the server broke off in a record or the application had left
\* data unread when the server closed; the verifier fails with it, or if the server
\* was gone while records were on their way to it.
FailuresExplained ==
    /\ client.phase = "failed" =>
         \/ client.unread_left \/ Contains(server.sent, PartialRecord)
         \/ verifier.phase = "failed"
    /\ verifier.phase = "failed" => client.phase = "failed" \/ server.closed = "full"

\* A proxied connection has one outcome: the transcripts that the prover and the
\* verifier parse out of the traffic agree, and a failure has a reason in what the
\* application or the server did (proxy/prover.rs, proxy/verifier.rs).
ProxyOutcome == TranscriptsAgree /\ FailuresExplained

\* Once the server has closed an established connection, both sides are done, in
\* whatever order the application, the server and the two copies close.
CloseEndsBoth ==
    Established /\ server.closed # "no" ~>
        client.phase \in {"committed", "failed"} /\ verifier.phase \in {"committed", "failed"}
=============================================================================
