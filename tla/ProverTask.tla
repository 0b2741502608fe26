----------------------------- MODULE ProverTask -----------------------------
(***************************************************************************)
(* The prover's connection task: ProverFuture::poll, Prover::poll with its *)
(* two IO halves, and the state machines of the two TLS clients it drives, *)
(* MpcTlsClient and ProxyTlsClient.                                        *)
(*                                                                         *)
(* The task is polled when it was woken.  What wakes it is the subject of  *)
(* this module: a poll that finds a stream not ready leaves a waker with   *)
(* it, a poll that finds it ready does not.  A poll is a sequence of steps *)
(* (task.pc), one per transfer and one per recursion of TlsClient::poll.   *)
(*                                                                         *)
(* The TLS connection below is reduced to what decides whether it has work *)
(* to do and whether that work waits for the verifier; MpcTls.tla is its   *)
(* detailed model.                                                         *)
(***************************************************************************)
EXTENDS Integers, Sequences, SequencesExt

CONSTANTS
    Modes,              \* among "Mpc" and "Proxy": the TLS clients the prover drives
    MaxWrites,          \* bound: writes of the application
    MaxData,            \* bound: application data records of the server
    ClosesEarly         \* the server may close before its Finished message

ASSUME ProverTaskAssumption ==
    /\ Modes \subseteq {"Mpc", "Proxy"}
    /\ MaxWrites \in Nat /\ MaxData \in Nat
    /\ ClosesEarly \in BOOLEAN

VARIABLES
    app,                \* client_io: what the application wrote, closed and got
    net,                \* server_socket, the inbound buffer and the wire
    task,               \* Prover's own state and the position in its poll
    client,             \* MpcTlsClient or ProxyTlsClient
    conn                \* the TLS connection in it

vars == <<app, net, task, client, conn>>

Init ==
    /\ app = [queue |-> 0, written |-> 0, eof |-> FALSE, waker |-> FALSE, received |-> 0]
    /\ net = [inbound |-> <<>>, eof |-> FALSE, waker |-> FALSE, buf |-> <<>>,
              wire |-> <<>>, sent |-> <<>>]
    /\ task = [pc |-> "idle", woken |-> TRUE, client_closed |-> FALSE,
               server_closed |-> FALSE, output |-> FALSE]
    /\ \E mode \in Modes, dec \in BOOLEAN :
        /\ mode = "Proxy" => dec
        /\ client = [mode |-> mode, state |-> IF mode = "Mpc" THEN "Start" ELSE "Init",
                     job |-> "none", mpc |-> "no", server_closed |-> FALSE,
                     wants_close |-> FALSE, client_closed |-> FALSE,
                     flag |-> dec, decrypt |-> dec]
    /\ conn = [hs |-> 0, frames |-> <<>>, plaintext |-> 0, encrypt |-> <<>>,
               out |-> IF client.mode = "Mpc" THEN <<>> ELSE <<"hello">>,
               deferred |-> <<>>, unread |-> 0, close_notify |-> FALSE, closed |-> FALSE]

-----------------------------------------------------------------------------
(* The TLS connection. *)

\* What the connection may decrypt now: all that is deferred, or only what
\* precedes the application data when it is not decrypting.  ProxyTlsClient
\* always decrypts.
Decryptable(c) ==
    IF client.decrypt \/ c.closed \/ client.mode = "Proxy" THEN c.deferred
    ELSE IF Contains(c.deferred, "data")
    THEN SubSeq(c.deferred, 1, SelectInSeq(c.deferred, LAMBDA x : x = "data") - 1)
    ELSE c.deferred

\* Plaintext becomes records once the handshake is complete.
Encryptable(c) ==
    IF c.hs = 2 THEN c.encrypt \o [i \in 1..c.plaintext |-> "data"] ELSE c.encrypt

\* The frames that are flights of the handshake, and the others, which are
\* encrypted records.
IsFlight(frame) == frame \in {"flight1", "flight2"}

\* The frames reach the state machine or the record layer.  The first flight of
\* the server is answered with the client's key exchange and Finished.
TakeFrames(c) ==
    [ c EXCEPT !.frames = <<>>,
               !.hs = @ + Len(SelectSeq(c.frames, IsFlight)),
               !.deferred = @ \o SelectSeq(c.frames, LAMBDA x : ~IsFlight(x)),
               !.encrypt = IF Contains(c.frames, "flight1") THEN Append(@, "finished") ELSE @ ]

\* process_new_packets, repeated until nothing changes.
Process(c) ==
    LET t == TakeFrames(c)
        plain == Decryptable(t)
    IN [ t EXCEPT
           !.plaintext = IF t.hs = 2 THEN 0 ELSE @,
           !.encrypt = <<>>,
           !.out = @ \o Encryptable(t),
           !.deferred = SubSeq(@, Len(plain) + 1, Len(@)),
           !.unread = @ + Len(SelectSeq(plain, LAMBDA x : x = "data")),
           !.close_notify = @ \/ Contains(plain, "close_notify") ]

\* Processing runs a computation with the verifier: it computes keys or verify
\* data, encrypts or decrypts.
NeedsVerifier(c) ==
    LET t == TakeFrames(c)
    IN t.hs # c.hs \/ Encryptable(t) # <<>> \/ (~t.closed /\ Decryptable(t) # <<>>)

\* CommonState::wants_read
WantsReadTls(c) ==
    c.unread = 0 /\ ~c.close_notify /\ (c.hs = 2 \/ c.out = <<>>)

-----------------------------------------------------------------------------
(* What Prover::poll asks of the client. *)

\* inner_client: MpcTlsClient has its connection only between two futures.
HasConn == client.mode = "Proxy" \/ client.state \in {"Active", "CloseActive"}

WantsWrite ==
    IF client.mode = "Proxy" THEN client.state \in {"Handshaking", "Connected"} /\ ~client.wants_close
    ELSE HasConn

WantsRead == IF client.mode = "Proxy" THEN client.state = "Connected" ELSE HasConn

-----------------------------------------------------------------------------
(* Prover::poll *)

At(pc) == task.pc = pc
Goto(pc) == task' = [task EXCEPT !.pc = pc]
GotoWoken(pc) == task' = [task EXCEPT !.pc = pc, !.woken = TRUE]

\* The executor polls the task that was woken.
PollStart ==
    /\ At("idle") /\ task.woken
    /\ task' = [task EXCEPT !.pc = "from_app", !.woken = FALSE]
    /\ UNCHANGED <<app, net, client, conn>>

\* Faulty: leaves what the client does not take now for the next poll.
FromAppQuiet ==
    /\ At("from_app") /\ Goto("from_socket")
    /\ IF app.queue > 0 /\ WantsWrite
       THEN /\ conn' = [conn EXCEPT !.plaintext = @ + app.queue]
            /\ app' = [app EXCEPT !.queue = 0]
       ELSE /\ app' = [app EXCEPT !.waker = app.queue = 0]
            /\ UNCHANGED conn
    /\ UNCHANGED <<net, client>>

\* tls_conn -> tls_client.  Only an empty stream keeps the waker.
FromApp ==
    /\ At("from_app")
    /\ \/ /\ app.queue > 0 /\ WantsWrite
          /\ conn' = [conn EXCEPT !.plaintext = @ + app.queue]
          /\ app' = [app EXCEPT !.queue = 0]
          /\ Goto("from_socket") /\ UNCHANGED client
       \/ /\ app.queue > 0 /\ ~WantsWrite
          /\ GotoWoken("from_socket") /\ UNCHANGED <<app, client, conn>>
       \/ /\ app.queue = 0 /\ app.eof
          /\ LET close == ~task.client_closed /\ ~task.server_closed
             IN /\ task' = [task EXCEPT !.pc = "from_socket", !.client_closed = @ \/ close]
                /\ client' = [client EXCEPT !.wants_close = @ \/ close]
          /\ UNCHANGED <<app, conn>>
       \/ /\ app.queue = 0 /\ ~app.eof
          /\ app' = [app EXCEPT !.waker = TRUE]
          /\ Goto("from_socket") /\ UNCHANGED <<client, conn>>
    /\ UNCHANGED net

\* server_socket -> buf: a read returns a part of what there is, or the end.
FromSocket ==
    /\ At("from_socket")
    /\ \/ /\ net.inbound # <<>>
          /\ net' = [net EXCEPT !.buf = Append(@, Head(net.inbound)), !.inbound = Tail(@)]
          /\ GotoWoken("to_client")
       \/ /\ net.inbound = <<>> /\ net.eof
          /\ task' = [task EXCEPT !.pc = "to_client", !.server_closed = TRUE]
          /\ UNCHANGED net
       \/ /\ net.inbound = <<>> /\ ~net.eof
          /\ net' = [net EXCEPT !.waker = TRUE]
          /\ Goto("to_client")
    /\ UNCHANGED <<app, client, conn>>

\* buf -> tls_client: the end of the stream is passed on after all it held.
ToClient ==
    /\ At("to_client")
    /\ \/ /\ net.buf # <<>> /\ HasConn /\ WantsReadTls(conn)
          /\ conn' = [conn EXCEPT !.frames = @ \o net.buf]
          /\ net' = [net EXCEPT !.buf = <<>>]
          /\ GotoWoken("tls") /\ UNCHANGED client
       \/ /\ net.buf # <<>> /\ ~(HasConn /\ WantsReadTls(conn))
          /\ GotoWoken("tls") /\ UNCHANGED <<net, client, conn>>
       \/ /\ net.buf = <<>>
          /\ client' = [client EXCEPT !.server_closed = @ \/ task.server_closed]
          /\ Goto("tls") /\ UNCHANGED <<net, conn>>
    /\ UNCHANGED app

\* io_from_tls_client: records to the server, plaintext to the application; and
\* the end of the poll.
IoFromTlsClient ==
    /\ At("to_server")
    /\ LET out == HasConn
           read == WantsRead
       IN /\ conn' = [conn EXCEPT !.out = IF out THEN <<>> ELSE @,
                                  !.unread = IF read THEN 0 ELSE @]
          /\ net' = IF out THEN [net EXCEPT !.wire = @ \o conn.out] ELSE net
          /\ app' = IF read THEN [app EXCEPT !.received = @ + conn.unread] ELSE app
    /\ Goto(IF task.server_closed /\ task.output THEN "done" ELSE "idle")
    /\ UNCHANGED client

-----------------------------------------------------------------------------
(* MpcTlsClient::poll *)

\* The client polls itself again in its new state.
MpcAt(state) == At("tls") /\ client.mode = "Mpc" /\ ~task.output /\ client.state = state

Spawn(state, job) ==
    client' = [client EXCEPT !.state = state, !.job = job, !.mpc = "no"]

PollStarted ==
    /\ MpcAt("Start")
    /\ Spawn("Busy", "start")
    /\ UNCHANGED <<app, net, task, conn>>

\* Faulty: the application's close comes first.
PollActiveClientFirst ==
    /\ MpcAt("Active")
    /\ Spawn("Busy", IF conn.hs = 2 /\ client.wants_close THEN "client_close" ELSE "run")
    /\ UNCHANGED <<app, net, task, conn>>

\* A close comes before a change of the decryption flag, and neither is looked
\* at during the handshake.
PollActive ==
    /\ MpcAt("Active")
    /\ \/ conn.hs = 2 /\ client.server_closed /\ Spawn("CloseBusy", "server_close")
       \/ /\ conn.hs = 2 /\ ~client.server_closed /\ client.wants_close
          /\ Spawn("Busy", "client_close")
       \/ /\ conn.hs = 2 /\ ~client.server_closed /\ ~client.wants_close
          /\ client' = [client EXCEPT !.state = "Busy", !.job = "run", !.mpc = "no",
                                      !.decrypt = client.flag]
       \/ conn.hs < 2 /\ Spawn("Busy", "run")
    /\ UNCHANGED <<app, net, task, conn>>

PollCloseActive ==
    /\ MpcAt("CloseActive")
    /\ Spawn("CloseBusy", "run")
    /\ UNCHANGED <<app, net, task, conn>>

\* Faulty: a closed connection refuses to be run.
RefusesRun == conn.closed

\* A closed connection refuses to encrypt.
RefusesWrite == conn.closed /\ conn.plaintext > 0

\* The future of the job has to wait for the verifier.
JobWaits ==
    \/ client.job \in {"run", "client_close"} /\ NeedsVerifier(conn) /\ ~RefusesWrite
    \/ client.job \in {"server_close", "finalize"}

\* The future is polled and is pending; it wakes the task when it can go on.
PollPending ==
    /\ At("tls") /\ ~task.output /\ client.job # "none" /\ JobWaits /\ client.mpc # "done"
    /\ client' = [client EXCEPT !.mpc = "waiting"]
    /\ Goto("to_server")
    /\ UNCHANGED <<app, net, conn>>

\* The future is polled and can finish.
JobReady(state) == MpcAt(state) /\ (JobWaits => client.mpc = "done")

\* What start, run and client_close leave.
AfterJob ==
    CASE client.job = "start" -> [conn EXCEPT !.out = Append(@, "hello")]
      [] client.job = "run" -> Process(conn)
      [] client.job = "client_close" ->
            LET c == Process(conn)
            IN IF client.client_closed THEN c
               ELSE [c EXCEPT !.encrypt = Append(@, "close_notify")]
      [] client.job = "server_close" -> [Process(conn) EXCEPT !.closed = TRUE]

\* Faulty: never polls itself again.
PollBusyOnce ==
    /\ JobReady("Busy")
    /\ conn' = AfterJob
    /\ client' = [client EXCEPT !.state = "Active", !.job = "none",
                                !.client_closed = @ \/ client.job = "client_close"]
    /\ Goto("to_server")
    /\ UNCHANGED <<app, net>>

\* The client is polled again at once when the server has closed.
PollBusy ==
    /\ JobReady("Busy")
    /\ conn' = AfterJob
    /\ client' = [client EXCEPT !.state = "Active", !.job = "none",
                                !.client_closed = @ \/ client.job = "client_close"]
    /\ Goto(IF client.server_closed THEN "tls" ELSE "to_server")
    /\ UNCHANGED <<app, net>>

\* Faulty: looks at the plaintext only.
RecordLayerEmptyPlain(c) == c.unread = 0

\* is_record_layer_empty
RecordLayerEmpty(c) == c.unread = 0 /\ c.deferred = <<>> /\ c.encrypt = <<>>

\* Once all is delivered the client finalizes, otherwise it wakes itself.
PollCloseBusy ==
    /\ JobReady("CloseBusy") /\ ~RefusesWrite
    /\ conn' = AfterJob
    /\ IF RecordLayerEmpty(AfterJob)
       THEN Spawn("Finalizing", "finalize") /\ UNCHANGED task
       ELSE /\ client' = [client EXCEPT !.state = "CloseActive", !.job = "none"]
            /\ GotoWoken("to_server")
    /\ UNCHANGED <<app, net>>

\* The prover's poll returns the client's error.
PollFails ==
    /\ JobReady("CloseBusy") /\ RefusesWrite
    /\ client' = [client EXCEPT !.state = "Error", !.job = "none"]
    /\ Goto("failed")
    /\ UNCHANGED <<app, net, conn>>

PollFinalizing ==
    /\ At("tls") /\ ~task.output /\ client.state = "Finalizing" /\ client.mpc = "done"
    /\ client' = [client EXCEPT !.state = "Finished", !.job = "none"]
    /\ task' = [task EXCEPT !.pc = "to_server", !.output = TRUE]
    /\ UNCHANGED <<app, net, conn>>

-----------------------------------------------------------------------------
(* ProxyTlsClient::poll *)

ProxyAt(state) == At("tls") /\ client.mode = "Proxy" /\ ~task.output /\ client.state = state

ProxyInit ==
    /\ ProxyAt("Init")
    /\ client' = [client EXCEPT !.state = "Handshaking"]
    /\ UNCHANGED <<app, net, task, conn>>

ProxyHandshaking ==
    /\ ProxyAt("Handshaking")
    /\ conn' = Process(conn)
    /\ IF conn'.hs = 2
       THEN client' = [client EXCEPT !.state = "Connected"] /\ UNCHANGED task
       ELSE Goto("to_server") /\ UNCHANGED client
    /\ UNCHANGED <<app, net>>

\* The end of the server's stream, then the application's close, once.
ProxyConnected ==
    /\ ProxyAt("Connected")
    /\ LET c == Process(conn)
       IN \/ /\ client.server_closed
             /\ conn' = c /\ Spawn("Finalizing", "finalize") /\ UNCHANGED task
          \/ /\ ~client.server_closed /\ client.wants_close /\ ~client.client_closed
             /\ conn' = [c EXCEPT !.out = Append(@, "close_notify")]
             /\ client' = [client EXCEPT !.client_closed = TRUE]
             /\ UNCHANGED task
          \/ /\ ~client.server_closed /\ (client.wants_close => client.client_closed)
             /\ conn' = c /\ Goto("to_server") /\ UNCHANGED client
    /\ UNCHANGED <<app, net>>

-----------------------------------------------------------------------------
(* The verifier, the application and the server. *)

\* A pending computation with the verifier completes and wakes the task.
MpcDone ==
    /\ client.mpc = "waiting"
    /\ client' = [client EXCEPT !.mpc = "done"]
    /\ task' = [task EXCEPT !.woken = TRUE]
    /\ UNCHANGED <<app, net, conn>>

Live == task.pc \notin {"done", "failed"}

\* An event on client_io uses up the waker that was left there.
WakeApp(a) ==
    /\ app' = [a EXCEPT !.waker = FALSE]
    /\ task' = [task EXCEPT !.woken = @ \/ app.waker]
    /\ UNCHANGED <<net, client, conn>>

AppWrite ==
    /\ Live /\ app.written < MaxWrites /\ ~app.eof
    /\ WakeApp([app EXCEPT !.queue = @ + 1, !.written = @ + 1])

AppClose ==
    /\ Live /\ ~app.eof
    /\ WakeApp([app EXCEPT !.eof = TRUE])

\* ProverControl::enable_decryption: wakes no one.
SetDecrypt ==
    /\ Live /\ client.mode = "Mpc"
    /\ client' = [client EXCEPT !.flag = ~@]
    /\ UNCHANGED <<app, net, task, conn>>

\* An event on server_socket uses up the waker that was left there.
WakeSocket(n) ==
    /\ net' = [n EXCEPT !.waker = FALSE]
    /\ task' = [task EXCEPT !.woken = @ \/ net.waker]
    /\ UNCHANGED <<app, client, conn>>

Sent(frame) == Contains(net.sent, frame)

\* The server answers the client's flights and then sends as it likes.
ServerSends(frame) ==
    /\ Live /\ ~net.eof /\ ~Sent("close_notify")
    /\ CASE frame = "flight1" -> Contains(net.wire, "hello") /\ ~Sent(frame)
         [] frame = "flight2" -> Contains(net.wire, "finished") /\ ~Sent(frame)
         [] frame = "close_notify" -> Sent("flight2")
         [] frame = "data" ->
              Sent("flight2") /\ Len(SelectSeq(net.sent, LAMBDA x : x = "data")) < MaxData
    /\ WakeSocket([net EXCEPT !.inbound = Append(@, frame), !.sent = Append(@, frame)])

ServerSend == \E frame \in {"flight1", "flight2", "data", "close_notify"} : ServerSends(frame)

ServerClose ==
    /\ Live /\ ~net.eof /\ (ClosesEarly \/ Sent("flight2"))
    /\ WakeSocket([net EXCEPT !.eof = TRUE])

-----------------------------------------------------------------------------
TlsPoll ==
    \/ PollStarted \/ PollActive \/ PollCloseActive \/ PollPending
    \/ PollBusy \/ PollCloseBusy \/ PollFails \/ PollFinalizing
    \/ ProxyInit \/ ProxyHandshaking \/ ProxyConnected

ProverNext ==
    PollStart \/ FromApp \/ FromSocket \/ ToClient \/ TlsPoll \/ IoFromTlsClient

Environment == AppWrite \/ AppClose \/ SetDecrypt \/ ServerSend \/ ServerClose

Next == ProverNext \/ MpcDone \/ Environment

Spec == Init /\ [][Next]_vars

\* A woken task is polled, a poll goes on, and the verifier answers.  The
\* application and the server need not do anything.
FairSpec == Spec /\ WF_vars(ProverNext) /\ WF_vars(MpcDone)

-----------------------------------------------------------------------------
\* Every position and state is one of the code's.
TypeOK ==
    /\ task.pc \in {"idle", "from_app", "from_socket", "to_client", "tls", "to_server",
                    "done", "failed"}
    /\ client.state \in {"Start", "Active", "Busy", "CloseActive", "CloseBusy", "Finalizing",
                         "Finished", "Error", "Init", "Handshaking", "Connected"}
    /\ client.job \in {"none", "start", "run", "client_close", "server_close", "finalize"}
    /\ client.mpc \in {"no", "waiting", "done"}
    /\ conn.hs \in 0..2 /\ conn.plaintext \in 0..MaxWrites /\ conn.unread \in 0..MaxData
    /\ app.received \in 0..MaxData

Datas(s) == Len(SelectSeq(s, LAMBDA x : x = "data"))

\* Nothing is lost or duplicated between the application and the server in
\* either direction, wherever in the task's buffers it is.
Conserved ==
    /\ app.written = app.queue + conn.plaintext + Datas(conn.encrypt) + Datas(conn.out)
                     + Datas(net.wire)
    /\ Datas(net.sent) = Datas(net.inbound) + Datas(net.buf) + Datas(conn.frames)
                         + Datas(conn.deferred) + conn.unread + app.received

\* When the prover is done the application has received all the server sent.
DoneDelivers == At("done") => app.received = Datas(net.sent)

\* The task loses nothing: what is on its way is in one of its buffers, and what
\* came from the server has been delivered when the task ends (Prover::poll with
\* its two IO halves), in states of the code's types.
NothingLost == TypeOK /\ Conserved /\ DoneDelivers

\* The prover's task fails only if the application wrote after the connection
\* was closed and while data of the server was still being delivered.
FailsOnlyOnLateWrite == At("failed") => conn.closed /\ conn.plaintext > 0

Over == ~Live

\* Once the server has closed an established connection the task ends, however
\* the end of the stream, the application's close and the futures interleave.
ServerCloseEnds == net.eof /\ Sent("flight2") ~> Over

\* In MPC mode what the application wrote on an established connection leaves for
\* the server, unless the server closes.  (In proxy mode nothing polls the task
\* again after a write it has taken, so no waker is there for the next one.)
WrittenIsSent ==
    client.mode = "Mpc" /\ conn.hs = 2 /\ Datas(net.wire) < app.written
        ~> Datas(net.wire) = app.written \/ net.eof

\* While the client decrypts, what the server sends reaches the application.
SentIsReceived ==
    app.received < Datas(net.sent) /\ client.decrypt
        ~> app.received = Datas(net.sent) \/ ~client.decrypt \/ Over

\* Data gets through in both directions: some waker polls the task whenever there is
\* something for it to move (MpcTlsClient::poll, ProxyTlsClient::poll).
GetsThrough == WrittenIsSent /\ SentIsReceived

\* A poll of the task returns: the recursion of MpcTlsClient::poll, which is there
\* to "re-poll immediately if a close transition is pending", ends.
PollReturns == At("tls") ~> ~At("tls")

\* Closing the TlsConnection cleanly closes the TLS connection: the server gets a
\* close_notify unless it closes itself.
CloseNotifySent ==
    app.eof /\ conn.hs = 2 ~> Contains(net.wire, "close_notify") \/ net.eof
=============================================================================
