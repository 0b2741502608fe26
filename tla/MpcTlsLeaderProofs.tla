------------------------ MODULE MpcTlsLeaderProofs ------------------------
(***************************************************************************)
(* The invariant of MpcTlsFollowerProofs is kept by the leader and its TLS *)
(* client, by the two-party computations, and by the application and the   *)
(* server.                                                                 *)
(***************************************************************************)
EXTENDS MpcTlsFollowerProofs
-----------------------------------------------------------------------------
(* The leader's steps without a message. *)

\* Steps after which the follower finds the leader where it was.
LEMMA LocalStep ==
    ASSUME Inv, UNCHANGED <<follower, chan>>, leader.state \notin {"Init", "Setup", "Error"},
           leader.join = "none", leader' \in LeaderType, Counted(leader'.rl),
           leader'.rl.role = "Leader", leader'.state = leader.state, leader'.join = "none",
           SameBase(leader'.rl, leader.rl), leader'.rl.sent = leader.rl.sent,
           leader'.rl.encrypt_buffer = leader.rl.encrypt_buffer,
           leader'.rl.decrypt_buffer = leader.rl.decrypt_buffer,
           client' \in ClientType, server' \in ServerType,
           client'.hs = client.hs \/ (client.hs = "Ccs" /\ client'.hs = "Finished"),
           client'.pc \notin {"off", "failed"},
           leader.state = "Closed" =>
             \/ client'.pc \in {"close_active", "done"}
             \/ client'.pc \in {"start", "frames", "incoming"} /\ client'.task = "close_run",
           client'.pc \in {"close_active", "done"} \/ client'.task = "close_run"
             => leader.state = "Closed",
           client'.task # "run" => client'.hs = "Traffic",
           FramesInOrder'
    PROVE  Inv'
<1>1. Told' = Told
  BY DEF Told
<1>2. Synced'
  <2>1. Running' => Running
    BY DEF Running
  <2>2. leader.join # "Flush"
    OBVIOUS
  <2> QED
    BY Zenon, <1>1, <2>1, <2>2, StaySynced
<1>3. Pairing'
  BY DEF Inv, Pairing
<1>4. Phases'
  <2>1. /\ leader.state = "Handshake" => client.hs \in {"ServerHello", "ServerDone"}
        /\ leader.state = "Active" => client.hs \in {"Ccs", "Finished", "Traffic"}
        /\ leader.state = "Closed" =>
             /\ client.hs = "Traffic"
             /\ leader.rl.encrypt_buffer = <<>> /\ leader.rl.decrypt_buffer = <<>>
    BY DEF Inv, LeaderInv, Phases
  <2>2. leader.state \in {"Handshake", "Active", "Closed"}
    BY DEF LeaderType
  <2> QED
    BY <2>1, <2>2 DEF Phases
<1>5. FinishedSeen'
  <2>1. FinishedSeen
    BY Zenon DEF Inv, LeaderInv
  <2>2. leader'.rl.recv_records = leader.rl.recv_records
    BY Zenon DEF SameBase
  <2> QED
    BY <2>1, <2>2 DEF FinishedSeen
<1> QED
  BY Zenon, <1>2, <1>3, <1>4, <1>5 DEF Inv, LeaderInv, FollowerInv

\* Steps of the TLS client, the application and the server alone.
LEMMA ClientStep ==
    ASSUME Inv, UNCHANGED <<follower, chan>>, leader.state \notin {"Init", "Setup", "Error"},
           leader.join = "none",
           NEW dec \in BOOLEAN, leader' = [leader EXCEPT !.is_decrypting = dec],
           client' \in ClientType, server' \in ServerType, server'.next = server.next,
           client'.hs = client.hs, client'.frames = client.frames,
           client'.pc \notin {"off", "failed"},
           leader.state = "Closed" =>
             \/ client'.pc \in {"close_active", "done"}
             \/ client'.pc \in {"start", "frames", "incoming"} /\ client'.task = "close_run",
           client'.pc \in {"close_active", "done"} \/ client'.task = "close_run"
             => leader.state = "Closed",
           client'.task # "run" => client'.hs = "Traffic"
    PROVE  Inv'
<1>1. leader \in LeaderType /\ Counted(leader.rl) /\ leader.rl.role = "Leader"
  BY Zenon, Parts
<1>2. /\ leader' \in LeaderType /\ leader'.rl = leader.rl
      /\ leader'.state = leader.state /\ leader'.join = "none"
  BY Zenon, <1>1 DEF LeaderType
<1>3. SameBase(leader'.rl, leader.rl)
  BY Zenon, <1>2 DEF SameBase
<1>4. FramesInOrder'
  <2>1. Passed' = Passed /\ Greeted' = Greeted
    BY Zenon, <1>2 DEF Passed, Greeted
  <2> QED
    BY Zenon, <1>2, <2>1 DEF Inv, LeaderInv, FramesInOrder
<1> QED
  BY Zenon, <1>1, <1>2, <1>3, <1>4, LocalStep
\* What the phases say of a TLS client that is at some point of its code.
LEMMA AtFacts ==
    ASSUME Inv, client.pc \notin {"off", "failed"}
    PROVE  /\ leader.state \in {"Handshake", "Active", "Closed"}
           /\ client.pc \in {"active", "start", "traffic", "close_active", "done"} =>
                leader.join = "none"
           /\ client.pc \in {"close_active", "done"} \/ client.task = "close_run"
                => leader.state = "Closed"
           /\ client.task # "run" => client.hs = "Traffic"
           /\ leader.state = "Closed" =>
                /\ client.hs = "Traffic"
                /\ \/ client.pc \in {"close_active", "done"}
                   \/ client.pc \in {"start", "frames", "incoming"} /\ client.task = "close_run"
           /\ client \in ClientType /\ leader \in LeaderType /\ server \in ServerType
           /\ leader = [leader EXCEPT !.is_decrypting = leader.is_decrypting]
           /\ leader.is_decrypting \in BOOLEAN
<1>1. leader \in LeaderType /\ client \in ClientType /\ server \in ServerType /\ Phases
  BY Zenon, Parts DEF Inv, LeaderInv
<1>2. /\ leader.state \in {"Init", "Setup", "Handshake", "Active", "Closed", "Error"}
      /\ leader.join \in Calls /\ leader.is_decrypting \in BOOLEAN
      /\ leader = [leader EXCEPT !.is_decrypting = leader.is_decrypting]
  BY Zenon, <1>1 DEF LeaderType
<1>3. leader.state \in {"Handshake", "Active", "Closed"}
  BY <1>1, <1>2 DEF Phases
<1>4. /\ client.pc \in {"active", "start", "traffic", "close_active", "done"} => leader.join = "none"
      /\ client.pc \in {"close_active", "done"} \/ client.task = "close_run" => leader.state = "Closed"
      /\ client.task # "run" => client.hs = "Traffic"
      /\ leader.state = "Closed" =>
           /\ client.hs = "Traffic"
           /\ \/ client.pc \in {"close_active", "done"}
              \/ client.pc \in {"start", "frames", "incoming"} /\ client.task = "close_run"
  BY <1>1, <1>2, <1>3 DEF Phases, Calls
<1> QED
  BY Zenon, <1>1, <1>2, <1>3, <1>4

\* The polls, the ends of passes and runs.
LEMMA RunSteps ==
    ASSUME Inv, Poll \/ PollClosing \/ RunAgain \/ EndRun
    PROVE  Inv'
<1>1. client.pc \notin {"off", "failed"} /\ leader.join = "none" /\ UNCHANGED <<follower, chan, server>>
  BY DEF Poll, PollClosing, RunAgain, EndRun, EndOfPass, RunDone, At
<1>2. /\ client \in ClientType /\ leader \in LeaderType /\ server \in ServerType
      /\ leader.state \notin {"Init", "Setup", "Error"}
      /\ leader = [leader EXCEPT !.is_decrypting = leader.is_decrypting]
      /\ leader.is_decrypting \in BOOLEAN
  BY <1>1, AtFacts
<1>3. CASE Poll
  <2> DEFINE traffic == client.hs = "Traffic"
             task == IF traffic /\ server.closed THEN "server_close"
                     ELSE IF traffic /\ client.wants_close THEN "client_close" ELSE "run"
  <2>1. /\ client.pc = "active"
        /\ client' = [client EXCEPT !.pc = "start", !.task = task, !.pass = 1, !.changed = FALSE]
        /\ leader' = IF traffic /\ task = "run"
                     THEN [leader EXCEPT !.is_decrypting = client.decrypt] ELSE leader
    BY Zenon, <1>3 DEF Poll, At
  <2>2. /\ task \in {"run", "client_close", "server_close"} /\ (task # "run" => traffic)
        /\ 1 \in {1, 2}
    OBVIOUS
  <2> HIDE DEF task
  <2>3. /\ client' \in ClientType /\ client'.hs = client.hs /\ client'.frames = client.frames
        /\ client'.pc = "start" /\ client'.task = task
    <3>1. task \in {"run", "client_close", "server_close", "close_run"}
      BY <2>2
    <3> QED
      BY Zenon, <1>2, <2>1, <2>2, <3>1 DEF ClientType
  <2>4. \E dec \in BOOLEAN : leader' = [leader EXCEPT !.is_decrypting = dec]
    BY Zenon, <1>2, <2>1 DEF ClientType
  <2>5. leader.state # "Closed"
    BY <1>1, <2>1, AtFacts
  <2>6. /\ client'.pc \notin {"off", "failed", "close_active", "done"}
        /\ client'.task # "close_run" /\ (client'.task # "run" => client'.hs = "Traffic")
    BY <2>2, <2>3
  <2> QED
    BY Zenon, <1>1, <1>2, <2>3, <2>4, <2>5, <2>6, ClientStep
<1>4. CASE PollClosing
  <2>1. /\ client.pc = "close_active" /\ leader' = leader
        /\ client' = [client EXCEPT !.pc = "start", !.task = "close_run",
                                    !.pass = 1, !.changed = FALSE]
    BY Zenon, <1>4 DEF PollClosing, At
  <2>2. /\ client' \in ClientType /\ client'.hs = client.hs /\ client'.frames = client.frames
        /\ client'.pc = "start" /\ client'.task = "close_run"
    <3>1. 1 \in {1, 2}
      OBVIOUS
    <3> QED
      BY Zenon, <1>2, <2>1, <3>1 DEF ClientType
  <2>3. leader.state = "Closed" /\ client.hs = "Traffic"
    BY <1>1, <2>1, AtFacts
  <2>4. client'.pc \notin {"off", "failed"} /\ client'.pc \in {"start", "frames", "incoming"}
    BY <2>2
  <2> QED
    BY Zenon, <1>1, <1>2, <2>1, <2>2, <2>3, <2>4, ClientStep
<1>5. CASE RunAgain
  <2>1. /\ client.pc = "incoming" /\ leader' = leader
        /\ client' = [client EXCEPT !.pc = "start", !.pass = 2, !.changed = FALSE]
    BY Zenon, <1>5 DEF RunAgain, EndOfPass, At
  <2>2. /\ client' \in ClientType /\ client'.hs = client.hs /\ client'.frames = client.frames
        /\ client'.pc = "start" /\ client'.task = client.task
    <3>1. 2 \in {1, 2}
      OBVIOUS
    <3> QED
      BY Zenon, <1>2, <2>1, <3>1 DEF ClientType
  <2>3. /\ client'.pc \notin {"off", "failed"} /\ client'.pc \in {"start", "frames", "incoming"}
        /\ leader.state = "Closed" => client'.task = "close_run"
        /\ client'.pc \in {"close_active", "done"} \/ client'.task = "close_run" => leader.state = "Closed"
        /\ client'.task # "run" => client'.hs = "Traffic"
    BY <1>1, <2>1, <2>2, AtFacts
  <2> QED
    BY Zenon, <1>1, <1>2, <2>1, <2>2, <2>3, ClientStep
<1>6. CASE EndRun
  <2>1. /\ client.pc = "incoming" /\ leader' = leader
        /\ \/ client.task = "run" /\ client' = [client EXCEPT !.pc = "active"]
           \/ /\ client.task = "close_run"
              /\ client' = [client EXCEPT !.pc = IF Drained(leader.rl) THEN "done" ELSE "close_active"]
    BY Zenon, <1>6 DEF EndRun, RunDone, EndOfPass, At
  <2>2. /\ client' \in ClientType /\ client'.hs = client.hs /\ client'.frames = client.frames
        /\ client'.task = client.task
        /\ \/ client.task = "run" /\ client'.pc = "active"
           \/ client.task = "close_run" /\ client'.pc \in {"close_active", "done"}
    BY Zenon, <1>2, <2>1 DEF ClientType
  <2>3. /\ client'.pc \notin {"off", "failed"}
        /\ leader.state = "Closed" => client'.pc \in {"close_active", "done"}
        /\ client'.pc \in {"close_active", "done"} \/ client'.task = "close_run" => leader.state = "Closed"
        /\ client'.task # "run" => client'.hs = "Traffic"
    BY <1>1, <2>1, <2>2, AtFacts
  <2> QED
    BY Zenon, <1>1, <1>2, <2>1, <2>2, <2>3, ClientStep
<1> QED
  BY Zenon, <1>3, <1>4, <1>5, <1>6
-----------------------------------------------------------------------------
(* The application and the server. *)

\* The application between two runs.
LEMMA AppSteps ==
    ASSUME Inv, AppWrite \/ AppRead \/ AppClose \/ SetDecrypt \/ ServerClose
    PROVE  Inv'
<1>1. client.pc \in {"active", "close_active"} /\ UNCHANGED <<leader, follower, chan>>
  BY DEF AppWrite, AppRead, AppClose, SetDecrypt, ServerClose, Between
<1>2. /\ client \in ClientType /\ server \in ServerType
      /\ leader.state \notin {"Init", "Setup", "Error"} /\ leader.join = "none"
      /\ leader = [leader EXCEPT !.is_decrypting = leader.is_decrypting]
      /\ leader.is_decrypting \in BOOLEAN
      /\ leader.state = "Closed" => client.pc = "close_active"
      /\ client.pc = "close_active" \/ client.task = "close_run" => leader.state = "Closed"
      /\ client.task # "run" => client.hs = "Traffic"
  BY <1>1, AtFacts
<1>3. /\ client' \in ClientType /\ client'.pc = client.pc /\ client'.task = client.task
      /\ client'.hs = client.hs /\ client'.frames = client.frames
      /\ server' \in ServerType /\ server'.next = server.next
  <2>1. CASE AppWrite
    <3>1. server' = server /\ client' = [client EXCEPT !.plaintext = @ + 1, !.written = @ + 1]
      BY Zenon, <2>1 DEF AppWrite
    <3>2. client.plaintext + 1 \in Nat /\ client.written + 1 \in Nat
      <4>1. client.plaintext \in Nat /\ client.written \in Nat
        BY Zenon, <1>2 DEF ClientType
      <4> QED
        BY <4>1
    <3> QED
      BY Zenon, <1>2, <3>1, <3>2 DEF ClientType
  <2>2. CASE AppRead
    <3>1. server' = server /\ client' = [client EXCEPT !.unread = FALSE]
      BY Zenon, <2>2 DEF AppRead
    <3> QED
      BY Zenon, <1>2, <3>1 DEF ClientType
  <2>3. CASE AppClose
    <3>1. server' = server /\ client' = [client EXCEPT !.wants_close = TRUE]
      BY Zenon, <2>3 DEF AppClose
    <3> QED
      BY Zenon, <1>2, <3>1 DEF ClientType
  <2>4. CASE SetDecrypt
    <3>1. server' = server /\ client' = [client EXCEPT !.decrypt = ~@]
      BY Zenon, <2>4 DEF SetDecrypt
    <3>2. (~client.decrypt) \in BOOLEAN
      BY Zenon, <1>2 DEF ClientType
    <3> QED
      BY Zenon, <1>2, <3>1, <3>2 DEF ClientType
  <2>5. CASE ServerClose
    <3>1. client' = client /\ server' = [server EXCEPT !.closed = TRUE]
      BY Zenon, <2>5 DEF ServerClose
    <3> QED
      BY Zenon, <1>2, <3>1 DEF ServerType
  <2> QED
    BY Zenon, <2>1, <2>2, <2>3, <2>4, <2>5
<1>4. /\ client'.pc \notin {"off", "failed"}
      /\ leader.state = "Closed" => client'.pc \in {"close_active", "done"}
      /\ client'.pc \in {"close_active", "done"} \/ client'.task = "close_run" => leader.state = "Closed"
      /\ client'.task # "run" => client'.hs = "Traffic"
  BY <1>1, <1>2, <1>3
<1> QED
  BY Zenon, <1>1, <1>2, <1>3, <1>4, ClientStep

\* The server sends a frame.
LEMMA ServerStep ==
    ASSUME Inv, ServerSend
    PROVE  Inv'
<1>1. PICK frame \in Frame, next \in {"ServerDone", "Ccs", "Records"} :
        /\ ReadFrame(frame, next)
        /\ \/ server.next = "ServerHello" /\ next = "ServerDone"
           \/ server.next = "ServerDone" /\ next = "Ccs"
           \/ server.next = "Ccs" /\ next = "Records"
           \/ server.next = "Records" /\ next = "Records" /\ frame \in RecordFrame
  <2>1. CASE server.next = "ServerHello" /\ ReadFrame(Msg("ServerHello"), "ServerDone")
    <3>1. Msg("ServerHello") \in Frame
      BY DEF Msg, Frame
    <3> QED
      BY Zenon, <2>1, <3>1
  <2>2. CASE server.next = "ServerDone" /\ ReadFrame(Msg("ServerHelloDone"), "Ccs")
    <3>1. Msg("ServerHelloDone") \in Frame
      BY DEF Msg, Frame
    <3> QED
      BY Zenon, <2>2, <3>1
  <2>3. CASE server.next = "Ccs" /\ ReadFrame(Msg("ChangeCipherSpec"), "Records")
    <3>1. Msg("ChangeCipherSpec") \in Frame
      BY DEF Msg, Frame
    <3> QED
      BY Zenon, <2>3, <3>1
  <2>4. CASE /\ server.next = "Records"
             /\ \E typ \in ServerTypes, ok \in BOOLEAN : ReadFrame([typ |-> typ, ok |-> ok], "Records")
    <3>1. PICK typ \in ServerTypes, ok \in BOOLEAN : ReadFrame([typ |-> typ, ok |-> ok], "Records")
      BY Zenon, <2>4
    <3>2. typ \in ContentType
      BY Zenon, MpcTlsAssumption
    <3>3. [typ |-> typ, ok |-> ok] \in RecordFrame /\ [typ |-> typ, ok |-> ok] \in Frame
      BY <3>2 DEF RecordFrame, Frame
    <3> QED
      BY Zenon, <2>4, <3>1, <3>3
  <2> QED
    BY Zenon, <2>1, <2>2, <2>3, <2>4 DEF ServerSend
<1>2. /\ client.pc = "active" /\ UNCHANGED <<leader, follower, chan>>
      /\ client' = [client EXCEPT !.frames = Append(@, frame)]
      /\ server' = [server EXCEPT !.next = next,
                                  !.sent = IF next = "Records" /\ server.next = next
                                           THEN @ + 1 ELSE @]
  BY Zenon, <1>1 DEF ReadFrame
<1>3. /\ client \in ClientType /\ server \in ServerType /\ leader \in LeaderType
      /\ leader.state \notin {"Init", "Setup", "Error", "Closed"} /\ leader.join = "none"
      /\ client.task # "close_run"
      /\ client.task # "run" => client.hs = "Traffic"
  BY <1>2, AtFacts
<1>4. client.frames \in Seq(Frame) /\ server.sent \in Nat
  BY Zenon, <1>3 DEF ClientType, ServerType
<1>5. /\ Append(client.frames, frame) \in Seq(Frame)
      /\ (IF next = "Records" /\ server.next = next THEN server.sent + 1 ELSE server.sent) \in Nat
  BY <1>4
<1>6. /\ client' \in ClientType /\ client'.pc = "active" /\ client'.task = client.task
      /\ client'.hs = client.hs /\ client'.frames = Append(client.frames, frame)
  BY Zenon, <1>2, <1>3, <1>5 DEF ClientType
<1>7. server' \in ServerType /\ server'.next = next
  BY Zenon, <1>2, <1>3, <1>5 DEF ServerType
<1>8. FramesInOrder'
  <2>1. /\ server.next # "Records" => Len(client.frames) + Passed = Greeted
        /\ \A i \in 1..Len(client.frames) : i + Passed > 3 => client.frames[i] \in RecordFrame
    BY Zenon, <1>3 DEF Inv, LeaderInv, FramesInOrder
  <2>2. Passed' = Passed
    BY Zenon, <1>2, <1>6 DEF Passed
  <2>3. /\ server.next # "Records" => Greeted' = Greeted + 1 /\ Greeted <= 2
        /\ server.next = "Records" => frame \in RecordFrame /\ server'.next = "Records"
    BY <1>1, <1>7 DEF Greeted
  <2> DEFINE p == Passed
             g == Greeted
             n == Len(client.frames)
  <2>4. /\ Len(client'.frames) = n + 1 /\ n \in Nat /\ client'.frames[n + 1] = frame
        /\ \A i \in 1..n : client'.frames[i] = client.frames[i]
    BY <1>4, <1>6
  <2>5. p \in 0..3 /\ g \in 0..3
    BY Zenon, PassedType
  <2> HIDE DEF p, g, n
  <2>6. server'.next # "Records" => (n + 1) + p = Greeted'
    <3>1. server'.next # "Records" => server.next # "Records"
      BY <1>1, <1>7
    <3>2. server.next # "Records" => n + p = g /\ Greeted' = g + 1
      BY Zenon, <2>1, <2>3 DEF n, p, g
    <3> QED
      BY <2>4, <2>5, <3>1, <3>2
  <2>7. ASSUME NEW i \in 1..(n + 1), i + p > 3 PROVE client'.frames[i] \in RecordFrame
    <3>1. CASE i \in 1..n
      BY Zenon, <2>1, <2>4, <2>7, <3>1 DEF n, p
    <3>2. CASE i = n + 1
      <4>1. server.next = "Records"
        <5>1. server.next # "Records" => n + p = g /\ g <= 2
          BY Zenon, <2>1, <2>3 DEF n, p, g
        <5> QED
          BY <2>4, <2>5, <2>7, <3>2, <5>1
      <4> QED
        BY Zenon, <2>3, <2>4, <3>2, <4>1
    <3> QED
      BY <2>4, <3>1, <3>2
  <2> QED
    BY Zenon, <2>2, <2>4, <2>6, <2>7 DEF FramesInOrder, p
<1>9. /\ Counted(leader.rl) /\ leader.rl.role = "Leader" /\ SameBase(leader'.rl, leader.rl)
  BY Zenon, <1>2, Parts DEF SameBase
<1>10. /\ client'.pc \notin {"off", "failed", "close_active", "done"} /\ client'.task # "close_run"
       /\ client'.task # "run" => client'.hs = "Traffic"
       /\ leader.state # "Closed" /\ leader.state \notin {"Init", "Setup", "Error"}
  BY <1>3, <1>6
<1> QED
  BY Zenon, <1>2, <1>3, <1>6, <1>7, <1>8, <1>9, <1>10, LocalStep
-----------------------------------------------------------------------------
(* The leader's other steps. *)

\* A call that fails.
LEMMA LeaderFails ==
    ASSUME Inv, Fail, client.pc \notin {"off", "failed"}, UNCHANGED <<follower, server>>,
           chan' \in Seq(Message)
    PROVE  Inv'
<1>1. leader.state \in {"Handshake", "Active", "Closed"}
  BY Zenon, AtFacts
<1>2. leader.state \notin {"Init", "Setup"} /\ follower.state \notin {"Init", "Setup"}
  BY <1>1 DEF Inv, Pairing
<1>3. FollowerInv(follower') /\ follower'.state \notin {"Init", "Setup"}
  BY Zenon, <1>2 DEF Inv
<1> QED
  BY Zenon, <1>2, <1>3, FailStep

\* A call that returns at once, for the leader's own state.
LEMMA LeaderKeeps ==
    ASSUME LeaderInv, leader.state \in {"Handshake", "Active"},
           leader.join = "none", leader' \in LeaderType, Counted(leader'.rl),
           leader'.rl.role = "Leader", leader'.state = leader.state, leader'.join = "none",
           leader'.rl.recv_records = leader.rl.recv_records,
           leader'.rl.sent = leader.rl.sent \/ leader'.rl.sent = leader.rl.sent + 1,
           client' \in ClientType, server' \in ServerType, client'.hs = client.hs,
           client'.pc \notin {"off", "failed", "close_active", "done"},
           client'.task = client.task, FramesInOrder'
    PROVE  LeaderInv'
<1>1. /\ leader.state = "Handshake" => client.hs \in {"ServerHello", "ServerDone"}
      /\ leader.state = "Active" => client.hs \in {"Ccs", "Finished", "Traffic"}
      /\ client.task # "run" => client.hs = "Traffic"
      /\ client.task # "close_run"
  BY DEF LeaderInv, Phases
<1>2. Phases'
  BY <1>1 DEF Phases
<1>3. FinishedSeen'
  <2>1. leader.rl.sent \in Nat
    BY Zenon DEF LeaderInv, LeaderType, RlType
  <2>2. leader.rl.sent >= 1 => leader'.rl.sent >= 1
    BY <2>1
  <2>3. FinishedSeen
    BY Zenon DEF LeaderInv
  <2> QED
    BY <2>2, <2>3 DEF FinishedSeen
<1> QED
  BY Zenon, <1>2, <1>3 DEF LeaderInv

\* A call that sends a message.
LEMMA LeaderSends ==
    ASSUME Inv, leader.join = "none", leader.state \in {"Handshake", "Active"},
           leader'.state = leader.state, follower' = follower,
           NEW m \in Message, chan' = Append(chan, m), SameBase(leader'.rl, leader.rl),
           PositionOf(leader'.rl, Told') =
              Handled(m, PositionOf(leader.rl, Told),
                      Len(leader.rl.sent_records), Len(leader.rl.recv_records)),
           \/ leader'.join = "none" /\ Quiet(m, PositionOf(leader.rl, Told))
           \/ leader'.join # "none" /\ Announces(m, leader.join)',
           LeaderInv'
    PROVE  Inv'
<1>1. chan' \in Seq(Message)
  <2>1. chan \in Seq(Message)
    BY Zenon, Parts
  <2> QED
    BY <2>1
<1>2. Pairing'
  BY DEF Inv, Pairing
<1>3. Synced'
  <2>1. CASE Running
    <3>1. OnTheWay(FALSE) /\ follower.join = "none"
      BY Zenon, <2>1, InTouch
    <3>2. /\ leader.rl \in RlType /\ follower.rl \in RlType
          /\ follower.have \in SUBSET Everything /\ chan \in Seq(Message)
      BY Zenon, Parts
    <3> QED
      BY Zenon, <3>1, <3>2, SendStep
  <2>2. CASE ~Running
    BY Zenon, <2>2 DEF Synced, Running
  <2> QED
    BY Zenon, <2>1, <2>2
<1> QED
  BY Zenon, <1>1, <1>2, <1>3 DEF Inv

\* The calls that encrypt a record.
LEMMA PushStep ==
    ASSUME Inv, leader.join = "none", leader.state \in {"Handshake", "Active"},
           NEW typ \in ContentType, NEW r \in RlType, Counted(r), r.role = "Leader",
           SameBase(r, leader.rl), r.sent = leader.rl.sent,
           r.encrypt_buffer = leader.rl.encrypt_buffer,
           r.decrypt_buffer = leader.rl.decrypt_buffer,
           CanPushEncrypt(r, RecordLen),
           leader' = [leader EXCEPT !.rl = push_encrypt(r, typ, RecordLen)],
           chan' = Append(chan, EncryptMsg(typ)), UNCHANGED <<follower, server>>,
           client' \in ClientType, client'.hs = client.hs, client'.frames = client.frames,
           client'.task = client.task,
           client'.pc \notin {"off", "failed", "close_active", "done"}
    PROVE  Inv'
<1> DEFINE m == EncryptMsg(typ)
           q == push_encrypt(r, typ, RecordLen)
<1>1. m \in Message /\ m.kind = "Encrypt" /\ m.typ = typ
  BY DEF EncryptMsg, Message
<1>2. /\ q \in RlType /\ Counted(q) /\ q.role = r.role /\ SameBase(q, r)
      /\ q.sent = r.sent + 1
  BY Zenon, PushEncryptLayer
<1>3. \A x, y, z : x.kind = "Encrypt" /\ x.typ = typ =>
        PositionOf(q, y) = Handled(x, PositionOf(r, y), Len(r.sent_records), z)
  BY Zenon, EncryptHandled
<1> HIDE DEF m, q
<1>4. leader \in LeaderType /\ server \in ServerType /\ LeaderInv
  BY Zenon, Parts DEF Inv
<1>5. /\ leader' \in LeaderType /\ leader'.rl = q /\ leader'.state = leader.state
      /\ leader'.join = "none"
  BY Zenon, <1>2, <1>4 DEF LeaderType, q
<1>6. SameBase(q, leader.rl) /\ r.sent_records = leader.rl.sent_records
      /\ q.recv_records = leader.rl.recv_records
  BY Zenon, <1>2 DEF SameBase
<1>7. LeaderInv'
  <2>1. Passed' = Passed /\ leader.state # "Error"
    BY <1>5 DEF Passed
  <2>2. FramesInOrder'
    BY Zenon, <1>4, <2>1, KeepFrames
  <2> QED
    BY Zenon, <1>2, <1>4, <1>5, <1>6, <2>2, LeaderKeeps
<1>8. Told' = Told
  BY <1>5 DEF Told
<1>9. PositionOf(leader'.rl, Told') =
        Handled(m, PositionOf(leader.rl, Told),
                Len(leader.rl.sent_records), Len(leader.rl.recv_records))
  <2>1. PositionOf(r, Told) = PositionOf(leader.rl, Told)
    BY Zenon DEF PositionOf
  <2>2. PositionOf(q, Told) =
          Handled(m, PositionOf(r, Told), Len(r.sent_records), Len(leader.rl.recv_records))
    BY Zenon, <1>1, <1>3
  <2> QED
    BY Zenon, <1>5, <1>6, <1>8, <2>1, <2>2
<1>10. Quiet(m, PositionOf(leader.rl, Told))
  BY <1>1 DEF Quiet
<1> QED
  BY Zenon, <1>1, <1>5, <1>6, <1>7, <1>9, <1>10, LeaderSends DEF m
\* What holds at the points of process_new_packets.
LEMMA AtPass ==
    ASSUME Inv, NEW pc \in {"start", "traffic", "frames", "incoming"}, At(pc)
    PROVE  /\ client.pc \notin {"off", "failed", "close_active", "done"} /\ client.pc = pc
           /\ leader.join = "none" /\ leader.state \in {"Handshake", "Active", "Closed"}
           /\ leader.state \notin {"Init", "Setup", "Error"}
           /\ leader.state = "Closed" <=> client.task = "close_run"
           /\ leader.state = "Closed" => pc # "traffic"
           /\ client.task # "run" => client.hs = "Traffic"
           /\ client \in ClientType /\ leader \in LeaderType /\ server \in ServerType
           /\ leader.rl \in RlType /\ Counted(leader.rl) /\ leader.rl.role = "Leader"
           /\ chan \in Seq(Message) /\ LeaderInv
           /\ leader = [leader EXCEPT !.is_decrypting = leader.is_decrypting]
           /\ leader.is_decrypting \in BOOLEAN
<1>1. client.pc \notin {"off", "failed", "close_active", "done"} /\ client.pc = pc /\ leader.join = "none"
  BY DEF At
<1>2. /\ client \in ClientType /\ leader \in LeaderType /\ server \in ServerType
      /\ leader.rl \in RlType /\ Counted(leader.rl) /\ leader.rl.role = "Leader"
      /\ chan \in Seq(Message) /\ LeaderInv
  BY Zenon, Parts DEF Inv
<1>3. client.pc \notin {"off", "failed"}
  BY <1>1
<1>4. /\ leader = [leader EXCEPT !.is_decrypting = leader.is_decrypting]
      /\ leader.is_decrypting \in BOOLEAN
  BY Zenon, <1>3, AtFacts
<1>5. /\ leader.state \in {"Handshake", "Active", "Closed"}
      /\ leader.state = "Closed" <=> client.task = "close_run"
      /\ leader.state = "Closed" => pc # "traffic"
      /\ client.task # "run" => client.hs = "Traffic"
  BY <1>1, AtFacts
<1>6. leader.state \notin {"Init", "Setup", "Error"}
  BY <1>5
<1> QED
  BY Zenon, <1>1, <1>2, <1>4, <1>5, <1>6

\* flush_plaintext.
LEMMA FlushPlaintextStep ==
    ASSUME Inv, FlushPlaintext
    PROVE  Inv'
<1>1. PICK pc \in {"start", "traffic"} : At(pc)
  BY Zenon DEF FlushPlaintext
<1>2. /\ client.pc \notin {"off", "failed", "close_active", "done"} /\ client.pc = pc
      /\ leader.join = "none" /\ leader.state \notin {"Init", "Setup", "Error"}
      /\ leader.state = "Closed" <=> client.task = "close_run"
      /\ leader.state = "Closed" => pc # "traffic"
      /\ client.task # "run" => client.hs = "Traffic"
      /\ client \in ClientType /\ leader \in LeaderType /\ server \in ServerType
      /\ leader.rl \in RlType /\ Counted(leader.rl) /\ leader.rl.role = "Leader"
      /\ chan \in Seq(Message) /\ leader.is_decrypting \in BOOLEAN
      /\ leader = [leader EXCEPT !.is_decrypting = leader.is_decrypting]
  <2>1. pc \in {"start", "traffic", "frames", "incoming"}
    OBVIOUS
  <2> QED
    BY Zenon, <1>1, <2>1, AtPass
<1>3. UNCHANGED <<follower, server>>
  BY Zenon DEF FlushPlaintext
<1>4. CASE client.plaintext > 0 /\ client.hs = "Traffic" /\ CanPushOutgoing
  <2>1. /\ PushOutgoing("ApplicationData")
        /\ client' = [client EXCEPT !.plaintext = @ - 1]
    BY Zenon, <1>4 DEF FlushPlaintext
  <2>2. client.plaintext - 1 \in Nat
    <3>1. client.plaintext \in Nat
      BY Zenon, <1>2 DEF ClientType
    <3> QED
      BY <1>4, <3>1
  <2>3. /\ client' \in ClientType /\ client'.hs = client.hs /\ client'.frames = client.frames
        /\ client'.task = client.task /\ client'.pc = client.pc
    BY Zenon, <1>2, <2>1, <2>2 DEF ClientType
  <2>4. "ApplicationData" \in ContentType
    BY DEF ContentType
  <2>5. /\ leader.state \in {"Handshake", "Active"} /\ CanPushEncrypt(leader.rl, RecordLen)
        /\ leader' = [leader EXCEPT !.rl = push_encrypt(leader.rl, "ApplicationData", RecordLen)]
        /\ chan' = Append(chan, EncryptMsg("ApplicationData"))
    BY Zenon, <1>4, <2>1 DEF CanPushOutgoing, PushOutgoing
  <2>6. SameBase(leader.rl, leader.rl)
    BY Zenon DEF SameBase
  <2> QED
    BY Zenon, <1>2, <1>3, <2>3, <2>4, <2>5, <2>6, PushStep
<1>5. CASE client.plaintext > 0 /\ client.hs = "Traffic" /\ ~CanPushOutgoing
  <2>1. Fail /\ chan' = chan
    BY Zenon, <1>5 DEF FlushPlaintext
  <2>2. client.pc \notin {"off", "failed"}
    BY <1>2
  <2> QED
    BY Zenon, <1>2, <1>3, <2>1, <2>2, LeaderFails
<1>6. CASE ~(client.plaintext > 0 /\ client.hs = "Traffic")
  <2>1. /\ client' = [client EXCEPT !.pc = IF @ = "start" THEN "frames" ELSE "incoming"]
        /\ leader' = leader /\ chan' = chan
    BY Zenon, <1>6 DEF FlushPlaintext
  <2>2. /\ client' \in ClientType /\ client'.hs = client.hs /\ client'.frames = client.frames
        /\ client'.task = client.task
        /\ client'.pc = IF client.pc = "start" THEN "frames" ELSE "incoming"
    BY Zenon, <1>2, <2>1 DEF ClientType
  <2>3. /\ client'.pc \notin {"off", "failed"}
        /\ leader.state = "Closed" => client'.pc \in {"start", "frames", "incoming"} /\ client'.task = "close_run"
        /\ client'.pc \in {"close_active", "done"} \/ client'.task = "close_run" => leader.state = "Closed"
        /\ client'.task # "run" => client'.hs = "Traffic"
    BY <1>2, <2>2
  <2> QED
    BY Zenon, <1>2, <1>3, <2>1, <2>2, <2>3, ClientStep
<1> QED
  BY Zenon, <1>4, <1>5, <1>6

\* The handshake messages that are refused, and the calls that need a follower that
\* is gone.
LEMMA RefusedSteps ==
    ASSUME Inv, RefuseHandshake \/ LeaderPeerGone
    PROVE  Inv'
<1>1. Fail /\ UNCHANGED <<follower, chan, server>>
  BY Zenon DEF RefuseHandshake, LeaderPeerGone
<1>2. chan' \in Seq(Message)
  BY Zenon, <1>1, Parts
<1>3. leader.state \notin {"Init", "Setup", "Error"}
  <2>1. CASE RefuseHandshake
    BY <2>1 DEF RefuseHandshake, NextFrame, At, Inv, LeaderInv, Phases
  <2>2. CASE LeaderPeerGone
    <3>1. leader.state \notin {"Init", "Setup"}
      BY <2>2 DEF LeaderPeerGone, Inv, Pairing
    <3>2. leader.state # "Error"
      BY <2>2 DEF LeaderPeerGone, Inv, LeaderInv, Phases
    <3> QED
      BY <3>1, <3>2
  <2> QED
    BY Zenon, <2>1, <2>2
<1>4. client.pc \notin {"off", "failed"}
  BY <1>3 DEF Inv, LeaderInv, Phases
<1> QED
  BY Zenon, <1>1, <1>2, <1>4, LeaderFails
\* Taking a record from an output buffer.
LEMMA OutputStep ==
    ASSUME Inv, At("incoming"), UNCHANGED <<follower, chan, server>>,
           NEW q \in RlType, Counted(q), q.role = leader.rl.role, SameBase(q, leader.rl),
           q.sent = leader.rl.sent, q.encrypt_buffer = leader.rl.encrypt_buffer,
           q.decrypt_buffer = leader.rl.decrypt_buffer,
           leader' = [leader EXCEPT !.rl = q],
           client' \in ClientType, client'.hs = client.hs, client'.frames = client.frames,
           client'.pc = client.pc, client'.task = client.task
    PROVE  Inv'
<1>1. /\ client.pc = "incoming" /\ leader.join = "none"
      /\ leader.state \notin {"Init", "Setup", "Error"}
      /\ leader.state = "Closed" <=> client.task = "close_run"
      /\ client.task # "run" => client.hs = "Traffic"
      /\ leader \in LeaderType /\ server \in ServerType
      /\ leader.rl.role = "Leader" /\ LeaderInv
  <2>1. "incoming" \in {"start", "traffic", "frames", "incoming"}
    OBVIOUS
  <2> QED
    BY Zenon, <2>1, AtPass
<1>2. /\ leader' \in LeaderType /\ leader'.rl = q /\ leader'.state = leader.state
      /\ leader'.join = "none"
  BY Zenon, <1>1 DEF LeaderType
<1>3. FramesInOrder'
  <2>1. Passed' = Passed /\ leader.state # "Error"
    BY <1>1, <1>2 DEF Passed
  <2> QED
    BY Zenon, <1>1, <2>1, KeepFrames
<1>4. /\ client'.pc \notin {"off", "failed"}
      /\ leader.state = "Closed" => client'.pc \in {"start", "frames", "incoming"} /\ client'.task = "close_run"
      /\ client'.pc \in {"close_active", "done"} \/ client'.task = "close_run" => leader.state = "Closed"
      /\ client'.task # "run" => client'.hs = "Traffic"
  BY <1>1
<1> QED
  BY Zenon, <1>1, <1>2, <1>3, <1>4, LocalStep

\* The records the TLS client takes and that change nothing for the follower.
LEMMA TakenSteps ==
    ASSUME Inv, HandleAlert \/ HandleAppData \/ NextOutgoing
    PROVE  Inv'
<1>1. At("incoming") /\ UNCHANGED <<follower, chan, server>>
  BY Zenon DEF HandleAlert, HandleAppData, NextOutgoing, NextIncoming
<1>2. /\ client \in ClientType /\ leader \in LeaderType
      /\ leader.rl \in RlType /\ Counted(leader.rl) /\ chan \in Seq(Message)
      /\ client.pc \notin {"off", "failed", "close_active", "done"}
  <2>1. "incoming" \in {"start", "traffic", "frames", "incoming"}
    OBVIOUS
  <2> QED
    BY Zenon, <1>1, <2>1, AtPass
<1>3. client.pc \notin {"off", "failed"}
  BY <1>2
<1>4. CASE HandleAlert
  <2>1. /\ leader.rl.decrypted_buffer # <<>>
        /\ \/ /\ leader' = [leader EXCEPT !.rl = next_decrypted(leader.rl)]
              /\ client' = [client EXCEPT !.close_notify = @ \/ NextIncoming("Alert")]
           \/ Fail
    BY Zenon, <1>4 DEF HandleAlert, NextIncoming, CanTakeDecrypted, CanTake
  <2>2. CASE Fail
    BY Zenon, <1>1, <1>2, <1>3, <2>2, LeaderFails
  <2>3. CASE /\ leader' = [leader EXCEPT !.rl = next_decrypted(leader.rl)]
             /\ client' = [client EXCEPT !.close_notify = @ \/ NextIncoming("Alert")]
    <3>1. (client.close_notify \/ NextIncoming("Alert")) \in BOOLEAN
      OBVIOUS
    <3>2. /\ client' \in ClientType /\ client'.hs = client.hs /\ client'.frames = client.frames
          /\ client'.pc = client.pc /\ client'.task = client.task
      BY Zenon, <1>2, <2>3, <3>1 DEF ClientType
    <3> QED
      BY Zenon, <1>1, <1>2, <2>1, <2>3, <3>2, TakeLayer, OutputStep
  <2> QED
    BY Zenon, <2>1, <2>2, <2>3
<1>5. CASE HandleAppData
  <2>1. /\ leader.rl.decrypted_buffer # <<>>
        /\ leader' = [leader EXCEPT !.rl = next_decrypted(leader.rl)]
        /\ client' = [client EXCEPT
                        !.received = Append(@, Head(leader.rl.decrypted_buffer).seq),
                        !.unread = TRUE, !.changed = TRUE]
    BY Zenon, <1>5 DEF HandleAppData, NextIncoming, CanTakeDecrypted, CanTake
  <2>2. Append(client.received, Head(leader.rl.decrypted_buffer).seq) \in Seq(Nat)
    <3>1. leader.rl.decrypted_buffer \in Seq(Record)
      BY Zenon, <1>2 DEF RlType
    <3>2. Head(leader.rl.decrypted_buffer) \in Record
      BY <2>1, <3>1
    <3>3. Head(leader.rl.decrypted_buffer).seq \in Nat
      BY Zenon, <3>2 DEF Record
    <3>4. client.received \in Seq(Nat)
      BY Zenon, <1>2 DEF ClientType
    <3> QED
      BY <3>3, <3>4
  <2>3. /\ client' \in ClientType /\ client'.hs = client.hs /\ client'.frames = client.frames
        /\ client'.pc = client.pc /\ client'.task = client.task
    BY Zenon, <1>2, <2>1, <2>2 DEF ClientType
  <2> QED
    BY Zenon, <1>1, <1>2, <2>1, <2>3, TakeLayer, OutputStep
<1>6. CASE NextOutgoing
  <2>1. /\ leader.rl.encrypted_buffer # <<>>
        /\ leader' = [leader EXCEPT !.rl = next_encrypted(leader.rl)]
        /\ client' = [client EXCEPT !.changed = TRUE]
    BY Zenon, <1>6 DEF NextOutgoing, CanTakeEncrypted, CanTake
  <2>2. /\ client' \in ClientType /\ client'.hs = client.hs /\ client'.frames = client.frames
        /\ client'.pc = client.pc /\ client'.task = client.task
    BY Zenon, <1>2, <2>1 DEF ClientType
  <2> QED
    BY Zenon, <1>1, <1>2, <2>1, <2>2, TakeLayer, OutputStep
<1> QED
  BY Zenon, <1>4, <1>5, <1>6

\* A HelloRequest is answered with a record of our own.
LEMMA RenegotiationStep ==
    ASSUME Inv, HandleRenegotiation
    PROVE  Inv'
<1>1. At("incoming") /\ UNCHANGED <<follower, server>> /\ leader.rl.decrypted_buffer # <<>>
  BY Zenon DEF HandleRenegotiation, NextIncoming, CanTakeDecrypted, CanTake
<1>2. /\ client \in ClientType /\ leader \in LeaderType /\ leader.join = "none"
      /\ leader.rl \in RlType /\ Counted(leader.rl) /\ chan \in Seq(Message)
      /\ client.pc \notin {"off", "failed", "close_active", "done"} /\ leader.rl.role = "Leader"
  <2>1. "incoming" \in {"start", "traffic", "frames", "incoming"}
    OBVIOUS
  <2> QED
    BY Zenon, <1>1, <2>1, AtPass
<1>3. client.pc \notin {"off", "failed"}
  BY <1>2
<1>4. CASE Fail /\ UNCHANGED chan
  BY Zenon, <1>1, <1>2, <1>3, <1>4, LeaderFails
<1>5. CASE /\ CanPushOutgoing
           /\ leader' = [leader EXCEPT
                          !.rl = push_encrypt(next_decrypted(@), "OtherAlert", RecordLen)]
           /\ chan' = Append(chan, EncryptMsg("OtherAlert"))
           /\ UNCHANGED client
  <2> DEFINE r == next_decrypted(leader.rl)
  <2>1. /\ r \in RlType /\ Counted(r) /\ r.role = leader.rl.role /\ SameBase(r, leader.rl)
        /\ r.sent = leader.rl.sent
        /\ r.encrypt_buffer = leader.rl.encrypt_buffer /\ r.decrypt_buffer = leader.rl.decrypt_buffer
    BY Zenon, <1>1, <1>2, TakeLayer
  <2>2. leader' = [leader EXCEPT !.rl = push_encrypt(r, "OtherAlert", RecordLen)]
    BY Zenon, <1>5
  <2> HIDE DEF r
  <2>3. leader.state \in {"Handshake", "Active"} /\ CanPushEncrypt(r, RecordLen)
    BY Zenon, <1>5, <2>1 DEF CanPushOutgoing, CanPushEncrypt
  <2>4. "OtherAlert" \in ContentType
    BY DEF ContentType
  <2> QED
    BY Zenon, <1>1, <1>2, <1>5, <2>1, <2>2, <2>3, <2>4, PushStep
<1> QED
  BY Zenon, <1>4, <1>5 DEF HandleRenegotiation
\* A call that sends a message without a record.
LEMMA PlainSends ==
    ASSUME Inv, leader.join = "none", leader.state \in {"Handshake", "Active"},
           leader'.state = leader.state, follower' = follower,
           NEW m \in Message, chan' = Append(chan, m), SameBase(leader'.rl, leader.rl),
           leader'.rl.encrypt_buffer = leader.rl.encrypt_buffer,
           leader'.rl.decrypt_buffer = leader.rl.decrypt_buffer,
           m.kind \notin {"Encrypt", "Decrypt"}, Told' = Told \cup Tells(m.kind),
           \/ leader'.join = "none" /\ Quiet(m, PositionOf(leader.rl, Told))
           \/ leader'.join # "none" /\ Announces(m, leader.join)',
           LeaderInv'
    PROVE  Inv'
<1>1. PositionOf(leader'.rl, Told') =
        Handled(m, PositionOf(leader.rl, Told),
                Len(leader.rl.sent_records), Len(leader.rl.recv_records))
  <2> DEFINE q == leader'.rl
             r == leader.rl
             h == Told
             n == Len(leader.rl.sent_records)
             k == Len(leader.rl.recv_records)
  <2>1. q.encrypt_buffer = r.encrypt_buffer /\ q.decrypt_buffer = r.decrypt_buffer
    OBVIOUS
  <2>2. m.kind \notin {"Encrypt", "Decrypt"}
    OBVIOUS
  <2> HIDE DEF q, r, h, n, k
  <2>3. PositionOf(q, h \cup Tells(m.kind)) = Handled(m, PositionOf(r, h), n, k)
    BY ONLY <2>1, <2>2, PlainHandled
  <2> QED
    BY Zenon, <2>3 DEF q, r, h, n, k
<1> QED
  BY Zenon, <1>1, LeaderSends

\* client_close.
LEMMA EndClientCloseStep ==
    ASSUME Inv, EndClientClose
    PROVE  Inv'
<1>1. /\ At("incoming") /\ client.task = "client_close" /\ UNCHANGED <<follower, server>>
      /\ client' = [client EXCEPT !.pc = "active", !.client_closed = TRUE]
  BY Zenon DEF EndClientClose, RunDone, EndOfPass
<1>2. /\ client \in ClientType /\ leader \in LeaderType /\ leader.join = "none"
      /\ leader.state \in {"Handshake", "Active", "Closed"}
      /\ leader.state = "Closed" <=> client.task = "close_run"
      /\ client.task # "run" => client.hs = "Traffic"
      /\ leader.state \notin {"Init", "Setup", "Error"} /\ server \in ServerType
      /\ leader.rl \in RlType /\ Counted(leader.rl) /\ leader.rl.role = "Leader"
      /\ leader = [leader EXCEPT !.is_decrypting = leader.is_decrypting]
      /\ leader.is_decrypting \in BOOLEAN
  <2>1. "incoming" \in {"start", "traffic", "frames", "incoming"}
    OBVIOUS
  <2> QED
    BY Zenon, <1>1, <2>1, AtPass
<1>3. /\ client' \in ClientType /\ client'.hs = client.hs /\ client'.frames = client.frames
      /\ client'.pc = "active" /\ client'.task = client.task
  BY Zenon, <1>1, <1>2 DEF ClientType
<1>4. /\ client'.pc \notin {"off", "failed", "close_active", "done"}
      /\ leader.state # "Closed" /\ client'.task # "close_run" /\ client'.hs = "Traffic"
      /\ leader.state \in {"Handshake", "Active"} /\ client'.pc \notin {"off", "failed"}
      /\ client'.pc \notin {"close_active", "done"}
  BY <1>1, <1>2, <1>3
<1>5. CASE ~client.client_closed /\ CanPushOutgoing
  <2>1. /\ leader' = [leader EXCEPT !.rl = push_encrypt(leader.rl, "Alert", RecordLen)]
        /\ chan' = Append(chan, EncryptMsg("Alert"))
        /\ CanPushEncrypt(leader.rl, RecordLen)
    BY Zenon, <1>5 DEF EndClientClose, PushOutgoing, CanPushOutgoing
  <2>2. "Alert" \in ContentType /\ SameBase(leader.rl, leader.rl)
    BY DEF ContentType, SameBase
  <2> QED
    BY Zenon, <1>1, <1>2, <1>3, <1>4, <2>1, <2>2, PushStep
<1>6. CASE ~(~client.client_closed /\ CanPushOutgoing)
  <2>1. UNCHANGED <<leader, chan>>
    BY Zenon, <1>6 DEF EndClientClose
  <2> QED
    BY Zenon, <1>1, <1>2, <1>3, <1>4, <2>1, ClientStep
<1> QED
  BY Zenon, <1>5, <1>6

\* server_close.
LEMMA CloseConnectionStep ==
    ASSUME Inv, CloseConnection
    PROVE  Inv'
<1> DEFINE m == Msg("CloseConnection")
<1>1. /\ At("incoming") /\ client.task = "server_close" /\ UNCHANGED <<follower, server>>
      /\ chan' = Append(chan, m)
      /\ IF leader.rl.encrypt_buffer = <<>>
         THEN leader' = [leader EXCEPT !.join = "Commit"] /\ UNCHANGED client
         ELSE Fail
  BY Zenon DEF CloseConnection, RunDone, EndOfPass
<1>2. /\ client \in ClientType /\ leader \in LeaderType /\ leader.join = "none"
      /\ leader.state \in {"Handshake", "Active", "Closed"}
      /\ leader.state = "Closed" <=> client.task = "close_run"
      /\ client.task # "run" => client.hs = "Traffic"
      /\ server \in ServerType /\ client.pc = "incoming" /\ chan \in Seq(Message)
      /\ leader.rl \in RlType /\ Counted(leader.rl) /\ leader.rl.role = "Leader" /\ LeaderInv
  <2>1. "incoming" \in {"start", "traffic", "frames", "incoming"}
    OBVIOUS
  <2> QED
    BY Zenon, <1>1, <2>1, AtPass
<1>3. m \in Message /\ m.kind = "CloseConnection"
  BY DEF Msg, Message, PlainKinds
<1>4. chan' \in Seq(Message)
  BY <1>1, <1>2, <1>3
<1>5. CASE leader.rl.encrypt_buffer # <<>>
  <2>1. client.pc \notin {"off", "failed"} /\ Fail
    BY <1>1, <1>2, <1>5
  <2> QED
    BY Zenon, <1>1, <1>4, <2>1, LeaderFails
<1>6. CASE leader.rl.encrypt_buffer = <<>>
  <2>1. leader' = [leader EXCEPT !.join = "Commit"] /\ client' = client
    BY Zenon, <1>1, <1>6
  <2>2. /\ leader' \in LeaderType /\ leader'.rl = leader.rl /\ leader'.state = leader.state
        /\ leader'.join = "Commit"
    BY Zenon, <1>2, <2>1 DEF LeaderType, Calls
  <2>3. leader.state = "Active" /\ client.hs = "Traffic"
    <3>1. client.hs = "Traffic" /\ leader.state # "Closed"
      BY <1>1, <1>2
    <3>2. leader.state = "Handshake" => client.hs # "Traffic"
      BY <1>2 DEF LeaderInv, Phases
    <3> QED
      BY <1>2, <3>1, <3>2
  <2>4. LeaderInv'
    <3>1. Phases'
      BY <1>1, <1>2, <2>1, <2>2, <2>3 DEF Phases
    <3>2. FramesInOrder'
      <4>1. Passed' = Passed /\ leader.state # "Error"
        BY <2>1, <2>2, <2>3 DEF Passed
      <4> QED
        BY Zenon, <1>1, <1>2, <2>1, <4>1, KeepFrames
    <3>3. FinishedSeen'
      BY <1>2, <1>6, <2>1, <2>2, <2>3 DEF LeaderInv, FinishedSeen
    <3> QED
      BY Zenon, <1>1, <1>2, <2>1, <2>2, <3>1, <3>2, <3>3 DEF LeaderInv
  <2>5. Told' = Told \cup Tells(m.kind)
    BY <1>2, <1>3, <2>1, <2>2, <2>3 DEF Told, Tells
  <2>6. Announces(m, leader.join)' /\ leader'.join # "none"
    BY <1>3, <2>2 DEF Announces, m, Msg
  <2>7. /\ SameBase(leader'.rl, leader.rl) /\ leader.state \in {"Handshake", "Active"}
        /\ m.kind \notin {"Encrypt", "Decrypt"}
    BY <1>3, <2>2, <2>3 DEF SameBase
  <2> HIDE DEF m
  <2> QED
    BY Zenon, <1>1, <1>2, <1>3, <2>2, <2>4, <2>5, <2>6, <2>7, PlainSends
<1> QED
  BY Zenon, <1>5, <1>6
\* The server's Finished message.
LEMMA HandleFinishedStep ==
    ASSUME Inv, HandleFinished
    PROVE  Inv'
<1> DEFINE m == Msg("ServerFinishedVd")
           q == next_decrypted(leader.rl)
<1>1. /\ At("incoming") /\ client.hs = "Finished" /\ UNCHANGED <<follower, client, server>>
      /\ leader.rl.decrypted_buffer # <<>>
      /\ chan' = Append(chan, m)
      /\ leader' = [leader EXCEPT !.rl = q, !.join = "SfVd"]
  BY Zenon DEF HandleFinished, NextIncoming, CanTakeDecrypted, CanTake
<1>2. /\ client \in ClientType /\ leader \in LeaderType /\ leader.join = "none"
      /\ leader.state \in {"Handshake", "Active", "Closed"}
      /\ server \in ServerType /\ client.pc = "incoming" /\ client.task # "close_run" <=> leader.state # "Closed"
      /\ client.task # "run" => client.hs = "Traffic"
      /\ leader.rl \in RlType /\ Counted(leader.rl) /\ leader.rl.role = "Leader" /\ LeaderInv
  <2>1. "incoming" \in {"start", "traffic", "frames", "incoming"}
    OBVIOUS
  <2> QED
    BY <1>1, <2>1, AtPass
<1>3. m \in Message /\ m.kind = "ServerFinishedVd"
  BY DEF Msg, Message, PlainKinds
<1>4. /\ q \in RlType /\ Counted(q) /\ q.role = "Leader" /\ SameBase(q, leader.rl)
      /\ q.sent = leader.rl.sent
      /\ q.encrypt_buffer = leader.rl.encrypt_buffer /\ q.decrypt_buffer = leader.rl.decrypt_buffer
      /\ leader.rl.recv_records # <<>>
  BY Zenon, <1>1, <1>2, TakeLayer
<1> HIDE DEF q, m
<1>5. /\ leader' \in LeaderType /\ leader'.rl = q /\ leader'.state = leader.state
      /\ leader'.join = "SfVd"
  BY Zenon, <1>1, <1>2, <1>4 DEF LeaderType, Calls
<1>6. leader.state = "Active"
  BY <1>1, <1>2 DEF LeaderInv, Phases
<1>7. q.recv_records # <<>>
  BY Zenon, <1>4 DEF SameBase
<1>8. LeaderInv'
  <2>1. Phases'
    BY <1>1, <1>2, <1>5, <1>6 DEF Phases
  <2>2. FramesInOrder'
    <3>1. Passed' = Passed /\ leader.state # "Error"
      BY <1>1, <1>5, <1>6 DEF Passed
    <3> QED
      BY Zenon, <1>1, <1>2, <3>1, KeepFrames
  <2>3. FinishedSeen'
    BY <1>1, <1>2, <1>4, <1>5, <1>6, <1>7 DEF LeaderInv, FinishedSeen
  <2> QED
    BY Zenon, <1>1, <1>2, <1>4, <1>5, <2>1, <2>2, <2>3 DEF LeaderInv
<1>9. Told' = Told \cup Tells(m.kind)
  BY <1>1, <1>2, <1>3, <1>5, <1>6 DEF Told, Tells
<1>10. Announces(m, leader.join)' /\ leader'.join # "none"
  BY <1>3, <1>5 DEF Announces, m, Msg
<1>11. leader.state \in {"Handshake", "Active"} /\ m.kind \notin {"Encrypt", "Decrypt"}
  BY <1>3, <1>6
<1> QED
  BY Zenon, <1>1, <1>2, <1>3, <1>4, <1>5, <1>8, <1>9, <1>10, <1>11, PlainSends

\* What holds where a frame is taken.
LEMMA AtFrame ==
    ASSUME Inv, NextFrame
    PROVE  /\ client \in ClientType /\ leader \in LeaderType /\ leader.join = "none"
           /\ leader.state \in {"Handshake", "Active", "Closed"}
           /\ server \in ServerType /\ client.pc = "frames" /\ client.frames # <<>>
           /\ leader.state = "Closed" <=> client.task = "close_run"
           /\ client.task # "run" => client.hs = "Traffic"
           /\ client.hs \in {"ServerHello", "ServerDone"} => leader.state = "Handshake"
           /\ client.hs \in {"Ccs", "Finished"} => leader.state = "Active"
           /\ leader.rl \in RlType /\ Counted(leader.rl) /\ leader.rl.role = "Leader" /\ LeaderInv
           /\ client.frames \in Seq(Frame) /\ Tail(client.frames) \in Seq(Frame)
           /\ Head(client.frames) = client.frames[1] /\ chan \in Seq(Message)
<1>1. At("frames") /\ client.frames # <<>>
  BY Zenon DEF NextFrame
<1>2. /\ client \in ClientType /\ leader \in LeaderType /\ leader.join = "none"
      /\ leader.state \in {"Handshake", "Active", "Closed"}
      /\ server \in ServerType /\ client.pc = "frames"
      /\ leader.state = "Closed" <=> client.task = "close_run"
      /\ client.task # "run" => client.hs = "Traffic" /\ chan \in Seq(Message)
      /\ leader.rl \in RlType /\ Counted(leader.rl) /\ leader.rl.role = "Leader" /\ LeaderInv
  <2>1. "frames" \in {"start", "traffic", "frames", "incoming"}
    OBVIOUS
  <2> QED
    BY Zenon, <1>1, <2>1, AtPass
<1>3. /\ client.hs \in {"ServerHello", "ServerDone"} => leader.state = "Handshake"
      /\ client.hs \in {"Ccs", "Finished"} => leader.state = "Active"
  BY <1>2 DEF LeaderInv, Phases
<1>4. client.frames \in Seq(Frame) /\ chan \in Seq(Message)
  BY Zenon, Parts
<1>5. Tail(client.frames) \in Seq(Frame) /\ Head(client.frames) = client.frames[1]
  BY <1>1, <1>4
<1> QED
  BY Zenon, <1>1, <1>2, <1>3, <1>4, <1>5

\* The end of the server's first flight.
LEMMA HandleServerDoneStep ==
    ASSUME Inv, HandleServerDone
    PROVE  Inv'
<1> DEFINE m == Msg("SetServerKey")
<1>1. /\ NextFrame /\ client.hs = "ServerDone" /\ UNCHANGED <<follower, server>>
      /\ client' = [client EXCEPT !.frames = Tail(@), !.changed = TRUE]
      /\ chan' = Append(chan, m)
      /\ leader' = [leader EXCEPT !.join = "Setup"]
  BY Zenon DEF HandleServerDone
<1>2. /\ client \in ClientType /\ leader \in LeaderType /\ leader.join = "none"
      /\ leader.state = "Handshake" /\ server \in ServerType /\ client.pc = "frames"
      /\ client.frames # <<>> /\ client.task # "close_run" /\ client.task = "run"
      /\ leader.rl \in RlType /\ Counted(leader.rl) /\ leader.rl.role = "Leader" /\ LeaderInv
      /\ Tail(client.frames) \in Seq(Frame)
  BY <1>1, AtFrame
<1>3. m \in Message /\ m.kind = "SetServerKey"
  BY DEF Msg, Message, PlainKinds
<1> HIDE DEF m
<1>4. /\ client' \in ClientType /\ client'.hs = "ServerDone" /\ client'.frames = Tail(client.frames)
      /\ client'.pc = "frames" /\ client'.task = client.task
  BY Zenon, <1>1, <1>2 DEF ClientType
<1>5. /\ leader' \in LeaderType /\ leader'.rl = leader.rl /\ leader'.state = leader.state
      /\ leader'.join = "Setup"
  BY Zenon, <1>1, <1>2 DEF LeaderType, Calls
<1>6. LeaderInv'
  <2>1. Phases'
    BY <1>2, <1>4, <1>5 DEF Phases
  <2>2. FramesInOrder'
    <3>1. Passed = 1 /\ Passed' = 2
      BY <1>1, <1>2, <1>4, <1>5 DEF Passed
    <3>2. Passed' = Passed + 1 /\ leader.state # "Error"
      BY <1>2, <3>1
    <3> QED
      BY Zenon, <1>1, <1>2, <1>4, <3>2, TakeFrame
  <2>3. FinishedSeen'
    BY <1>4, <1>5 DEF FinishedSeen
  <2> QED
    BY Zenon, <1>1, <1>2, <1>4, <1>5, <2>1, <2>2, <2>3 DEF LeaderInv
<1>7. Told' = Told \cup Tells(m.kind)
  BY <1>1, <1>2, <1>3, <1>4, <1>5 DEF Told, Tells
<1>8. Announces(m, leader.join)' /\ leader'.join # "none"
  BY <1>3, <1>5 DEF Announces, m, Msg
<1>9. /\ leader.state \in {"Handshake", "Active"} /\ m.kind \notin {"Encrypt", "Decrypt"}
      /\ SameBase(leader'.rl, leader.rl)
  BY <1>2, <1>3, <1>5 DEF SameBase
<1> QED
  BY Zenon, <1>1, <1>2, <1>3, <1>5, <1>6, <1>7, <1>8, <1>9, PlainSends
\* The server's ChangeCipherSpec.
LEMMA HandleCcsStep ==
    ASSUME Inv, HandleCcs
    PROVE  Inv'
<1>1. /\ NextFrame /\ client.hs = "Ccs" /\ UNCHANGED <<leader, follower, chan, server>>
      /\ client' = [client EXCEPT !.frames = Tail(@), !.hs = "Finished"]
  BY Zenon DEF HandleCcs
<1>2. /\ client \in ClientType /\ leader \in LeaderType /\ leader.join = "none"
      /\ leader.state = "Active" /\ server \in ServerType /\ client.pc = "frames"
      /\ client.frames # <<>> /\ client.task = "run"
      /\ Counted(leader.rl) /\ leader.rl.role = "Leader" /\ LeaderInv
      /\ Tail(client.frames) \in Seq(Frame)
  BY <1>1, AtFrame
<1>3. /\ client' \in ClientType /\ client'.hs = "Finished" /\ client'.frames = Tail(client.frames)
      /\ client'.pc = "frames" /\ client'.task = "run"
  BY Zenon, <1>1, <1>2 DEF ClientType
<1>4. FramesInOrder'
  <2>1. Passed = 2 /\ Passed' = 3
    BY <1>1, <1>3 DEF Passed
  <2>2. Passed' = Passed + 1 /\ leader.state # "Error"
    BY <1>2, <2>1
  <2> QED
    BY Zenon, <1>1, <1>2, <1>3, <2>2, TakeFrame
<1>5. /\ leader.state \notin {"Init", "Setup", "Error"} /\ leader.state # "Closed"
      /\ client'.pc \notin {"off", "failed"} /\ client'.pc \notin {"close_active", "done"}
      /\ client'.task # "close_run" /\ SameBase(leader'.rl, leader.rl)
  BY <1>1, <1>2, <1>3 DEF SameBase
<1> QED
  BY Zenon, <1>1, <1>2, <1>3, <1>4, <1>5, LocalStep

\* An encrypted frame.
LEMMA HandleOpaqueStep ==
    ASSUME Inv, HandleOpaque
    PROVE  Inv'
<1> DEFINE typ == Head(client.frames).typ
           ok == Head(client.frames).ok
           r == leader.rl
           m == DecryptMsg(typ, ok)
           q == push_decrypt(r, typ, RecordLen, ok)
<1>1. /\ NextFrame /\ client.hs \in {"Finished", "Traffic"} /\ UNCHANGED <<follower, server>>
      /\ IF CanPushIncoming
         THEN /\ leader' = [leader EXCEPT !.rl = q] /\ chan' = Append(chan, m)
              /\ client' = [client EXCEPT !.frames = Tail(@)]
         ELSE Fail /\ UNCHANGED chan
  BY Zenon DEF HandleOpaque, PushIncoming
<1>2. /\ client \in ClientType /\ leader \in LeaderType /\ leader.join = "none"
      /\ server \in ServerType /\ client.pc = "frames"
      /\ client.frames # <<>> /\ chan \in Seq(Message)
      /\ r \in RlType /\ Counted(r) /\ r.role = "Leader" /\ LeaderInv
      /\ Tail(client.frames) \in Seq(Frame) /\ Head(client.frames) = client.frames[1]
      /\ leader.state \in {"Handshake", "Active", "Closed"}
  BY Zenon, <1>1, AtFrame
<1>3. CASE ~CanPushIncoming
  <2>1. Fail /\ chan' \in Seq(Message)
    BY Zenon, <1>1, <1>2, <1>3
  <2>2. client.pc \notin {"off", "failed"}
    BY <1>2
  <2> QED
    BY Zenon, <1>1, <2>1, <2>2, LeaderFails
<1>4. CASE CanPushIncoming
  <2>1. /\ leader' = [leader EXCEPT !.rl = q] /\ chan' = Append(chan, m)
        /\ client' = [client EXCEPT !.frames = Tail(@)]
        /\ leader.state \in {"Handshake", "Active"} /\ CanPushDecrypt(r, RecordLen)
    BY Zenon, <1>1, <1>4 DEF CanPushIncoming
  <2>2. /\ client' \in ClientType /\ client'.hs = client.hs /\ client'.frames = Tail(client.frames)
        /\ client'.pc = "frames" /\ client'.task = client.task
    BY Zenon, <1>2, <2>1 DEF ClientType
  <2>3. /\ leader'.state = leader.state /\ leader'.join = "none" /\ leader'.rl = q
    BY Zenon, <1>2, <2>1 DEF LeaderType
  <2>4. Passed = 3 /\ Passed' = 3
    BY <1>1, <2>2 DEF Passed
  <2>5. FramesInOrder' /\ client.frames[1] \in RecordFrame
    <3>1. leader.state # "Error"
      BY <2>1
    <3> QED
      BY Zenon, <1>1, <1>2, <2>2, <2>4, <3>1, TakeFrame
  <2>6. typ \in ContentType /\ ok \in BOOLEAN
    BY Zenon, <1>2, <2>5 DEF RecordFrame
  <2>7. m \in Message /\ m.kind = "Decrypt" /\ m.typ = typ /\ m.ok = ok
    BY <2>6 DEF DecryptMsg, Message
  <2>8. /\ q \in RlType /\ Counted(q) /\ q.role = r.role /\ SameBase(q, r) /\ q.sent = r.sent
    BY Zenon, <1>2, <2>1, <2>6, PushDecryptLayer
  <2>9. \A x, y, z : x.kind = "Decrypt" /\ x.typ = typ /\ x.ok = ok =>
          PositionOf(q, y) = Handled(x, PositionOf(r, y), z, Len(r.recv_records))
    <3> HIDE DEF typ, ok, r
    <3> QED
      BY Zenon, <1>2, <2>1, <2>6, DecryptHandled
  <2> HIDE DEF q, m
  <2>10. leader' \in LeaderType
    BY Zenon, <1>2, <2>1, <2>8 DEF LeaderType
  <2>11. LeaderInv'
    <3>1. q.recv_records = r.recv_records
      BY Zenon, <2>8 DEF SameBase
    <3>2. client'.pc \notin {"off", "failed", "close_active", "done"}
      BY <2>2
    <3> QED
      BY Zenon, <1>1, <1>2, <2>1, <2>2, <2>3, <2>5, <2>8, <2>10, <3>1, <3>2, LeaderKeeps
  <2>12. PositionOf(leader'.rl, Told') =
          Handled(m, PositionOf(r, Told), Len(r.sent_records), Len(r.recv_records))
    <3>1. Told' = Told
      BY <1>2, <2>2, <2>3 DEF Told
    <3>2. PositionOf(q, Told) = Handled(m, PositionOf(r, Told), Len(r.sent_records), Len(r.recv_records))
      BY Zenon, <2>7, <2>9
    <3> QED
      BY Zenon, <2>3, <3>1, <3>2
  <2>13. Quiet(m, PositionOf(r, Told))
    BY <2>7 DEF Quiet
  <2> QED
    BY Zenon, <1>1, <1>2, <2>1, <2>3, <2>7, <2>8, <2>11, <2>12, <2>13, LeaderSends
<1> QED
  BY Zenon, <1>3, <1>4
\* ServerHello: two messages.
LEMMA HandleServerHelloStep ==
    ASSUME Inv, HandleServerHello
    PROVE  Inv'
<1> DEFINE a == Msg("StartHandshake")
           b == Msg("SetServerRandom")
<1>1. /\ NextFrame /\ client.hs = "ServerHello" /\ UNCHANGED <<leader, follower, server>>
      /\ client' = [client EXCEPT !.frames = Tail(@), !.hs = "ServerDone"]
      /\ chan' = chan \o <<a, b>>
  BY Zenon DEF HandleServerHello
<1>2. /\ client \in ClientType /\ leader \in LeaderType /\ leader.join = "none"
      /\ leader.state = "Handshake" /\ server \in ServerType /\ client.pc = "frames"
      /\ client.frames # <<>> /\ client.task = "run" /\ chan \in Seq(Message)
      /\ leader.rl \in RlType /\ Counted(leader.rl) /\ leader.rl.role = "Leader" /\ LeaderInv
      /\ Tail(client.frames) \in Seq(Frame)
  BY <1>1, AtFrame
<1>3. /\ a \in Message /\ a.kind = "StartHandshake" /\ b \in Message /\ b.kind = "SetServerRandom"
  BY DEF Msg, Message, PlainKinds
<1> HIDE DEF a, b
<1>4. /\ client' \in ClientType /\ client'.hs = "ServerDone" /\ client'.frames = Tail(client.frames)
      /\ client'.pc = "frames" /\ client'.task = "run"
  BY Zenon, <1>1, <1>2 DEF ClientType
<1>5. LeaderInv'
  <2>1. Phases'
    BY <1>1, <1>2, <1>4 DEF Phases
  <2>2. FramesInOrder'
    <3>1. Passed = 0 /\ Passed' = 1
      BY <1>1, <1>2, <1>4 DEF Passed
    <3>2. Passed' = Passed + 1 /\ leader.state # "Error"
      BY <1>2, <3>1
    <3> QED
      BY Zenon, <1>1, <1>2, <1>4, <3>2, TakeFrame
  <2>3. FinishedSeen'
    BY <1>1, <1>2, <1>4 DEF FinishedSeen
  <2> QED
    BY Zenon, <1>1, <1>2, <1>4, <2>1, <2>2, <2>3 DEF LeaderInv
<1>6. /\ chan' = Append(Append(chan, a), b)
      /\ chan' \in Seq(Message) /\ Append(chan, a) \in Seq(Message)
  BY <1>1, <1>2, <1>3
<1>7. Pairing'
  BY <1>1, <1>2 DEF Inv, Pairing
<1>8. Synced'
  <2> SUFFICES ASSUME Running' PROVE Meets' /\ (OnTheWay(leader.join # "none"))'
    BY Zenon DEF Synced
  <2>1. Running
    BY Zenon, <1>1 DEF Running
  <2>2. OnTheWay(FALSE) /\ follower.join = "none"
    BY Zenon, <1>2, <2>1, InTouch
  <2> DEFINE v == PositionOf(follower.rl, follower.have)
             w == PositionOf(leader.rl, Told)
             s == Len(leader.rl.sent_records)
             r == Len(leader.rl.recv_records)
             u == Handled(a, w, s, r)
  <2>3. v \in Position /\ w \in Position
    BY Zenon, Parts, IsPosition, ToldType
  <2>4. s \in Nat /\ r \in Nat
    <3>1. leader.rl.sent_records \in Seq(Record) /\ leader.rl.recv_records \in Seq(Record)
      BY Zenon, <1>2 DEF RlType
    <3> QED
      BY Zenon, <3>1, LenNat
  <2>5. Leads(chan, v, w, s, r, FALSE)
    BY Zenon, <2>2 DEF OnTheWay
  <2>6. u = PositionOf(leader.rl, Told \cup {"time"})
        /\ Handled(b, u, s, r) = PositionOf(leader.rl, (Told \cup {"time"}) \cup {"server_random"})
    <3> DEFINE l == leader.rl
               h == Told
    <3> HIDE DEF l, h, s, r
    <3>1. /\ a.kind \notin {"Encrypt", "Decrypt"} /\ Tells(a.kind) = {"time"}
          /\ b.kind \notin {"Encrypt", "Decrypt"} /\ Tells(b.kind) = {"server_random"}
      BY <1>3 DEF Tells
    <3>2. PositionOf(l, h \cup Tells(a.kind)) = Handled(a, PositionOf(l, h), s, r)
      BY ONLY <3>1, PlainHandled
    <3> DEFINE g == h \cup Tells(a.kind)
    <3> HIDE DEF g
    <3>3. PositionOf(l, g \cup Tells(b.kind)) = Handled(b, PositionOf(l, g), s, r)
      BY ONLY <3>1, PlainHandled
    <3> QED
      BY Zenon, <3>1, <3>2, <3>3 DEF l, h, g
  <2>7. u \in Position
    BY Zenon, <1>3, <2>3, <2>4, HandledPosition
  <2>8. Told' = (Told \cup {"time"}) \cup {"server_random"}
    BY <1>1, <1>2, <1>4 DEF Told
  <2> HIDE DEF v, w, s, r, u
  <2>9. FALSE \in BOOLEAN /\ Quiet(a, w) /\ Quiet(b, u)
    BY <1>3 DEF Quiet
  <2>10. Leads(Append(chan, a), v, u, s, r, FALSE)
    BY Zenon, <1>2, <1>3, <2>3, <2>4, <2>5, <2>9, LeadsAppend DEF u
  <2>11. Leads(chan', v, Handled(b, u, s, r), s, r, FALSE)
    BY Zenon, <1>3, <1>6, <2>3, <2>4, <2>7, <2>9, <2>10, LeadsAppend
  <2>12. (OnTheWay(leader.join # "none"))'
    <3>1. (leader.join # "none") = FALSE
      BY <1>2
    <3> QED
      BY Zenon, <1>1, <2>2, <2>6, <2>8, <2>11, <3>1 DEF OnTheWay, v, s, r
  <2>13. Meets'
    BY Zenon, <1>1, <1>2, <2>2 DEF Meets
  <2> QED
    BY Zenon, <2>12, <2>13
<1> QED
  BY Zenon, <1>1, <1>5, <1>6, <1>7, <1>8 DEF Inv, FollowerInv

\* The leader's flush.
LEMMA FlushStep ==
    ASSUME Inv, Flush
    PROVE  Inv'
<1> DEFINE dec == leader.is_decrypting
           moved == client' = [client EXCEPT !.pc = "incoming"]
<1>1. At("frames") /\ client.frames = <<>> /\ UNCHANGED <<follower, server>>
  BY Zenon DEF Flush
<1>2. /\ client \in ClientType /\ leader \in LeaderType /\ leader.join = "none"
      /\ leader.state \in {"Handshake", "Active", "Closed"}
      /\ leader.state \notin {"Init", "Setup", "Error"}
      /\ leader.state = "Closed" <=> client.task = "close_run"
      /\ client.task # "run" => client.hs = "Traffic"
      /\ server \in ServerType /\ client.pc = "frames" /\ chan \in Seq(Message)
      /\ leader.rl \in RlType /\ Counted(leader.rl) /\ leader.rl.role = "Leader" /\ LeaderInv
      /\ leader = [leader EXCEPT !.is_decrypting = leader.is_decrypting]
      /\ dec \in BOOLEAN
  <2>1. "frames" \in {"start", "traffic", "frames", "incoming"}
    OBVIOUS
  <2> QED
    BY Zenon, <1>1, <2>1, AtPass
<1>3. PICK m \in Message : m = FlushMsg(dec) /\ m.kind = "Flush" /\ m.is_decrypting = dec
  <2>1. FlushMsg(dec) \in Message /\ FlushMsg(dec).kind = "Flush" /\ FlushMsg(dec).is_decrypting = dec
    BY <1>2 DEF FlushMsg, Message
  <2> QED
    BY Zenon, <2>1
<1>4. chan' = Append(chan, m) => chan' \in Seq(Message)
  BY <1>2, <1>3
<1>5. client.pc \notin {"off", "failed"}
  BY <1>2
<1>6. moved => /\ client' \in ClientType /\ client'.hs = client.hs /\ client'.frames = client.frames
               /\ client'.pc = "incoming" /\ client'.task = client.task
  BY Zenon, <1>2 DEF ClientType
<1>7. CASE leader.state = "Handshake" \/ ~wants_flush(leader.rl)
  <2>1. moved /\ UNCHANGED <<leader, chan>>
    BY Zenon, <1>7 DEF Flush
  <2>2. /\ client'.pc \notin {"off", "failed"}
        /\ leader.state = "Closed" => client'.pc \in {"start", "frames", "incoming"} /\ client'.task = "close_run"
        /\ client'.pc \in {"close_active", "done"} \/ client'.task = "close_run" => leader.state = "Closed"
        /\ client'.task # "run" => client'.hs = "Traffic"
    BY <1>2, <1>6, <2>1
  <2> QED
    BY Zenon, <1>1, <1>2, <1>6, <2>1, <2>2, ClientStep
<1>8. CASE ~(leader.state = "Handshake" \/ ~wants_flush(leader.rl))
  <2>1. /\ chan' = Append(chan, m)
        /\ \/ ~HasOps(leader.rl, dec) /\ moved /\ UNCHANGED leader
           \/ /\ HasOps(leader.rl, dec)
              /\ leader' = [leader EXCEPT !.join = "Flush"]
              /\ UNCHANGED client
           \/ Fail
    BY Zenon, <1>3, <1>8 DEF Flush
  <2>2. leader.state = "Active"
    <3>1. leader.state # "Closed"
      BY <1>2, <1>8 DEF LeaderInv, Phases, wants_flush
    <3> QED
      BY <1>2, <1>8, <3>1
  <2>3. CASE Fail
    BY Zenon, <1>1, <1>4, <1>5, <2>1, <2>3, LeaderFails
  <2>4. /\ leader.state \in {"Handshake", "Active"} /\ m.kind \notin {"Encrypt", "Decrypt"}
        /\ \A x : x \cup Tells(m.kind) = x
    BY <1>3, <2>2 DEF Tells
  <2>5. CASE ~HasOps(leader.rl, dec) /\ moved /\ UNCHANGED leader
    <3>1. LeaderInv'
      <4>1. FramesInOrder'
        <5>1. Passed' = Passed /\ leader.state # "Error"
          BY <1>6, <2>2, <2>5 DEF Passed
        <5> QED
          BY Zenon, <1>1, <1>2, <1>6, <2>5, <5>1, KeepFrames
      <4>2. client'.pc \notin {"off", "failed", "close_active", "done"}
        BY <1>6, <2>5
      <4> QED
        BY Zenon, <1>1, <1>2, <1>6, <2>4, <2>5, <4>1, <4>2, LeaderKeeps
    <3>2. Told' = Told
      BY Zenon, <1>6, <2>5 DEF Told
    <3>3. Quiet(m, PositionOf(leader.rl, Told))
      <4>1. m.kind \notin {"SetServerKey", "ClientFinishedVd", "ServerFinishedVd", "CloseConnection"}
        BY <1>3
      <4> QED
        BY Zenon, <1>3, <2>5, <4>1, PositionOps DEF Quiet
    <3>4. SameBase(leader'.rl, leader.rl) /\ leader'.join = "none"
      BY Zenon, <1>2, <2>5 DEF SameBase
    <3> QED
      BY Zenon, <1>1, <1>2, <1>3, <2>1, <2>4, <2>5, <3>1, <3>2, <3>3, <3>4, PlainSends
  <2>6. CASE /\ HasOps(leader.rl, dec)
             /\ leader' = [leader EXCEPT !.join = "Flush"]
             /\ UNCHANGED client
    <3>1. /\ leader' \in LeaderType /\ leader'.rl = leader.rl /\ leader'.state = leader.state
          /\ leader'.join = "Flush" /\ leader'.is_decrypting = dec
      BY Zenon, <1>2, <2>6 DEF LeaderType, Calls
    <3>2. LeaderInv'
      <4>1. Phases'
        <5>1. HasOps(leader'.rl, leader'.is_decrypting)
          BY Zenon, <2>6, <3>1
        <5>2. client.hs \in {"Ccs", "Finished", "Traffic"} /\ client.task # "close_run"
          BY <1>2, <2>2 DEF LeaderInv, Phases
        <5> QED
          BY <1>2, <2>2, <2>6, <3>1, <5>1, <5>2 DEF Phases
      <4>2. FramesInOrder'
        <5>1. Passed' = Passed /\ leader.state # "Error"
          BY <1>2, <2>2, <2>6, <3>1 DEF Passed
        <5> QED
          BY Zenon, <1>1, <1>2, <2>6, <5>1, KeepFrames
      <4>3. FinishedSeen'
        BY <1>2, <2>2, <2>6, <3>1 DEF LeaderInv, FinishedSeen
      <4> QED
        BY Zenon, <1>1, <1>2, <2>6, <3>1, <4>1, <4>2, <4>3 DEF LeaderInv
    <3>3. Told' = Told
      BY <1>2, <2>2, <2>6, <3>1 DEF Told
    <3>4. Announces(m, leader.join)' /\ leader'.join # "none"
      BY <1>3, <3>1 DEF Announces
    <3>5. SameBase(leader'.rl, leader.rl)
      BY Zenon, <3>1 DEF SameBase
    <3>6. /\ Told' = Told \cup Tells(m.kind)
          /\ leader'.rl.encrypt_buffer = leader.rl.encrypt_buffer
          /\ leader'.rl.decrypt_buffer = leader.rl.decrypt_buffer
      BY Zenon, <2>4, <3>1, <3>3
    <3> QED
      BY Zenon, <1>1, <1>2, <1>3, <2>1, <2>4, <3>1, <3>2, <3>4, <3>5, <3>6, PlainSends
  <2> QED
    BY Zenon, <2>1, <2>3, <2>5, <2>6
<1> QED
  BY Zenon, <1>7, <1>8

\* Every step of the leader keeps the invariant.
LEMMA LeaderSteps ==
    ASSUME Inv, LeaderNext
    PROVE  Inv'
  BY Zenon, AllocSteps, RunSteps, FlushPlaintextStep, RefusedSteps, HandleServerHelloStep,
     HandleServerDoneStep, HandleCcsStep, HandleOpaqueStep, FlushStep, HandleFinishedStep,
     RenegotiationStep, TakenSteps, EndClientCloseStep, CloseConnectionStep
     DEF LeaderNext
-----------------------------------------------------------------------------
(* The computations. *)

\* Where the parties are when both are in a computation.
LEMMA JointFacts ==
    ASSUME Inv, NEW op \in Calls \ {"none", "Preprocess"}, Joined(op)
    PROVE  /\ leader.join = op /\ follower.join = op /\ Running
           /\ follower.state = "Ready" /\ leader.state \in {"Handshake", "Active"}
           /\ OnTheWay(FALSE) /\ chan = <<>> /\ SameBase(leader.rl, follower.rl)
           /\ leader.rl.encrypt_buffer = follower.rl.encrypt_buffer
           /\ leader.rl.decrypt_buffer = follower.rl.decrypt_buffer
           /\ follower.have = Told
           /\ op = "Flush" => follower.dec = leader.is_decrypting
           /\ client.pc \in {"frames", "incoming"}
           /\ client.task # "close_run"
           /\ client.task # "run" => client.hs = "Traffic"
           /\ leader.state \notin {"Init", "Setup"}
           /\ client.pc \notin {"off", "failed"}
<1>1. leader.join = op /\ follower.join = op
  BY DEF Joined
<1>2. leader \in LeaderType /\ client \in ClientType /\ follower \in FollowerType /\ Phases
  BY Zenon, Parts DEF Inv, LeaderInv
<1>3. leader.state \in {"Handshake", "Active"} /\ client.pc \in {"frames", "incoming"}
      /\ client.task # "close_run" /\ (client.task # "run" => client.hs = "Traffic")
  BY <1>1, <1>2 DEF Phases, LeaderType, Calls
<1>4. follower.state = "Ready"
  <2>1. follower.state \in {"Init", "Setup", "Ready", "Done", "Error"}
    BY Zenon, <1>2 DEF FollowerType
  <2>2. follower.state \notin {"Done", "Error"}
    BY <1>1 DEF Inv, FollowerInv
  <2>3. follower.state \notin {"Init", "Setup"}
    BY <1>3 DEF Inv, Pairing
  <2> QED
    BY <2>1, <2>2, <2>3
<1>5. Running
  BY <1>3, <1>4 DEF Running
<1>6. /\ OnTheWay(FALSE) /\ chan = <<>>
      /\ PositionOf(follower.rl, follower.have) = PositionOf(leader.rl, Told)
  <2>1. op # "none"
    OBVIOUS
  <2> QED
    BY Zenon, <1>1, <1>5, <2>1, InTouch
<1>7. /\ leader.rl.encrypt_buffer = follower.rl.encrypt_buffer
      /\ leader.rl.decrypt_buffer = follower.rl.decrypt_buffer
      /\ follower.have = Told
  BY ONLY <1>6 DEF PositionOf
<1>8. SameBase(leader.rl, follower.rl)
  BY Zenon, <1>6 DEF OnTheWay
<1>9. op = "Flush" => follower.dec = leader.is_decrypting
  BY <1>1, <1>5 DEF Inv, Synced, Meets
<1>10. leader.state \notin {"Init", "Setup"} /\ client.pc \notin {"off", "failed"}
  BY <1>3
<1> QED
  BY Zenon, <1>1, <1>3, <1>4, <1>5, <1>6, <1>7, <1>8, <1>9, <1>10

\* The follower after a computation that changes nothing else.
LEMMA FollowerLeaves ==
    ASSUME Inv, follower.state = "Ready", follower' = [follower EXCEPT !.join = "none"]
    PROVE  /\ FollowerInv(follower') /\ follower'.state = "Ready" /\ follower'.join = "none"
           /\ follower'.rl = follower.rl /\ follower'.have = follower.have
           /\ follower'.state \notin {"Init", "Setup"}
<1>1. follower \in FollowerType /\ Counted(follower.rl) /\ follower.rl.role = "Follower"
  BY Zenon, Parts
<1>2. /\ follower' \in FollowerType /\ follower'.state = "Ready" /\ follower'.join = "none"
      /\ follower'.rl = follower.rl /\ follower'.have = follower.have
  BY Zenon, <1>1 DEF FollowerType, Calls
<1>3. FollowerInv(follower') /\ follower'.state \notin {"Init", "Setup"}
  BY <1>1, <1>2 DEF FollowerInv
<1> QED
  BY Zenon, <1>2, <1>3

\* The leader goes on with a message.
LEMMA JointSends ==
    ASSUME Inv, NEW op \in Calls \ {"none", "Preprocess"}, Joined(op),
           follower' = [follower EXCEPT !.join = "none"], leader'.state = "Active",
           NEW m \in Message, chan' = Append(chan, m), SameBase(leader'.rl, leader.rl),
           PositionOf(leader'.rl, Told') =
              Handled(m, PositionOf(leader.rl, Told),
                      Len(leader.rl.sent_records), Len(leader.rl.recv_records)),
           \/ leader'.join = "none" /\ Quiet(m, PositionOf(leader.rl, Told))
           \/ leader'.join # "none" /\ Announces(m, leader.join)',
           LeaderInv'
    PROVE  Inv'
<1>1. OnTheWay(FALSE) /\ follower.state = "Ready"
  BY Zenon, JointFacts
<1>2. /\ FollowerInv(follower') /\ follower'.state = "Ready" /\ follower'.join = "none"
      /\ follower'.rl = follower.rl /\ follower'.have = follower.have
  BY Zenon, <1>1, FollowerLeaves
<1>3. /\ leader.rl \in RlType /\ follower.rl \in RlType
      /\ follower.have \in SUBSET Everything /\ chan \in Seq(Message)
  BY Zenon, Parts
<1>4. Synced' /\ chan' \in Seq(Message)
  BY Zenon, <1>1, <1>2, <1>3, SendStep
<1>5. Pairing'
  BY <1>2 DEF Pairing
<1> QED
  BY Zenon, <1>2, <1>4, <1>5 DEF Inv, FollowerInv
\* A message that is not about a record, sent after a computation.
LEMMA JointPlain ==
    ASSUME Inv, NEW op \in Calls \ {"none", "Preprocess"}, Joined(op),
           follower' = [follower EXCEPT !.join = "none"], leader'.state = "Active",
           NEW kind, Msg(kind) \in Message, kind \notin {"Encrypt", "Decrypt"},
           chan' = Append(chan, Msg(kind)), SameBase(leader'.rl, leader.rl),
           leader'.rl.encrypt_buffer = leader.rl.encrypt_buffer,
           leader'.rl.decrypt_buffer = leader.rl.decrypt_buffer,
           Told' = Told \cup Tells(kind),
           \/ leader'.join = "none" /\ Quiet(Msg(kind), PositionOf(leader.rl, Told))
           \/ leader'.join # "none" /\ Announces(Msg(kind), leader.join)',
           LeaderInv'
    PROVE  Inv'
<1> DEFINE m == Msg(kind)
           q == leader'.rl
           r == leader.rl
           told == Told
           s == Len(leader.rl.sent_records)
           n == Len(leader.rl.recv_records)
<1>1. m.kind = kind
  BY DEF Msg
<1>2. PositionOf(q, Told') = Handled(m, PositionOf(r, told), s, n)
  <2>1. m.kind \notin {"Encrypt", "Decrypt"} /\ q.encrypt_buffer = r.encrypt_buffer
        /\ q.decrypt_buffer = r.decrypt_buffer
    BY <1>1
  <2>2. PositionOf(q, told \cup Tells(m.kind)) = Handled(m, PositionOf(r, told), s, n)
    <3> HIDE DEF q, r, s, n, told, m
    <3> QED
      BY ONLY <2>1, PlainHandled
  <2>3. Told' = told \cup Tells(m.kind)
    BY Zenon, <1>1
  <2> QED
    BY Zenon, <2>2, <2>3
<1> QED
  BY Zenon, <1>2, JointSends

\* prepare_encryption and SetServerKey: the keys are there for both parties.
LEMMA JointSetupStep ==
    ASSUME Inv, JointSetup
    PROVE  Inv'
<1>1. /\ Joined("Setup") /\ UNCHANGED <<client, server>>
      /\ leader' = [leader EXCEPT !.state = "Active", !.join = "CfVd"]
      /\ follower' = [follower EXCEPT !.join = "none"]
      /\ chan' = Append(chan, Msg("ClientFinishedVd"))
  BY Zenon DEF JointSetup
<1>2. "Setup" \in Calls \ {"none", "Preprocess"}
  BY DEF Calls
<1>3. /\ leader.join = "Setup" /\ client.pc \in {"frames", "incoming"}
      /\ leader.state \in {"Handshake", "Active"} /\ client.task # "close_run"
  BY Zenon, <1>1, <1>2, JointFacts
<1>4. /\ leader \in LeaderType /\ client \in ClientType /\ server \in ServerType /\ LeaderInv
      /\ leader.rl \in RlType /\ Counted(leader.rl) /\ leader.rl.role = "Leader"
  BY Zenon, Parts DEF Inv
<1>5. /\ leader' \in LeaderType /\ leader'.rl = leader.rl /\ leader'.state = "Active"
      /\ leader'.join = "CfVd" /\ client' = client /\ server' = server
  BY Zenon, <1>1, <1>4 DEF LeaderType, Calls
<1>6. leader.state = "Handshake" /\ client.hs = "ServerDone"
  BY <1>3, <1>4 DEF LeaderInv, Phases
<1>7. LeaderInv'
  <2>1. Phases'
    BY <1>3, <1>4, <1>5, <1>6 DEF LeaderInv, Phases
  <2>2. Passed' = Passed /\ leader.state # "Error"
    BY <1>3, <1>5, <1>6 DEF Passed
  <2>3. FramesInOrder'
    BY Zenon, <1>4, <1>5, <2>2, KeepFrames
  <2>4. FinishedSeen'
    BY <1>5, <1>6 DEF FinishedSeen
  <2> QED
    BY Zenon, <1>4, <1>5, <2>1, <2>3, <2>4 DEF LeaderInv
<1>8. Told' = Told \cup Tells("ClientFinishedVd")
  BY <1>3, <1>5, <1>6 DEF Told, Tells
<1>9. Announces(Msg("ClientFinishedVd"), leader.join)' /\ leader'.join # "none"
  BY <1>5 DEF Announces, Msg
<1>10. Msg("ClientFinishedVd") \in Message /\ "ClientFinishedVd" \notin {"Encrypt", "Decrypt"}
  BY DEF Msg, Message, PlainKinds
<1>11. SameBase(leader'.rl, leader.rl)
  BY Zenon, <1>5 DEF SameBase
<1> QED
  BY Zenon, <1>1, <1>2, <1>5, <1>7, <1>8, <1>9, <1>10, <1>11, JointPlain

\* A computation that fails the leader.
LEMMA JointFails ==
    ASSUME Inv, NEW op \in Calls \ {"none", "Preprocess"}, Joined(op), Fail,
           UNCHANGED <<chan, server>>,
           FollowerInv(follower'), follower'.state \notin {"Init", "Setup"}
    PROVE  Inv'
<1>1. leader.state \notin {"Init", "Setup"}
  BY Zenon, JointFacts
<1>2. chan' \in Seq(Message) /\ server' = server
  BY Zenon DEF Inv
<1> QED
  BY Zenon, <1>1, <1>2, FailStep

\* The server's verify data: the traffic starts or the leader fails.
LEMMA JointSfVdStep ==
    ASSUME Inv, JointSfVd
    PROVE  Inv'
<1> DEFINE q == start_traffic(leader.rl)
<1>1. /\ Joined("SfVd") /\ server' = server
      /\ follower' = [follower EXCEPT !.join = "none"]
      /\ \/ /\ leader' = [leader EXCEPT !.join = "none", !.sf_vd = TRUE, !.rl = q]
            /\ chan' = Append(chan, Msg("StartTraffic"))
            /\ client' = [client EXCEPT !.hs = "Traffic", !.pc = "traffic"]
         \/ Fail /\ UNCHANGED chan
  BY Zenon DEF JointSfVd
<1>2. "SfVd" \in Calls \ {"none", "Preprocess"}
  BY DEF Calls
<1>3. /\ leader.join = "SfVd" /\ follower.state = "Ready"
      /\ leader.state \in {"Handshake", "Active"} /\ client.task # "close_run"
  BY Zenon, <1>1, <1>2, JointFacts
<1>4. /\ leader \in LeaderType /\ client \in ClientType /\ server \in ServerType /\ LeaderInv
      /\ leader.rl \in RlType /\ Counted(leader.rl) /\ leader.rl.role = "Leader"
  BY Zenon, Parts DEF Inv
<1>5. CASE Fail /\ UNCHANGED chan
  <2>1. FollowerInv(follower') /\ follower'.state \notin {"Init", "Setup"}
    BY Zenon, <1>1, <1>3, FollowerLeaves
  <2> QED
    BY Zenon, <1>1, <1>2, <1>5, <2>1, JointFails
<1>6. CASE /\ leader' = [leader EXCEPT !.join = "none", !.sf_vd = TRUE, !.rl = q]
           /\ chan' = Append(chan, Msg("StartTraffic"))
           /\ client' = [client EXCEPT !.hs = "Traffic", !.pc = "traffic"]
  <2>1. /\ q \in RlType /\ Counted(q) /\ q.role = leader.rl.role /\ SameBase(q, leader.rl)
        /\ q.sent = leader.rl.sent
        /\ q.encrypt_buffer = leader.rl.encrypt_buffer
        /\ q.decrypt_buffer = leader.rl.decrypt_buffer
    BY Zenon, <1>4, StartLayer
  <2> HIDE DEF q
  <2>2. /\ leader' \in LeaderType /\ leader'.rl = q /\ leader'.state = leader.state
        /\ leader'.join = "none"
    BY Zenon, <1>4, <1>6, <2>1 DEF LeaderType, Calls
  <2>3. /\ client' \in ClientType /\ client'.hs = "Traffic" /\ client'.pc = "traffic"
        /\ client'.frames = client.frames /\ client'.task = client.task
    BY Zenon, <1>4, <1>6 DEF ClientType
  <2>4. leader.state = "Active" /\ client.hs = "Finished"
    BY <1>3, <1>4 DEF LeaderInv, Phases
  <2>5. q.recv_records = leader.rl.recv_records
    BY Zenon, <2>1 DEF SameBase
  <2>6. LeaderInv'
    <3>1. Phases'
      BY <1>3, <2>2, <2>3, <2>4 DEF Phases
    <3>2. Passed' = Passed /\ leader.state # "Error"
      BY <2>3, <2>4 DEF Passed
    <3>3. FramesInOrder'
      BY Zenon, <1>1, <1>4, <2>3, <3>2, KeepFrames
    <3>4. FinishedSeen'
      BY <1>3, <1>4, <2>1, <2>2, <2>3, <2>4, <2>5 DEF LeaderInv, FinishedSeen
    <3> QED
      BY Zenon, <1>1, <1>4, <2>1, <2>2, <2>3, <3>1, <3>3, <3>4 DEF LeaderInv
  <2>7. Told' = Told \cup Tells("StartTraffic")
    BY <1>3, <2>2, <2>3, <2>4 DEF Told, Tells
  <2>8. Quiet(Msg("StartTraffic"), PositionOf(leader.rl, Told))
    BY DEF Quiet, Msg
  <2>9. Msg("StartTraffic") \in Message /\ "StartTraffic" \notin {"Encrypt", "Decrypt"}
    BY DEF Msg, Message, PlainKinds
  <2>10. leader'.state = "Active"
    BY Zenon, <2>2, <2>4
  <2> QED
    BY Zenon, <1>1, <1>2, <1>6, <2>1, <2>2, <2>6, <2>7, <2>8, <2>9, <2>10, JointPlain
<1> QED
  BY Zenon, <1>1, <1>5, <1>6

\* The client's verify data: the leader queues its Finished message.
LEMMA JointCfVdStep ==
    ASSUME Inv, JointCfVd
    PROVE  Inv'
<1> DEFINE typ == "Handshake"
           m == EncryptMsg(typ)
           r == leader.rl
           q == push_encrypt(r, typ, RecordLen)
<1>1. /\ Joined("CfVd") /\ server' = server
      /\ follower' = [follower EXCEPT !.join = "none"]
      /\ IF CanPushOutgoing
         THEN /\ leader' = [leader EXCEPT !.join = "none", !.cf_vd = TRUE, !.rl = q]
              /\ chan' = Append(chan, m)
              /\ client' = [client EXCEPT !.hs = "Ccs"]
         ELSE Fail /\ UNCHANGED chan
  BY Zenon DEF JointCfVd
<1>2. "CfVd" \in Calls \ {"none", "Preprocess"} /\ typ \in ContentType
  BY DEF Calls, ContentType
<1>3. /\ leader.join = "CfVd" /\ follower.state = "Ready" /\ client.pc \in {"frames", "incoming"}
      /\ leader.state \in {"Handshake", "Active"} /\ client.task # "close_run"
  BY Zenon, <1>1, <1>2, JointFacts
<1>4. /\ leader \in LeaderType /\ client \in ClientType /\ server \in ServerType /\ LeaderInv
      /\ leader.rl \in RlType /\ Counted(leader.rl) /\ leader.rl.role = "Leader"
  BY Zenon, Parts DEF Inv
<1>5. CASE ~CanPushOutgoing
  <2>1. FollowerInv(follower') /\ follower'.state \notin {"Init", "Setup"}
    BY Zenon, <1>1, <1>3, FollowerLeaves
  <2> QED
    BY Zenon, <1>1, <1>2, <1>5, <2>1, JointFails
<1>6. CASE CanPushOutgoing
  <2>1. /\ leader' = [leader EXCEPT !.join = "none", !.cf_vd = TRUE, !.rl = q]
        /\ chan' = Append(chan, m) /\ client' = [client EXCEPT !.hs = "Ccs"]
        /\ CanPushEncrypt(r, RecordLen)
    BY Zenon, <1>1, <1>6 DEF CanPushOutgoing
  <2>2. /\ q \in RlType /\ Counted(q) /\ q.role = r.role /\ SameBase(q, r)
        /\ q.sent = r.sent + 1
    BY Zenon, <1>2, <1>4, <2>1, PushEncryptLayer
  <2>3. \A x, y, z : x.kind = "Encrypt" /\ x.typ = typ =>
          PositionOf(q, y) = Handled(x, PositionOf(r, y), Len(r.sent_records), z)
    <3> HIDE DEF typ, r
    <3> QED
      BY Zenon, <1>2, <1>4, <2>1, EncryptHandled DEF r
  <2>4. m \in Message /\ m.kind = "Encrypt" /\ m.typ = typ
    BY <1>2 DEF EncryptMsg, Message
  <2> HIDE DEF m, q
  <2>5. /\ leader' \in LeaderType /\ leader'.rl = q /\ leader'.state = leader.state
        /\ leader'.join = "none"
    BY Zenon, <1>4, <2>1, <2>2 DEF LeaderType, Calls
  <2>6. /\ client' \in ClientType /\ client'.hs = "Ccs" /\ client'.pc = client.pc
        /\ client'.frames = client.frames /\ client'.task = client.task
    BY Zenon, <1>4, <2>1 DEF ClientType
  <2>7. leader.state = "Active" /\ client.hs = "ServerDone" /\ client.task = "run"
    BY <1>3, <1>4 DEF LeaderInv, Phases, ClientType
  <2>8. LeaderInv'
    <3>1. Phases'
      BY <1>3, <2>5, <2>6, <2>7 DEF Phases
    <3>2. Passed' = Passed /\ leader.state # "Error"
      BY <1>3, <2>5, <2>6, <2>7 DEF Passed
    <3>3. FramesInOrder'
      BY Zenon, <1>1, <1>4, <2>6, <3>2, KeepFrames
    <3>4. FinishedSeen'
      <4>1. r.sent \in Nat
        BY Zenon, <1>4 DEF RlType
      <4>2. q.sent >= 1
        BY <2>2, <4>1
      <4> QED
        BY <2>5, <2>6, <4>2 DEF FinishedSeen
    <3> QED
      BY Zenon, <1>1, <1>4, <2>2, <2>5, <2>6, <3>1, <3>3, <3>4 DEF LeaderInv
  <2>9. PositionOf(leader'.rl, Told') =
          Handled(m, PositionOf(r, Told), Len(r.sent_records), Len(r.recv_records))
    <3>1. Told' = Told
      BY <1>3, <2>5, <2>6, <2>7 DEF Told
    <3>2. PositionOf(q, Told) = Handled(m, PositionOf(r, Told), Len(r.sent_records), Len(r.recv_records))
      BY Zenon, <2>3, <2>4
    <3> QED
      BY Zenon, <2>5, <3>1, <3>2
  <2>10. Quiet(m, PositionOf(r, Told))
    BY <2>4 DEF Quiet
  <2>11. leader'.state = "Active"
    BY Zenon, <2>5, <2>7
  <2> QED
    BY Zenon, <1>1, <1>2, <2>1, <2>2, <2>4, <2>5, <2>8, <2>9, <2>10, <2>11, JointSends
<1> QED
  BY Zenon, <1>5, <1>6
\* After a computation that sends nothing the parties are where they were: in step.
LEMMA MeetAgain ==
    ASSUME chan' = <<>>, leader'.join = "none", follower'.join = "none",
           leader'.rl \in RlType, follower'.rl \in RlType, follower'.have = Told',
           SameBase(leader'.rl, follower'.rl),
           leader'.rl.encrypt_buffer = follower'.rl.encrypt_buffer,
           leader'.rl.decrypt_buffer = follower'.rl.decrypt_buffer
    PROVE  Synced'
<1> DEFINE v == PositionOf(follower'.rl, follower'.have)
           w == PositionOf(leader'.rl, Told')
           s == Len(leader'.rl.sent_records)
           n == Len(leader'.rl.recv_records)
<1>1. Told' \in SUBSET Everything
  BY DEF Told, Everything
<1>2. v \in Position /\ w \in Position
  BY Zenon, <1>1, IsPosition
<1>3. v = w
  BY Zenon DEF PositionOf
<1>4. Leads(<<>>, v, w, s, n, FALSE)
  <2> HIDE DEF v, w, s, n
  <2> QED
    BY Zenon, <1>2, <1>3, LeadsEmpty
<1>5. (leader.join # "none")' = FALSE
  OBVIOUS
<1>6. OnTheWay(leader.join # "none")'
  BY Zenon, <1>4, <1>5 DEF OnTheWay
<1>7. Meets'
  BY Zenon DEF Meets
<1> QED
  BY Zenon, <1>6, <1>7 DEF Synced

\* Both flush the same operations and are in the same place again.
LEMMA JointFlushStep ==
    ASSUME HelpersSound, Inv, JointFlush
    PROVE  Inv'
<1> DEFINE r == leader.rl
           s == follower.rl
           dec == leader.is_decrypting
           q == flush(r, dec)
           p == flush(s, follower.dec)
           flushed == [follower EXCEPT !.join = "none", !.rl = p]
<1>1. /\ Joined("Flush") /\ UNCHANGED <<chan, server>>
      /\ \/ /\ leader' = [leader EXCEPT !.join = "none", !.rl = q]
            /\ client' = [client EXCEPT !.pc = "incoming"]
            /\ follower' = flushed
         \/ Fail /\ follower' \in {flushed, FollowerErr}
  BY Zenon DEF JointFlush
<1>2. "Flush" \in Calls \ {"none", "Preprocess"}
  BY DEF Calls
<1>3. /\ leader.join = "Flush" /\ follower.state = "Ready"
      /\ leader.state \in {"Handshake", "Active"} /\ client.task # "close_run"
      /\ chan = <<>> /\ SameBase(r, s) /\ follower.have = Told
      /\ r.encrypt_buffer = s.encrypt_buffer /\ r.decrypt_buffer = s.decrypt_buffer
  BY Zenon, <1>1, <1>2, JointFacts
<1>4. follower.dec = dec
  BY Zenon, <1>1, <1>2, JointFacts
<1>5. /\ leader \in LeaderType /\ client \in ClientType /\ server \in ServerType /\ LeaderInv
      /\ r \in RlType /\ Counted(r) /\ r.role = "Leader" /\ follower \in FollowerType
      /\ s \in RlType /\ Counted(s) /\ s.role = "Follower"
  BY Zenon, Parts DEF Inv
<1>6. dec \in BOOLEAN
  BY Zenon, <1>5 DEF LeaderType
<1>7. /\ q \in RlType /\ Counted(q) /\ q.role = r.role /\ q.sent = r.sent
      /\ q.encrypt_buffer = <<>> /\ q.decrypt_buffer = DeferredOps(r, dec)
      /\ q.recv_records = r.recv_records \o DecryptOps(r, dec)
      /\ DecryptOps(r, dec) \in Seq(Record)
  BY Zenon, <1>5, <1>6, FlushLayer
<1>8. /\ p \in RlType /\ Counted(p) /\ p.role = s.role
      /\ p.encrypt_buffer = <<>> /\ p.decrypt_buffer = DeferredOps(s, dec)
  <2>1. LET f == flush(s, dec)
        IN /\ f \in RlType /\ Counted(f) /\ f.role = s.role
           /\ f.encrypt_buffer = <<>> /\ f.decrypt_buffer = DeferredOps(s, dec)
    BY Zenon, <1>5, <1>6, FlushLayer
  <2>2. p = flush(s, dec)
    BY Zenon, <1>4
  <2> QED
    BY Zenon, <2>1, <2>2
<1>9. SameBase(q, p) /\ DeferredOps(r, dec) = DeferredOps(s, dec)
  BY Zenon, <1>3, <1>4, <1>5, <1>6, SameAfter
<1> DEFINE ops == DecryptOps(r, dec)
           rest == DeferredOps(r, dec)
<1>10. r.recv_records # <<>> => q.recv_records # <<>>
  <2>1. r.recv_records \in Seq(Record)
    BY Zenon, <1>5 DEF RlType
  <2> HIDE DEF ops, q
  <2> QED
    BY <1>7, <2>1 DEF ops
<1> HIDE DEF p, q
<1>11. /\ flushed \in FollowerType /\ flushed.rl = p /\ flushed.join = "none"
       /\ flushed.have = follower.have /\ flushed.state = "Ready"
  BY Zenon, <1>3, <1>5, <1>8 DEF FollowerType, Calls
<1>12. FollowerInv(flushed) /\ flushed.state \notin {"Init", "Setup"}
  BY <1>5, <1>8, <1>11 DEF FollowerInv
<1> HIDE DEF flushed
<1>13. CASE Fail /\ follower' \in {flushed, FollowerErr}
  <2>1. FollowerInv(FollowerErr) /\ FollowerErr.state \notin {"Init", "Setup"}
    BY <1>5, FollowerErrInv
  <2>2. FollowerInv(follower') /\ follower'.state \notin {"Init", "Setup"}
    BY Zenon, <1>12, <1>13, <2>1
  <2> QED
    BY Zenon, <1>1, <1>2, <1>13, <2>2, JointFails
<1>14. CASE /\ leader' = [leader EXCEPT !.join = "none", !.rl = q]
            /\ client' = [client EXCEPT !.pc = "incoming"]
            /\ follower' = flushed
  <2>1. /\ leader' \in LeaderType /\ leader'.rl = q /\ leader'.state = leader.state
        /\ leader'.join = "none"
    BY Zenon, <1>5, <1>7, <1>14 DEF LeaderType, Calls
  <2>2. /\ client' \in ClientType /\ client'.hs = client.hs /\ client'.pc = "incoming"
        /\ client'.frames = client.frames /\ client'.task = client.task
    BY Zenon, <1>5, <1>14 DEF ClientType
  <2>3. leader.state = "Active" /\ client.hs \in {"Ccs", "Finished", "Traffic"}
    BY <1>3, <1>5 DEF LeaderInv, Phases
  <2>4. LeaderInv'
    <3>1. Phases'
      BY <1>3, <1>5, <2>1, <2>2, <2>3 DEF LeaderInv, Phases
    <3>2. Passed' = Passed /\ leader.state # "Error"
      BY <2>2, <2>3 DEF Passed
    <3>3. FramesInOrder'
      BY Zenon, <1>1, <1>5, <2>2, <3>2, KeepFrames
    <3>4. FinishedSeen'
      BY Zenon, <1>3, <1>5, <1>7, <1>10, <2>1, <2>2, <2>3 DEF LeaderInv, FinishedSeen
    <3> QED
      BY Zenon, <1>1, <1>5, <1>7, <2>1, <2>2, <3>1, <3>3, <3>4 DEF LeaderInv
  <2>5. Told' = Told
    BY <1>3, <2>1, <2>2, <2>3 DEF Told
  <2>6. Synced'
    BY Zenon, <1>1, <1>3, <1>7, <1>8, <1>9, <1>11, <1>14, <2>1, <2>5, MeetAgain
  <2>7. Pairing'
    BY <1>11, <1>14, <2>1, <2>3 DEF Pairing
  <2>8. chan' \in Seq(Message)
    BY Zenon, <1>1 DEF Inv
  <2> QED
    BY Zenon, <1>12, <1>14, <2>4, <2>6, <2>7, <2>8 DEF Inv, FollowerInv
<1> QED
  BY Zenon, <1>1, <1>13, <1>14

\* Both commit: the follower closes whenever the leader does.
LEMMA JointCommitStep ==
    ASSUME HelpersSound, Inv, JointCommit
    PROVE  Inv'
<1> DEFINE r == leader.rl
           s == follower.rl
           q == commit(r)
           p == commit(s)
           closed == [leader EXCEPT !.state = "Closed", !.join = "none", !.rl = q]
           committed == [follower EXCEPT !.state = "Done", !.join = "none", !.rl = p]
           done == IF FollowerCloses THEN committed ELSE FollowerErr
<1>1. /\ Joined("Commit") /\ UNCHANGED <<chan, server>>
      /\ \/ /\ LeaderCloses
            /\ leader' = closed
            /\ client' = [client EXCEPT !.pc = IF Drained(closed.rl)
                                               THEN "done" ELSE "close_active"]
            /\ follower' = done
         \/ Fail /\ follower' \in {done, FollowerErr}
  BY Zenon DEF JointCommit
<1>2. "Commit" \in Calls \ {"none", "Preprocess"}
  BY DEF Calls
<1>3. /\ leader.join = "Commit" /\ follower.state = "Ready"
      /\ leader.state \in {"Handshake", "Active"} /\ client.task # "close_run"
      /\ chan = <<>> /\ SameBase(r, s) /\ follower.have = Told
      /\ r.encrypt_buffer = s.encrypt_buffer /\ r.decrypt_buffer = s.decrypt_buffer
  BY Zenon, <1>1, <1>2, JointFacts
<1>4. /\ leader \in LeaderType /\ client \in ClientType /\ server \in ServerType /\ LeaderInv
      /\ r \in RlType /\ Counted(r) /\ r.role = "Leader" /\ follower \in FollowerType
      /\ s \in RlType /\ Counted(s) /\ s.role = "Follower"
  BY Zenon, Parts DEF Inv
<1>5. /\ q \in RlType /\ Counted(q) /\ q.role = r.role /\ q.sent = r.sent
      /\ q.encrypt_buffer = r.encrypt_buffer /\ q.decrypt_buffer = <<>>
      /\ q.recv_records = r.recv_records \o r.decrypt_buffer
  BY Zenon, <1>4, CommitLayer
<1>6. /\ p \in RlType /\ Counted(p) /\ p.role = s.role
      /\ p.encrypt_buffer = s.encrypt_buffer /\ p.decrypt_buffer = <<>>
  BY Zenon, <1>4, CommitLayer
<1>7. SameBase(q, p)
  <2>1. TRUE \in BOOLEAN
    OBVIOUS
  <2> QED
    BY Zenon, <1>3, <1>4, <2>1, SameAfter
<1>8. leader.state = "Active" /\ client.hs = "Traffic"
  BY <1>3, <1>4 DEF LeaderInv, Phases
<1>9. r.encrypt_buffer = <<>> /\ r.recv_records # <<>> /\ r.sent >= 1
  BY <1>3, <1>4, <1>8 DEF LeaderInv, FinishedSeen
<1>10. LeaderCloses => FollowerCloses
  <2>1. follower.have = Everything
    BY <1>3, <1>8 DEF Told, Everything
  <2>2. CanCommit(r) => CanCommit(s)
    <3>1. r.dec_keystream = s.dec_keystream
      BY Zenon, <1>3 DEF SameBase
    <3> HIDE DEF r, s
    <3> QED
      BY <1>3, <1>4, <3>1 DEF CanCommit
  <2>3. r.sent_records = s.sent_records /\ q.recv_records = p.recv_records
    BY Zenon, <1>3, <1>7 DEF SameBase
  <2> HIDE DEF r, s, p, q
  <2>4. LeaderCloses => CanCommit(r) /\ TranscriptOk(r.sent_records, q.recv_records)
    BY Zenon DEF LeaderCloses, r, q
  <2>5. CanCommit(s) /\ TranscriptOk(s.sent_records, p.recv_records) => FollowerCloses
    BY Zenon, <2>1 DEF FollowerCloses, s, p
  <2> QED
    BY Zenon, <2>2, <2>3, <2>4, <2>5
<1>11. q.recv_records # <<>>
  <2>1. r.recv_records \in Seq(Record) /\ r.decrypt_buffer \in Seq(Record)
    BY Zenon, <1>4 DEF RlType
  <2> HIDE DEF q
  <2> QED
    BY <1>5, <1>9, <2>1
<1> HIDE DEF p, q
<1>12. /\ committed \in FollowerType /\ committed.rl = p /\ committed.join = "none"
       /\ committed.have = follower.have /\ committed.state = "Done"
  BY Zenon, <1>4, <1>6 DEF FollowerType, Calls
<1>13. FollowerInv(committed) /\ committed.state \notin {"Init", "Setup"}
  BY <1>4, <1>6, <1>12 DEF FollowerInv
<1> HIDE DEF committed
<1>14. CASE Fail /\ follower' \in {done, FollowerErr}
  <2>1. FollowerInv(FollowerErr) /\ FollowerErr.state \notin {"Init", "Setup"}
    BY <1>4, FollowerErrInv
  <2>2. follower' = committed \/ follower' = FollowerErr
    BY Zenon, <1>14
  <2>3. FollowerInv(follower') /\ follower'.state \notin {"Init", "Setup"}
    BY Zenon, <1>13, <2>1, <2>2
  <2> QED
    BY Zenon, <1>1, <1>2, <1>14, <2>3, JointFails
<1>15. CASE /\ LeaderCloses
            /\ leader' = closed
            /\ client' = [client EXCEPT !.pc = IF Drained(closed.rl)
                                               THEN "done" ELSE "close_active"]
            /\ follower' = done
  <2>1. follower' = committed
    BY Zenon, <1>10, <1>15
  <2>2. /\ leader' \in LeaderType /\ leader'.rl = q /\ leader'.state = "Closed"
        /\ leader'.join = "none"
    BY Zenon, <1>4, <1>5, <1>15 DEF LeaderType, Calls
  <2>3. PICK pc \in {"done", "close_active"} : client' = [client EXCEPT !.pc = pc]
    BY Zenon, <1>15
  <2>4. /\ client' \in ClientType /\ client'.hs = client.hs
        /\ client'.pc \in {"done", "close_active"}
        /\ client'.frames = client.frames /\ client'.task = client.task
    BY Zenon, <1>4, <2>3 DEF ClientType
  <2>5. LeaderInv'
    <3>1. Phases'
      BY <1>3, <1>5, <1>8, <1>9, <2>2, <2>4 DEF Phases
    <3>2. Passed' = Passed /\ leader.state # "Error"
      BY <1>8, <2>4 DEF Passed
    <3>3. FramesInOrder'
      BY Zenon, <1>1, <1>4, <2>4, <3>2, KeepFrames
    <3>4. FinishedSeen'
      BY Zenon, <1>5, <1>9, <1>11, <2>2 DEF FinishedSeen
    <3> QED
      BY Zenon, <1>1, <1>4, <1>5, <2>2, <2>4, <3>1, <3>3, <3>4 DEF LeaderInv
  <2>6. Told' = Told
    BY <1>3, <1>8, <2>2, <2>4 DEF Told
  <2>7. Synced'
    BY Zenon, <1>1, <1>3, <1>5, <1>6, <1>7, <1>12, <2>1, <2>2, <2>6, MeetAgain
  <2>8. Pairing'
    BY <1>12, <2>1, <2>2 DEF Pairing
  <2>9. chan' \in Seq(Message)
    BY Zenon, <1>1 DEF Inv
  <2> QED
    BY Zenon, <1>13, <2>1, <2>5, <2>7, <2>8, <2>9 DEF Inv, FollowerInv
<1> QED
  BY Zenon, <1>1, <1>14, <1>15
\* The set-up ends for both, and the first message is sent.
LEMMA JointPreprocessStep ==
    ASSUME Inv, JointPreprocess
    PROVE  Inv'
<1> DEFINE m == Msg("SetClientRandom")
           r == leader.rl
           s == follower.rl
<1>1. /\ Joined("Preprocess") /\ server' = server
      /\ leader' = [leader EXCEPT !.state = "Handshake", !.join = "none"]
      /\ follower' = [follower EXCEPT !.state = "Ready", !.join = "none"]
      /\ chan' = Append(chan, m) /\ client' = [client EXCEPT !.pc = "active"]
  BY Zenon DEF JointPreprocess
<1>2. /\ leader \in LeaderType /\ client \in ClientType /\ server \in ServerType /\ LeaderInv
      /\ r \in RlType /\ Counted(r) /\ r.role = "Leader" /\ follower \in FollowerType
      /\ s \in RlType /\ Counted(s) /\ s.role = "Follower"
      /\ chan \in Seq(Message)
  BY Zenon, Parts DEF Inv
<1>3. /\ leader.state = "Setup" /\ client.pc = "off" /\ client.hs = "ServerHello"
      /\ leader.join = "Preprocess"
  BY <1>1, <1>2 DEF Joined, LeaderInv, Phases, LeaderType
<1>4. client.task = "run"
  BY <1>2, <1>3 DEF LeaderInv, Phases, ClientType
<1>5. /\ Fresh(leader, "Leader") /\ Fresh(follower, "Follower")
      /\ follower.have = {} /\ chan = <<>>
  BY <1>3 DEF Inv, Pairing
<1>6. r = alloc(NewRecordLayer("Leader")) /\ s = alloc(NewRecordLayer("Follower"))
  BY <1>1, <1>5 DEF Fresh, Joined
<1>7. /\ SameBase(r, s) /\ r.encrypt_buffer = s.encrypt_buffer
      /\ r.decrypt_buffer = s.decrypt_buffer
  <2> HIDE DEF r, s
  <2> QED
    BY ONLY <1>6 DEF alloc, NewRecordLayer, SameBase
<1>8. Told = {}
  BY <1>3 DEF Told
<1>9. OnTheWay(FALSE)
  <2>1. PositionOf(s, follower.have) \in Position /\ PositionOf(r, Told) \in Position
    BY Zenon, <1>2, ToldType, IsPosition DEF FollowerType
  <2>2. PositionOf(s, follower.have) = PositionOf(r, Told)
    BY Zenon, <1>5, <1>7, <1>8 DEF PositionOf
  <2>3. Leads(<<>>, PositionOf(s, follower.have), PositionOf(r, Told),
              Len(r.sent_records), Len(r.recv_records), FALSE)
    <3> DEFINE v == PositionOf(s, follower.have)
               w == PositionOf(r, Told)
               n == Len(r.sent_records)
               k == Len(r.recv_records)
    <3>1. v \in Position /\ w \in Position /\ v = w
      BY Zenon, <2>1, <2>2
    <3>2. Leads(<<>>, v, w, n, k, FALSE)
      <4> HIDE DEF v, w, n, k
      <4> QED
        BY Zenon, <3>1, LeadsEmpty
    <3> QED
      BY Zenon, <3>2
  <2> QED
    BY Zenon, <1>5, <1>7, <2>3 DEF OnTheWay
<1>10. /\ leader' \in LeaderType /\ leader'.rl = r /\ leader'.state = "Handshake"
       /\ leader'.join = "none"
  BY Zenon, <1>1, <1>2 DEF LeaderType, Calls
<1>11. /\ client' \in ClientType /\ client'.hs = client.hs /\ client'.pc = "active"
       /\ client'.frames = client.frames /\ client'.task = client.task
  BY Zenon, <1>1, <1>2 DEF ClientType
<1>12. /\ follower' \in FollowerType /\ follower'.rl = s /\ follower'.state = "Ready"
       /\ follower'.join = "none" /\ follower'.have = follower.have
  BY Zenon, <1>1, <1>2 DEF FollowerType, Calls
<1>13. LeaderInv'
  <2>1. Phases'
    BY <1>3, <1>4, <1>10, <1>11 DEF Phases
  <2>2. Passed' = Passed /\ leader.state # "Error"
    BY <1>3, <1>11 DEF Passed
  <2>3. FramesInOrder'
    BY Zenon, <1>1, <1>2, <1>11, <2>2, KeepFrames
  <2>4. FinishedSeen'
    BY <1>3, <1>10, <1>11 DEF FinishedSeen
  <2> QED
    BY Zenon, <1>1, <1>2, <1>10, <1>11, <2>1, <2>3, <2>4 DEF LeaderInv
<1>14. FollowerInv(follower')
  BY <1>2, <1>12 DEF FollowerInv
<1>15. m \in Message /\ m.kind = "SetClientRandom"
  BY DEF Msg, Message, PlainKinds
<1>16. Told' = Told \cup Tells(m.kind)
  BY <1>3, <1>8, <1>10, <1>11, <1>15 DEF Told, Tells
<1>17. PositionOf(leader'.rl, Told') =
         Handled(m, PositionOf(r, Told), Len(r.sent_records), Len(r.recv_records))
  <2> DEFINE told == Told
             n == Len(r.sent_records)
             k == Len(r.recv_records)
  <2>1. m.kind \notin {"Encrypt", "Decrypt"} /\ r.encrypt_buffer = r.encrypt_buffer
        /\ r.decrypt_buffer = r.decrypt_buffer
    BY <1>15
  <2>2. PositionOf(r, told \cup Tells(m.kind)) = Handled(m, PositionOf(r, told), n, k)
    <3> HIDE DEF r, n, k, told, m
    <3> QED
      BY ONLY <2>1, PlainHandled
  <2> QED
    BY Zenon, <1>10, <1>16, <2>2
<1>18. Quiet(m, PositionOf(r, Told))
  BY <1>15 DEF Quiet
<1>19. SameBase(leader'.rl, leader.rl)
  BY Zenon, <1>10 DEF SameBase
<1>20. Synced' /\ chan' \in Seq(Message)
  <2>1. follower.have \in SUBSET Everything
    BY Zenon, <1>2 DEF FollowerType
  <2> HIDE DEF m
  <2> QED
    BY Zenon, <1>1, <1>2, <1>9, <1>10, <1>12, <1>15, <1>17, <1>18, <1>19, <2>1, SendStep
<1>21. Pairing'
  BY <1>10, <1>12 DEF Pairing
<1> QED
  BY Zenon, <1>13, <1>14, <1>20, <1>21 DEF Inv, FollowerInv

\* Every two-party computation keeps the invariant.
LEMMA JointSteps ==
    ASSUME HelpersSound, Inv, Joint
    PROVE  Inv'
  BY Zenon, JointPreprocessStep, JointSetupStep, JointCfVdStep, JointSfVdStep, JointFlushStep,
     JointCommitStep DEF Joint

=============================================================================
