------------------------------ MODULE Session ------------------------------
(***************************************************************************)
(* A session of one prover and one verifier: the calls an application      *)
(* makes on Prover and Verifier (commit, accept, reject, connect, run,     *)
(* prove, verify, close), the ordered stream (the Context) between the     *)
(* two, and the split session's driver and handle on each side.            *)
(*                                                                         *)
(* Every phase both parties execute together (setup, the TLS connection,   *)
(* the tag proof, the proof of a request) is a two-sided exchange: a party *)
(* posts its part and returns from the phase when it has taken the peer's. *)
(* One side can therefore be through while the other is still inside.      *)
(* MpcTls and Disclosure open up what happens within the phases.           *)
(***************************************************************************)
EXTENDS Naturals, Sequences

CONSTANT
    MaxProves       \* bound on the prover's calls of prove

ASSUME MaxProvesAssumption == MaxProves \in Nat

VARIABLES
    version,        \* do both sides run the same VERSION?
    trusted,        \* does the verifier's root store verify the server?
    prover,         \* [st, req]: the Prover and its pending call
    verifier,       \* [st, req]: the Verifier and its pending call
    calls,          \* calls of prove so far; the number of the pending one
    toV, toP,       \* messages under way on the stream, per receiver
    vm,             \* per party, the programs its VM was given, in order
    ok,             \* per party, the requests it returned an output for
    up,             \* is the transport below the session up?
    driver,         \* per side: [pc, woken, waker, polled, closing, told]
    handle          \* per side: [pc, shouldClose]

parties == <<version, trusted, prover, verifier, calls, toV, toP, vm, ok>>
drivers == <<driver, handle>>
vars == <<parties, up, drivers>>

Sides == {"prover", "verifier"}
Peer(s) == IF s = "prover" THEN "verifier" ELSE "prover"

\* A request, numbered by the call of prove that makes it. What matters here
\* is whether it asks for the server's identity, or for a commitment with a
\* hash algorithm that is not built in (on both sides: both run one build).
Needs == {"ordinary", "identity", "unsupported"}
Request(call, needs) == [call |-> call, needs |-> needs]
NoRequest == Request(0, "ordinary")

\* What the VMs are given in a phase, and what is posted for it.
Program(name, call) == [name |-> name, call |-> call]
Setup == Program("setup", 0)
Tls == Program("tls", 0)
Tags == Program("tags", 0)
Proof(r) == Program("proof", r.call)
Leftover(r) == Program("leftover", r.call)

-----------------------------------------------------------------------------
\* Messages of the stream.

CommitRequest == [kind |-> "commit", ok |-> version]
Response(b) == [kind |-> "response", ok |-> b]
ProveRequest(r) == [kind |-> "prove", req |-> r]
Part(program) == [kind |-> "part", program |-> program]

ProverGone == prover.st = "Gone"
VerifierGone == verifier.st = "Gone"

\* What is written while the transport is down, or to an end that is gone, is
\* lost.
PutV(msgs) == IF up /\ ~VerifierGone THEN toV \o msgs ELSE toV
PutP(msgs) == IF up /\ ~ProverGone THEN toP \o msgs ELSE toP

\* A dropped party takes its end of the stream, with what it has not read,
\* and its VM along (the verifier's programs are kept for OutputsAgree).
DropProver ==
    /\ prover' = [st |-> "Gone", req |-> NoRequest]
    /\ toP' = <<>>
    /\ vm' = [vm EXCEPT !["prover"] = <<>>]
DropVerifier ==
    /\ verifier' = [st |-> "Gone", req |-> NoRequest]
    /\ toV' = <<>>

\* The drivers move the messages; each has to have polled its connection.
Driven == \A s \in Sides : driver[s].polled

Kind(ch, k) == Driven /\ ch # <<>> /\ Head(ch).kind = k

IsPart(ch, program) == Kind(ch, "part") /\ Head(ch).program = program

\* expect_next fails: the peer's end is gone or the transport is down and
\* nothing is left to read, or the next message is not the expected one.
CannotTake(ch, peerGone, expected) ==
    \/ ch = <<>> /\ ((Driven /\ peerGone) \/ ~up)
    \/ ch # <<>> /\ Driven /\ ~expected

-----------------------------------------------------------------------------
\* The prover's calls.

\* Prover::commit up to the wait for the response.
ProverCommit ==
    /\ prover.st = "Initialized"
    /\ prover' = [prover EXCEPT !.st = "AwaitResponse"]
    /\ toV' = PutV(<<CommitRequest>>)
    /\ UNCHANGED <<version, trusted, calls, verifier, toP, vm, ok>>

\* The rest of commit: a rejection drops the prover, an acceptance starts
\* the setup of its dependencies.
ProverCommitResponse ==
    /\ prover.st = "AwaitResponse"
    /\ Kind(toP, "response")
    /\ IF Head(toP).ok
       THEN /\ prover' = [prover EXCEPT !.st = "Setup"]
            /\ toP' = Tail(toP)
            /\ toV' = PutV(<<Part(Setup)>>)
            /\ vm' = [vm EXCEPT !["prover"] = Append(@, Setup)]
       ELSE DropProver /\ UNCHANGED toV
    /\ UNCHANGED <<version, trusted, calls, verifier, ok>>

ProverSetupDone ==
    /\ prover.st = "Setup"
    /\ IsPart(toP, Setup)
    /\ toP' = Tail(toP)
    /\ prover' = [prover EXCEPT !.st = "CommitAccepted"]
    /\ UNCHANGED <<version, trusted, calls, verifier, toV, vm, ok>>

\* connect, and the future of the connected prover polled to the end of the
\* TLS connection.
ProverConnect ==
    /\ prover.st = "CommitAccepted"
    /\ prover' = [prover EXCEPT !.st = "Connected"]
    /\ toV' = PutV(<<Part(Tls)>>)
    /\ UNCHANGED <<version, trusted, calls, verifier, toP, vm, ok>>

\* ProverFuture goes from Connected to Finishing: finish() sets up the tag
\* proof and executes it.
ProverFinish ==
    /\ prover.st = "Connected"
    /\ IsPart(toP, Tls)
    /\ toP' = Tail(toP)
    /\ prover' = [prover EXCEPT !.st = "Finishing"]
    /\ toV' = PutV(<<Part(Tags)>>)
    /\ vm' = [vm EXCEPT !["prover"] = Append(@, Tags)]
    /\ UNCHANGED <<version, trusted, calls, verifier, ok>>

ProverCommitted ==
    /\ prover.st = "Finishing"
    /\ IsPart(toP, Tags)
    /\ toP' = Tail(toP)
    /\ prover' = [prover EXCEPT !.st = "Committed"]
    /\ UNCHANGED <<version, trusted, calls, verifier, toV, vm, ok>>

\* prove up to the wait for the verifier's response.
Prove(needs) ==
    /\ prover.st = "Committed"
    /\ calls < MaxProves
    /\ calls' = calls + 1
    /\ prover' = [st |-> "AwaitAnswer", req |-> Request(calls + 1, needs)]
    /\ toV' = PutV(<<ProveRequest(prover'.req)>>)
    /\ UNCHANGED <<version, trusted, verifier, toP, vm, ok>>

\* Mutant: the VM is given the proof before the answer is looked at.
ProveAnswerAllocFirst ==
    /\ prover.st = "AwaitAnswer"
    /\ Kind(toP, "response")
    /\ toP' = Tail(toP)
    /\ vm' = [vm EXCEPT !["prover"] = Append(@, Proof(prover.req))]
    /\ IF Head(toP).ok
       THEN /\ prover' = [prover EXCEPT !.st = "Proving"]
            /\ toV' = PutV(<<Part(Proof(prover.req))>>)
       ELSE /\ prover' = [prover EXCEPT !.st = "Committed"]
            /\ UNCHANGED toV
    /\ UNCHANGED <<version, trusted, calls, verifier, ok>>

\* The rest of prove. A rejection, like every later error, leaves the prover
\* committed. prove_hash refuses an algorithm that is not built in before
\* anything is executed; what was allocated until then stays in the VM.
ProveAnswer ==
    /\ prover.st = "AwaitAnswer"
    /\ Kind(toP, "response")
    /\ toP' = Tail(toP)
    /\ \/ /\ ~Head(toP).ok
          /\ prover' = [prover EXCEPT !.st = "Committed"]
          /\ UNCHANGED <<toV, vm>>
       \/ /\ Head(toP).ok
          /\ prover.req.needs = "unsupported"
          /\ prover' = [prover EXCEPT !.st = "Committed"]
          /\ vm' = [vm EXCEPT !["prover"] = Append(@, Leftover(prover.req))]
          /\ UNCHANGED toV
       \/ /\ Head(toP).ok
          /\ prover.req.needs # "unsupported"
          /\ prover' = [prover EXCEPT !.st = "Proving"]
          /\ vm' = [vm EXCEPT !["prover"] = Append(@, Proof(prover.req))]
          /\ toV' = PutV(<<Part(Proof(prover.req))>>)
    /\ UNCHANGED <<version, trusted, calls, verifier, ok>>

\* vm.execute_all returns and prove with it.
ProveDone ==
    /\ prover.st = "Proving"
    /\ IsPart(toP, Proof(prover.req))
    /\ toP' = Tail(toP)
    /\ prover' = [prover EXCEPT !.st = "Committed"]
    /\ ok' = [ok EXCEPT !["prover"] = Append(@, prover.req)]
    /\ UNCHANGED <<version, trusted, calls, verifier, toV, vm>>

\* An awaited call returns an error. All calls but prove consume the prover.
ProverCallFails ==
    /\ \/ /\ prover.st \in {"AwaitResponse", "AwaitAnswer"}
          /\ CannotTake(toP, VerifierGone, Kind(toP, "response"))
       \/ prover.st = "Setup" /\ CannotTake(toP, VerifierGone, IsPart(toP, Setup))
       \/ prover.st = "Connected" /\ CannotTake(toP, VerifierGone, IsPart(toP, Tls))
       \/ prover.st = "Finishing" /\ CannotTake(toP, VerifierGone, IsPart(toP, Tags))
       \/ prover.st = "Proving" /\ CannotTake(toP, VerifierGone, IsPart(toP, Proof(prover.req)))
    /\ IF prover.st \in {"AwaitAnswer", "Proving"}
       THEN prover' = [prover EXCEPT !.st = "Committed"] /\ UNCHANGED <<toP, vm>>
       ELSE DropProver
    /\ UNCHANGED <<version, trusted, calls, verifier, toV, ok>>

\* The application closes or drops the prover, or the task that owns it ends.
ProverDrop ==
    /\ ~ProverGone
    /\ DropProver
    /\ UNCHANGED <<version, trusted, calls, verifier, toV, ok>>

-----------------------------------------------------------------------------
\* The verifier's calls.

VerifierCommit ==
    /\ verifier.st = "Initialized"
    /\ verifier' = [verifier EXCEPT !.st = "AwaitCommit"]
    /\ UNCHANGED <<version, trusted, calls, prover, toV, toP, vm, ok>>

\* commit receives the request; another version is answered and given up.
VerifierCommitRequest ==
    /\ verifier.st = "AwaitCommit"
    /\ Kind(toV, "commit")
    /\ IF Head(toV).ok
       THEN /\ verifier' = [verifier EXCEPT !.st = "CommitStart"]
            /\ toV' = Tail(toV)
            /\ UNCHANGED toP
       ELSE DropVerifier /\ toP' = PutP(<<Response(FALSE)>>)
    /\ UNCHANGED <<version, trusted, calls, prover, vm, ok>>

\* Verifier<CommitStart>::accept sends the acceptance and sets up.
CommitAccept ==
    /\ verifier.st = "CommitStart"
    /\ verifier' = [verifier EXCEPT !.st = "Setup"]
    /\ toP' = PutP(<<Response(TRUE), Part(Setup)>>)
    /\ vm' = [vm EXCEPT !["verifier"] = Append(@, Setup)]
    /\ UNCHANGED <<version, trusted, calls, prover, toV, ok>>

\* Verifier<CommitStart>::reject.
CommitReject ==
    /\ verifier.st = "CommitStart"
    /\ DropVerifier
    /\ toP' = PutP(<<Response(FALSE)>>)
    /\ UNCHANGED <<version, trusted, calls, prover, vm, ok>>

VerifierSetupDone ==
    /\ verifier.st = "Setup"
    /\ IsPart(toV, Setup)
    /\ toV' = Tail(toV)
    /\ verifier' = [verifier EXCEPT !.st = "CommitAccepted"]
    /\ UNCHANGED <<version, trusted, calls, prover, toP, vm, ok>>

\* run: the TLS connection up to the finalized keys ...
Run ==
    /\ verifier.st = "CommitAccepted"
    /\ verifier' = [verifier EXCEPT !.st = "Running"]
    /\ toP' = PutP(<<Part(Tls)>>)
    /\ UNCHANGED <<version, trusted, calls, prover, toV, vm, ok>>

\* ... then the tag proof is set up and executed ...
RunVerifyTags ==
    /\ verifier.st = "Running"
    /\ IsPart(toV, Tls)
    /\ toV' = Tail(toV)
    /\ verifier' = [verifier EXCEPT !.st = "Tags"]
    /\ toP' = PutP(<<Part(Tags)>>)
    /\ vm' = [vm EXCEPT !["verifier"] = Append(@, Tags)]
    /\ UNCHANGED <<version, trusted, calls, prover, ok>>

\* ... and checked: the verifier is committed, or the proof is wrong.
RunDone ==
    /\ verifier.st = "Tags"
    /\ IsPart(toV, Tags)
    /\ \/ verifier' = [verifier EXCEPT !.st = "Committed"] /\ toV' = Tail(toV)
       \/ DropVerifier
    /\ UNCHANGED <<version, trusted, calls, prover, toP, vm, ok>>

Verify ==
    /\ verifier.st = "Committed"
    /\ verifier' = [verifier EXCEPT !.st = "AwaitProve"]
    /\ UNCHANGED <<version, trusted, calls, prover, toV, toP, vm, ok>>

VerifyRequest ==
    /\ verifier.st = "AwaitProve"
    /\ Kind(toV, "prove")
    /\ toV' = Tail(toV)
    /\ verifier' = [st |-> "Verify", req |-> Head(toV).req]
    /\ UNCHANGED <<version, trusted, calls, prover, toP, vm, ok>>

\* Mutant: the rejection is not sent.
VerifyRejectSilent ==
    /\ verifier.st = "Verify"
    /\ verifier' = [verifier EXCEPT !.st = "Committed"]
    /\ UNCHANGED <<version, trusted, calls, prover, toV, toP, vm, ok>>

\* Verifier<Verify>::reject: both sides stay committed.
VerifyReject ==
    /\ verifier.st = "Verify"
    /\ verifier' = [verifier EXCEPT !.st = "Committed"]
    /\ toP' = PutP(<<Response(FALSE)>>)
    /\ UNCHANGED <<version, trusted, calls, prover, toV, vm, ok>>

\* Verifier<Verify>::accept: the acceptance is sent before the server's
\* identity and the commitments are looked at, and an error drops the
\* verifier; otherwise the proof is executed.
VerifyAccept ==
    /\ verifier.st = "Verify"
    /\ \/ /\ verifier.req.needs = "identity" /\ ~trusted
          /\ DropVerifier
          /\ toP' = PutP(<<Response(TRUE)>>)
          /\ UNCHANGED vm
       \/ /\ verifier.req.needs = "identity" => trusted
          /\ verifier.req.needs = "unsupported"
          /\ DropVerifier
          /\ toP' = PutP(<<Response(TRUE)>>)
          /\ vm' = [vm EXCEPT !["verifier"] = Append(@, Leftover(verifier.req))]
       \/ /\ verifier.req.needs = "identity" => trusted
          /\ verifier.req.needs # "unsupported"
          /\ verifier' = [verifier EXCEPT !.st = "Verifying"]
          /\ UNCHANGED toV
          /\ toP' = PutP(<<Response(TRUE), Part(Proof(verifier.req))>>)
          /\ vm' = [vm EXCEPT !["verifier"] = Append(@, Proof(verifier.req))]
    /\ UNCHANGED <<version, trusted, calls, prover, ok>>

VerifyDone ==
    /\ verifier.st = "Verifying"
    /\ IsPart(toV, Proof(verifier.req))
    /\ toV' = Tail(toV)
    /\ verifier' = [verifier EXCEPT !.st = "Committed"]
    /\ ok' = [ok EXCEPT !["verifier"] = Append(@, verifier.req)]
    /\ UNCHANGED <<version, trusted, calls, prover, toP, vm>>

\* An awaited call returns an error; all of them consume the verifier.
VerifierCallFails ==
    /\ \/ verifier.st = "AwaitCommit" /\ CannotTake(toV, ProverGone, Kind(toV, "commit"))
       \/ verifier.st = "AwaitProve" /\ CannotTake(toV, ProverGone, Kind(toV, "prove"))
       \/ verifier.st = "Setup" /\ CannotTake(toV, ProverGone, IsPart(toV, Setup))
       \/ verifier.st = "Running" /\ CannotTake(toV, ProverGone, IsPart(toV, Tls))
       \/ verifier.st = "Tags" /\ CannotTake(toV, ProverGone, IsPart(toV, Tags))
       \/ verifier.st = "Verifying" /\ CannotTake(toV, ProverGone, IsPart(toV, Proof(verifier.req)))
    /\ DropVerifier
    /\ UNCHANGED <<version, trusted, calls, prover, toP, vm, ok>>

VerifierDrop ==
    /\ ~VerifierGone
    /\ DropVerifier
    /\ UNCHANGED <<version, trusted, calls, prover, toP, vm, ok>>

-----------------------------------------------------------------------------
\* The driver of each side, polled by its executor when woken, and its handle.

\* SessionDriver::poll, first step: store the waker.
StoreWaker(s) ==
    /\ driver[s].pc = "idle"
    /\ driver[s].woken
    /\ driver' = [driver EXCEPT ![s].pc = "stored", ![s].woken = FALSE, ![s].waker = TRUE]
    /\ UNCHANGED handle

\* Second step: read should_close and close the connection.
LoadShouldClose(s) ==
    /\ driver[s].pc = "stored"
    /\ driver' = [driver EXCEPT ![s].pc = "loaded", ![s].closing = handle[s].shouldClose]
    /\ UNCHANGED handle

\* Third step: poll the connection. With close_sync it completes when both
\* sides have closed; a side that closes tells the other, which is woken.
\* The driver then returns the transport, or an error if that is down.
PollConnection(s) ==
    LET d == driver[s]
        q == driver[Peer(s)]
    IN
    /\ d.pc = "loaded"
    /\ driver' =
         [driver EXCEPT
           ![s] = [d EXCEPT !.pc = IF ~up \/ (d.closing /\ q.told) THEN "done" ELSE "idle",
                            !.polled = TRUE,
                            !.told = @ \/ (up /\ d.closing)],
           ![Peer(s)] = [q EXCEPT !.woken = @ \/ (up /\ d.closing /\ ~d.told)]]
    /\ UNCHANGED handle

\* Mutant: should_close is read before the waker is stored.
DriverPollLoadFirst(s) ==
    \/ /\ driver[s].pc = "idle"
       /\ driver[s].woken
       /\ driver' = [driver EXCEPT ![s].pc = "stored", ![s].woken = FALSE,
                                   ![s].closing = handle[s].shouldClose]
       /\ UNCHANGED handle
    \/ /\ driver[s].pc = "stored"
       /\ driver' = [driver EXCEPT ![s].pc = "loaded", ![s].waker = TRUE]
       /\ UNCHANGED handle
    \/ PollConnection(s)

\* The steps of SessionDriver::poll.
DriverPoll(s) == StoreWaker(s) \/ LoadShouldClose(s) \/ PollConnection(s)

\* SessionHandle::close, called once the side's party is closed: the store,
\* then the wake-up.
StoreShouldClose(s) ==
    /\ handle[s].pc = "open"
    /\ IF s = "prover" THEN ProverGone ELSE VerifierGone
    /\ handle' = [handle EXCEPT ![s].pc = "stored", ![s].shouldClose = TRUE]
    /\ UNCHANGED driver

WakeDriver(s) ==
    /\ handle[s].pc = "stored"
    /\ handle' = [handle EXCEPT ![s].pc = "closed"]
    /\ driver' = [driver EXCEPT ![s].woken = @ \/ driver[s].waker, ![s].waker = FALSE]

\* The transport breaks: what was not delivered is lost, both drivers wake.
Break ==
    /\ up
    /\ up' = FALSE
    /\ \E n \in 0..Len(toV) : toV' = SubSeq(toV, 1, n)
    /\ \E n \in 0..Len(toP) : toP' = SubSeq(toP, 1, n)
    /\ driver' = [s \in Sides |-> [driver[s] EXCEPT !.woken = TRUE]]
    /\ UNCHANGED <<version, trusted, prover, verifier, calls, vm, ok, handle>>

-----------------------------------------------------------------------------
Init ==
    /\ version \in BOOLEAN
    /\ trusted \in BOOLEAN
    /\ prover = [st |-> "Initialized", req |-> NoRequest]
    /\ verifier = [st |-> "Initialized", req |-> NoRequest]
    /\ calls = 0
    /\ toV = <<>> /\ toP = <<>>
    /\ vm = [s \in Sides |-> <<>>]
    /\ ok = [s \in Sides |-> <<>>]
    /\ up = TRUE
    /\ driver = [s \in Sides |-> [pc |-> "idle", woken |-> TRUE, waker |-> FALSE,
                                  polled |-> FALSE, closing |-> FALSE, told |-> FALSE]]
    /\ handle = [s \in Sides |-> [pc |-> "open", shouldClose |-> FALSE]]

ProverNext ==
    \/ ProverCommit \/ ProverCommitResponse \/ ProverSetupDone
    \/ ProverConnect \/ ProverFinish \/ ProverCommitted
    \/ \E needs \in Needs : Prove(needs)
    \/ ProveAnswer \/ ProveDone
    \/ ProverCallFails \/ ProverDrop

VerifierNext ==
    \/ VerifierCommit \/ VerifierCommitRequest \/ CommitAccept \/ CommitReject
    \/ VerifierSetupDone \/ Run \/ RunVerifyTags \/ RunDone
    \/ Verify \/ VerifyRequest \/ VerifyReject \/ VerifyAccept \/ VerifyDone
    \/ VerifierCallFails \/ VerifierDrop

Next ==
    \/ (ProverNext \/ VerifierNext) /\ UNCHANGED <<up, drivers>>
    \/ \E s \in Sides : DriverPoll(s) /\ UNCHANGED <<parties, up>>
    \/ \E s \in Sides : StoreShouldClose(s) /\ UNCHANGED <<parties, up>>
    \/ \E s \in Sides : WakeDriver(s) /\ UNCHANGED <<parties, up>>
    \/ Break

\* Executors poll a woken driver to the end of the poll, and close, once
\* started, runs to its end. Nothing is assumed of the applications.
Fairness ==
    \A s \in Sides :
        /\ WF_vars(DriverPoll(s) /\ UNCHANGED <<parties, up>>)
        /\ WF_vars(WakeDriver(s) /\ UNCHANGED <<parties, up>>)

Spec == Init /\ [][Next]_vars /\ Fairness

-----------------------------------------------------------------------------
\* Waiting for a message the peer has to send.
ProverWaits == prover.st \in {"AwaitResponse", "Setup", "Connected", "Finishing",
                              "AwaitAnswer", "Proving"}
VerifierWaits == verifier.st \in {"AwaitCommit", "Setup", "Running", "Tags",
                                  "AwaitProve", "Verifying"}

\* The two VMs execute one program together, so they must have been given the
\* same program whenever both parties are between calls: whatever was
\* accepted, rejected or failed before, prove.rs and verify.rs have then
\* allocated for exactly the same requests, in the same order.
VmInSync ==
    prover.st = "Committed" /\ verifier.st = "Committed" /\ toV = <<>> /\ toP = <<>>
        => vm["prover"] = vm["verifier"]

\* The request one side has returned an output for and the other has not yet.
Ahead(a, b) == {r \in {a[i] : i \in 1..Len(a)} : a = Append(b, r)}

\* An output of one side is matched by the other: a proof the prover returns
\* success for is one the verifier has returned an output for or is just
\* finishing, request for request and in order, and the other way round (a
\* broken transport can keep the last answer from the prover). In
\* particular prove never succeeds for a request the verifier rejected, or
\* whose server identity it did not accept.
OutputsAgree ==
    LET p == ok["prover"]
        v == ok["verifier"]
    IN  \/ p = v
        \/ \E r \in Ahead(p, v) :
             /\ vm["verifier"] # <<>> /\ vm["verifier"][Len(vm["verifier"])] = Proof(r)
             /\ verifier.st \in {"Verifying", "Gone"}
        \/ \E r \in Ahead(v, p) :
             up => \/ prover.st = "Proving" /\ prover.req = r
                   \/ ProverGone

\* Whatever is accepted, rejected or fails, the two sides agree on the requests:
\* on those their VMs were given (prove.rs, verify.rs) and on those they
\* returned an output for (Prover::prove, VerifierVerify::accept).
RequestsAgree == VmInSync /\ OutputsAgree

\* The parties never wait for each other with nothing under way: every error
\* path of accept, reject and commit either answers the peer or drops the
\* stream, which ends the peer's wait.
NoMutualWait ==
    ~(up /\ ProverWaits /\ VerifierWaits /\ toV = <<>> /\ toP = <<>>)

\* A driver in the middle of a poll, or that its executor is going to poll.
Runs(d) == d.pc \in {"stored", "loaded"} \/ (d.pc = "idle" /\ d.woken)

\* As long as both sides have closed and a driver is not done, one of them still
\* runs: no wake-up is lost between the two steps of SessionHandle::close and the
\* three of SessionDriver::poll.
NoMissedClose ==
    (\A s \in Sides : handle[s].pc = "closed") =>
        \/ \A s \in Sides : driver[s].pc = "done"
        \/ \E s \in Sides : Runs(driver[s])

\* Nobody waits for an event that is not under way: not the calls of the two
\* parties for each other, not the drivers for their handles (tlsn/src/prover.rs,
\* verifier.rs and session.rs).
NobodyStuck == NoMutualWait /\ NoMissedClose

\* When both sides have called SessionHandle::close, both drivers complete:
\* a close between the driver's steps is never missed, because poll stores
\* the waker before it reads should_close.
CloseCompletes ==
    (\A s \in Sides : handle[s].pc = "closed") ~> (\A s \in Sides : driver[s].pc = "done")
=============================================================================
