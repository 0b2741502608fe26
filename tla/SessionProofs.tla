--------------------------- MODULE SessionProofs ---------------------------
(***************************************************************************)
(* Proofs about Session, for any number of calls of prove: nobody waits    *)
(* for what is not under way, neither the calls of prover and verifier for *)
(* each other nor the two drivers for their handles.                       *)
(***************************************************************************)
EXTENDS Session, SequenceTheorems, TLAPS

-----------------------------------------------------------------------------
(* The two parties *)

\* The queues of the stream hold at most two messages.
Empty == <<>>
One(m) == <<m>>
Two(m, n) == <<m, n>>

\* The prover in a state of P, the verifier in one of V, and what is under way.
At(P, V, a, b) == prover.st \in P /\ verifier.st \in V /\ toV = a /\ toP = b

Idle == {"Committed", "AwaitProve"}

\* Where two parties are that are both there, as long as the transport is up: up to
\* the verifier's acceptance ...
Starting ==
    \/ At({"Initialized"}, {"Initialized", "AwaitCommit"}, Empty, Empty)
    \/ At({"AwaitResponse"}, {"Initialized", "AwaitCommit"}, One(CommitRequest), Empty)
    \/ At({"AwaitResponse"}, {"CommitStart"}, Empty, Empty)
    \/ At({"AwaitResponse"}, {"Setup"}, Empty, Two(Response(TRUE), Part(Setup)))

\* ... through the setup to the TLS connection ...
SettingUp ==
    \/ At({"Setup"}, {"Setup"}, One(Part(Setup)), One(Part(Setup)))
    \/ At({"Setup"}, {"CommitAccepted"}, Empty, One(Part(Setup)))
    \/ At({"Setup"}, {"Running"}, Empty, Two(Part(Setup), Part(Tls)))
    \/ At({"CommitAccepted"}, {"Setup"}, One(Part(Setup)), Empty)
    \/ At({"CommitAccepted"}, {"CommitAccepted"}, Empty, Empty)
    \/ At({"CommitAccepted"}, {"Running"}, Empty, One(Part(Tls)))
    \/ At({"Connected"}, {"Setup"}, Two(Part(Setup), Part(Tls)), Empty)
    \/ At({"Connected"}, {"CommitAccepted"}, One(Part(Tls)), Empty)
    \/ At({"Connected"}, {"Running"}, One(Part(Tls)), One(Part(Tls)))

\* ... through the tag proof, of which the prover may be through and ask for the
\* next proof already ...
Finishing ==
    \/ At({"Connected"}, {"Tags"}, Empty, Two(Part(Tls), Part(Tags)))
    \/ At({"Finishing"}, {"Running"}, Two(Part(Tls), Part(Tags)), Empty)
    \/ At({"Finishing"}, {"Tags"}, One(Part(Tags)), One(Part(Tags)))
    \/ At({"Finishing"}, Idle, Empty, One(Part(Tags)))
    \/ At({"Committed"}, {"Tags"}, One(Part(Tags)), Empty)
    \/ At({"AwaitAnswer"}, {"Tags"}, Two(Part(Tags), ProveRequest(prover.req)), Empty)

\* ... from a request to its answer ...
Answering ==
    \/ At({"Committed"}, Idle, Empty, Empty)
    \/ At({"AwaitAnswer"}, Idle, One(ProveRequest(prover.req)), Empty)
    \/ At({"AwaitAnswer"}, {"Verify"}, Empty, Empty) /\ verifier.req = prover.req
    \/ At({"AwaitAnswer"}, Idle, Empty, One(Response(FALSE)))

\* ... and through the proof of a request, which the prover may again have left.
Proved ==
    \/ /\ At({"AwaitAnswer"}, {"Verifying"}, Empty, Two(Response(TRUE), Part(Proof(prover.req))))
       /\ verifier.req = prover.req
       /\ prover.req.needs # "unsupported"
    \/ /\ At({"Proving"}, {"Verifying"}, One(Part(Proof(prover.req))), One(Part(Proof(prover.req))))
       /\ verifier.req = prover.req
    \/ At({"Proving"}, Idle, Empty, One(Part(Proof(prover.req))))
    \/ At({"Committed"}, {"Verifying"}, One(Part(Proof(verifier.req))), Empty)
    \/ At({"AwaitAnswer"}, {"Verifying"},
          Two(Part(Proof(verifier.req)), ProveRequest(prover.req)), Empty)

\* The shape of a party.
IsParty(x) == x = [st |-> x.st, req |-> x.req]

Live == Starting \/ SettingUp \/ Finishing \/ Answering \/ Proved

\* The inductive invariant of the parties' calls.
PartiesInv ==
    /\ IsParty(prover) /\ IsParty(verifier)
    /\ up /\ prover.st # "Gone" /\ verifier.st # "Gone" => Live

LEMMA OneAndOne ==
    ASSUME NEW a, NEW b
    PROVE  <<a>> \o <<b>> = <<a, b>>
<1> DEFINE S == {a, b}
<1>1. <<a>> \in Seq(S) /\ <<b>> \in Seq(S) /\ <<a, b>> \in Seq(S)
  OBVIOUS
<1>2. <<a>> \o <<b>> \in Seq(S) /\ Len(<<a>> \o <<b>>) = 2
  BY <1>1, ConcatProperties
<1>3. \A i \in 1..2 : (<<a>> \o <<b>>)[i] = <<a, b>>[i]
  BY <1>1, ConcatProperties
<1> QED
  BY Zenon, <1>1, <1>2, <1>3, SeqEqual

\* The queues as far as the actions look into them.
LEMMA Queues ==
    /\ \A m : Head(One(m)) = m /\ Tail(One(m)) = Empty /\ One(m) # Empty
    /\ \A m, n : Head(Two(m, n)) = m /\ Tail(Two(m, n)) = One(n) /\ Two(m, n) # Empty
    /\ \A m : Empty \o One(m) = One(m)
    /\ \A m, n : Empty \o Two(m, n) = Two(m, n)
    /\ \A m, n : One(m) \o One(n) = Two(m, n)
<1>1. ASSUME NEW m PROVE Head(One(m)) = m /\ Tail(One(m)) = Empty /\ One(m) # Empty
  BY DEF One, Empty
<1>2. ASSUME NEW m, NEW n
      PROVE  Head(Two(m, n)) = m /\ Tail(Two(m, n)) = One(n) /\ Two(m, n) # Empty
  BY DEF One, Two, Empty
<1>3. ASSUME NEW m PROVE Empty \o One(m) = One(m)
  BY DEF One, Empty
<1>4. ASSUME NEW m, NEW n PROVE Empty \o Two(m, n) = Two(m, n)
  BY DEF Two, Empty
<1>5. ASSUME NEW m, NEW n PROVE One(m) \o One(n) = Two(m, n)
  BY OneAndOne, Zenon DEF One, Two
<1> QED
  BY <1>1, <1>2, <1>3, <1>4, <1>5, Zenon

\* The fields of the messages.
LEMMA Messages ==
    /\ CommitRequest.kind = "commit"
    /\ \A b : Response(b).kind = "response" /\ Response(b).ok = b
    /\ \A r : ProveRequest(r).kind = "prove" /\ ProveRequest(r).req = r
    /\ \A x : Part(x).kind = "part" /\ Part(x).program = x
BY DEF CommitRequest, Response, ProveRequest, Part

\* A step of the prover that neither ends it nor finds the verifier gone.
LEMMA ProverLive ==
    ASSUME IsParty(prover), up, verifier.st # "Gone", Live, ProverNext, prover'.st # "Gone"
    PROVE  Live'
<1> USE DEF At
<1>0. verifier' = verifier /\ version' = version
  BY Zenon DEF ProverNext, ProverCommit, ProverCommitResponse, ProverSetupDone, ProverConnect,
     ProverFinish, ProverCommitted, Prove, ProveAnswer, ProveDone, ProverCallFails, ProverDrop
<1>1. CASE ProverCommit
  <2>1. prover'.st = "AwaitResponse" /\ toV' = toV \o One(CommitRequest) /\ toP' = toP
    BY <1>1 DEF ProverCommit, PutV, VerifierGone, One, IsParty
  <2>2. toV = Empty /\ toP = Empty /\ verifier.st \in {"Initialized", "AwaitCommit"}
    BY <1>1 DEF ProverCommit, Live, Starting, SettingUp, Finishing, Answering, Proved
  <2>3. Starting'
    BY <1>0, <2>1, <2>2, Queues, Zenon DEF Starting, CommitRequest
  <2> QED
    BY <2>3 DEF Live
<1>2. CASE ProverCommitResponse
  <2>1. prover'.st = "Setup" /\ toV' = toV \o One(Part(Setup)) /\ toP' = Tail(toP)
    BY <1>2 DEF ProverCommitResponse, DropProver, PutV, VerifierGone, One, IsParty
  <2>2. verifier.st = "Setup" /\ toV = Empty /\ toP = Two(Response(TRUE), Part(Setup))
    <3>1. toP # Empty
      BY <1>2 DEF ProverCommitResponse, Kind, Empty
    <3> QED
      BY Zenon, <1>2, <3>1 DEF ProverCommitResponse, Live, Starting, SettingUp, Finishing, Answering, Proved
  <2>3. SettingUp'
    BY ZenonT(60), <1>0, <2>1, <2>2, Queues DEF SettingUp
  <2> QED
    BY <2>3 DEF Live
<1>3. CASE ProverSetupDone
  <2>1. prover'.st = "CommitAccepted" /\ toV' = toV /\ toP' = Tail(toP)
    BY <1>3 DEF ProverSetupDone, IsParty
  <2>2. SettingUp /\ prover.st = "Setup"
    BY <1>3 DEF ProverSetupDone, Live, Starting, SettingUp, Finishing, Answering, Proved
  <2>3. SettingUp'
    BY <1>0, <2>1, <2>2, Queues DEF SettingUp
  <2> QED
    BY <2>3 DEF Live
<1>4. CASE ProverConnect
  <2>1. prover'.st = "Connected" /\ toV' = toV \o One(Part(Tls)) /\ toP' = toP
    BY <1>4 DEF ProverConnect, PutV, VerifierGone, One, IsParty
  <2>2. SettingUp /\ prover.st = "CommitAccepted"
    BY <1>4 DEF ProverConnect, Live, Starting, SettingUp, Finishing, Answering, Proved
  <2>3. SettingUp'
    BY ZenonT(60), <1>0, <2>1, <2>2, Queues DEF SettingUp
  <2> QED
    BY <2>3 DEF Live
<1>5. CASE ProverFinish
  <2>1. prover'.st = "Finishing" /\ toV' = toV \o One(Part(Tags)) /\ toP' = Tail(toP)
    BY <1>5 DEF ProverFinish, PutV, VerifierGone, One, IsParty
  <2>2. \/ verifier.st = "Running" /\ toV = One(Part(Tls)) /\ toP = One(Part(Tls))
        \/ verifier.st = "Tags" /\ toV = Empty /\ toP = Two(Part(Tls), Part(Tags))
    <3>1. toP # Empty
      BY <1>5 DEF ProverFinish, IsPart, Kind, Empty
    <3> QED
      BY <1>5, <3>1 DEF ProverFinish, Live, Starting, SettingUp, Finishing, Answering, Proved
  <2>3. Finishing'
    BY ZenonT(60), <1>0, <2>1, <2>2, Queues DEF Finishing
  <2> QED
    BY <2>3 DEF Live
<1>6. CASE ProverCommitted
  <2>1. prover'.st = "Committed" /\ toV' = toV /\ toP' = Tail(toP)
    BY <1>6 DEF ProverCommitted, IsParty
  <2>2. \/ verifier.st = "Tags" /\ toV = One(Part(Tags)) /\ toP = One(Part(Tags))
        \/ verifier.st \in Idle /\ toV = Empty /\ toP = One(Part(Tags))
    <3>1. toP # Empty
      BY <1>6 DEF ProverCommitted, IsPart, Kind, Empty
    <3> QED
      BY <1>6, <3>1 DEF ProverCommitted, Live, Starting, SettingUp, Finishing, Answering, Proved
  <2>3. Finishing' \/ Answering'
    BY <1>0, <2>1, <2>2, Queues DEF Finishing, Answering
  <2> QED
    BY <2>3 DEF Live
<1>7. ASSUME NEW needs \in Needs, Prove(needs) PROVE Live'
  <2>1. prover'.st = "AwaitAnswer" /\ toV' = toV \o One(ProveRequest(prover'.req)) /\ toP' = toP
    BY <1>7 DEF Prove, PutV, VerifierGone, One
  <2>2. \/ verifier.st = "Tags" /\ toV = One(Part(Tags)) /\ toP = Empty
        \/ verifier.st \in Idle /\ toV = Empty /\ toP = Empty
        \/ verifier.st = "Verifying" /\ toV = One(Part(Proof(verifier.req))) /\ toP = Empty
    BY <1>7 DEF Prove, Live, Starting, SettingUp, Finishing, Answering, Proved
  <2>3. Finishing' \/ Answering' \/ Proved'
    <3>1. CASE verifier.st = "Tags" /\ toV = One(Part(Tags)) /\ toP = Empty
      BY Zenon, <1>0, <2>1, <3>1, Queues DEF Finishing
    <3>2. CASE verifier.st \in Idle /\ toV = Empty /\ toP = Empty
      BY Zenon, <1>0, <2>1, <3>2, Queues DEF Answering
    <3>3. CASE verifier.st = "Verifying" /\ toV = One(Part(Proof(verifier.req))) /\ toP = Empty
      BY Zenon, <1>0, <2>1, <3>3, Queues DEF Proved
    <3> QED
      BY Zenon, <2>2, <3>1, <3>2, <3>3
  <2> QED
    BY <2>3 DEF Live
<1>8. CASE ProveAnswer
  <2>1. \/ /\ verifier.st \in Idle /\ toV = Empty /\ toP = One(Response(FALSE))
        \/ /\ verifier.st = "Verifying" /\ verifier.req = prover.req
           /\ toV = Empty /\ toP = Two(Response(TRUE), Part(Proof(prover.req)))
           /\ prover.req.needs # "unsupported"
    <3>1. prover.st = "AwaitAnswer" /\ toP # Empty
      BY Zenon, <1>8 DEF ProveAnswer, Kind, Empty
    <3> QED
      BY Zenon, <3>1 DEF Live, Starting, SettingUp, Finishing, Answering, Proved
  <2>2. CASE toP = One(Response(FALSE)) /\ verifier.st \in Idle /\ toV = Empty
    <3>1. prover'.st = "Committed" /\ toV' = toV /\ toP' = Tail(toP)
      <4>1. ~Head(toP).ok
        <5>1. Head(toP) = Response(FALSE)
          BY Zenon, <2>2, Queues
        <5> QED
          BY Zenon, <5>1, Messages
      <4> QED
        BY Zenon, <1>8, <4>1 DEF ProveAnswer, IsParty
    <3>2. Answering'
      BY Zenon, <1>0, <2>2, <3>1, Queues DEF Answering
    <3> QED
      BY <3>2 DEF Live
  <2>3. CASE /\ toP = Two(Response(TRUE), Part(Proof(prover.req)))
             /\ verifier.st = "Verifying" /\ verifier.req = prover.req
             /\ toV = Empty /\ prover.req.needs # "unsupported"
    <3>1. /\ prover'.st = "Proving" /\ prover'.req = prover.req
          /\ toV' = toV \o One(Part(Proof(prover.req))) /\ toP' = Tail(toP)
      <4>1. Head(toP).ok
        <5>1. Head(toP) = Response(TRUE)
          BY Zenon, <2>3, Queues
        <5> QED
          BY Zenon, <5>1, Messages
      <4>2. /\ prover' = [prover EXCEPT !.st = "Proving"] /\ toP' = Tail(toP)
            /\ toV' = PutV(<<Part(Proof(prover.req))>>)
        BY Zenon, <1>8, <2>3, <4>1 DEF ProveAnswer
      <4> QED
        BY Zenon, <4>2 DEF PutV, VerifierGone, One, IsParty
    <3>2. Proved'
      BY Zenon, <1>0, <2>3, <3>1, Queues DEF Proved
    <3> QED
      BY <3>2 DEF Live
  <2> QED
    BY Zenon, <2>1, <2>2, <2>3
<1>9. CASE ProveDone
  <2>1. prover'.st = "Committed" /\ toV' = toV /\ toP' = Tail(toP)
    BY <1>9 DEF ProveDone, IsParty
  <2>2. /\ toP = One(Part(Proof(prover.req)))
        /\ \/ verifier.st = "Verifying" /\ toV = One(Part(Proof(verifier.req)))
           \/ verifier.st \in Idle /\ toV = Empty
    BY <1>9 DEF ProveDone, Live, Starting, SettingUp, Finishing, Answering, Proved
  <2>3. Answering' \/ Proved'
    BY <1>0, <2>1, <2>2, Queues DEF Answering, Proved
  <2> QED
    BY <2>3 DEF Live
<1>10. CASE ProverCallFails
  <2>1. /\ prover.st \in {"AwaitAnswer", "Proving"}
        /\ prover.st = "AwaitAnswer" => toP # Empty /\ Driven /\ ~Kind(toP, "response")
        /\ prover.st = "Proving" => /\ ~IsPart(toP, Proof(prover.req))
                                    /\ toP # Empty => Driven
    <3>1. prover.st \in {"AwaitAnswer", "Proving"}
      <4>1. prover.st \in {"AwaitAnswer", "Proving"} \/ DropProver
        BY Zenon, <1>10 DEF ProverCallFails
      <4> QED
        BY <4>1 DEF DropProver
    <3>2. CASE prover.st = "AwaitAnswer"
      BY <1>10, <3>2 DEF ProverCallFails, CannotTake, VerifierGone, Empty
    <3>3. CASE prover.st = "Proving"
      BY <1>10, <3>3 DEF ProverCallFails, CannotTake, VerifierGone, Empty
    <3> QED
      BY Zenon, <3>1, <3>2, <3>3
  <2>2. CASE prover.st = "AwaitAnswer"
    <3>1. \E b, x : toP \in {One(Response(b)), Two(Response(b), x)}
      BY Zenon, <2>1, <2>2 DEF Live, Starting, SettingUp, Finishing, Answering, Proved
    <3> QED
      BY <2>1, <2>2, <3>1, Queues, Messages DEF Kind, Empty
  <2>3. CASE prover.st = "Proving"
    <3>1. toP = One(Part(Proof(prover.req)))
      BY Zenon, <2>3 DEF Live, Starting, SettingUp, Finishing, Answering, Proved
    <3> QED
      BY <2>1, <2>3, <3>1, Queues, Messages DEF IsPart, Kind, Empty
  <2> QED
    BY Zenon, <2>1, <2>2, <2>3
<1>11. CASE ProverDrop
  BY <1>11 DEF ProverDrop, DropProver
<1> QED
  BY <1>1, <1>2, <1>3, <1>4, <1>5, <1>6, <1>7, <1>8, <1>9, <1>10, <1>11 DEF ProverNext

\* A step of the verifier that neither ends it nor finds the prover gone.
LEMMA VerifierLive ==
    ASSUME IsParty(verifier), up, prover.st # "Gone", Live, VerifierNext, verifier'.st # "Gone"
    PROVE  Live'
<1> USE DEF At
<1>0. prover' = prover /\ version' = version
  BY Zenon DEF VerifierNext, VerifierCommit, VerifierCommitRequest, CommitAccept, CommitReject,
     VerifierSetupDone, Run, RunVerifyTags, RunDone, Verify, VerifyRequest, VerifyReject,
     VerifyAccept, VerifyDone, VerifierCallFails, VerifierDrop
<1>1. CASE VerifierCommit
  <2>1. verifier'.st = "AwaitCommit" /\ toV' = toV /\ toP' = toP
    BY <1>1 DEF VerifierCommit, IsParty
  <2>2. \/ prover.st = "Initialized" /\ toV = Empty /\ toP = Empty
        \/ prover.st = "AwaitResponse" /\ toV = One(CommitRequest) /\ toP = Empty
    BY Zenon, <1>1 DEF VerifierCommit, Live, Starting, SettingUp, Finishing, Answering, Proved, Idle
  <2>3. Starting'
    BY Zenon, <1>0, <2>1, <2>2 DEF Starting, CommitRequest
  <2> QED
    BY <2>3 DEF Live
<1>2. CASE VerifierCommitRequest
  <2>1. verifier'.st = "CommitStart" /\ toV' = Tail(toV) /\ toP' = toP
    BY <1>2 DEF VerifierCommitRequest, DropVerifier, IsParty
  <2>2. prover.st = "AwaitResponse" /\ toV = One(CommitRequest) /\ toP = Empty
    <3>1. verifier.st = "AwaitCommit" /\ toV # Empty
      BY <1>2 DEF VerifierCommitRequest, Kind, Empty
    <3> QED
      BY Zenon, <3>1 DEF Live, Starting, SettingUp, Finishing, Answering, Proved, Idle
  <2>3. Starting'
    BY ZenonT(60), <1>0, <2>1, <2>2, Queues DEF Starting
  <2> QED
    BY <2>3 DEF Live
<1>3. CASE CommitAccept
  <2>1. verifier'.st = "Setup" /\ toV' = toV /\ toP' = toP \o Two(Response(TRUE), Part(Setup))
    BY <1>3 DEF CommitAccept, PutP, ProverGone, Two, IsParty
  <2>2. prover.st = "AwaitResponse" /\ toV = Empty /\ toP = Empty
    BY Zenon, <1>3 DEF CommitAccept, Live, Starting, SettingUp, Finishing, Answering, Proved, Idle
  <2>3. Starting'
    BY ZenonT(60), <1>0, <2>1, <2>2, Queues DEF Starting
  <2> QED
    BY <2>3 DEF Live
<1>4. CASE CommitReject
  BY <1>4 DEF CommitReject, DropVerifier
<1>5. CASE VerifierSetupDone
  <2>1. verifier'.st = "CommitAccepted" /\ toV' = Tail(toV) /\ toP' = toP
    BY <1>5 DEF VerifierSetupDone, IsParty
  <2>2. \/ prover.st = "Setup" /\ toV = One(Part(Setup)) /\ toP = One(Part(Setup))
        \/ prover.st = "CommitAccepted" /\ toV = One(Part(Setup)) /\ toP = Empty
        \/ prover.st = "Connected" /\ toV = Two(Part(Setup), Part(Tls)) /\ toP = Empty
    <3>1. verifier.st = "Setup" /\ toV # Empty
      BY <1>5 DEF VerifierSetupDone, IsPart, Kind, Empty
    <3> QED
      BY Zenon, <3>1 DEF Live, Starting, SettingUp, Finishing, Answering, Proved, Idle
  <2>3. SettingUp'
    BY ZenonT(60), <1>0, <2>1, <2>2, Queues DEF SettingUp
  <2> QED
    BY <2>3 DEF Live
<1>6. CASE Run
  <2>1. verifier'.st = "Running" /\ toV' = toV /\ toP' = toP \o One(Part(Tls))
    BY <1>6 DEF Run, PutP, ProverGone, One, IsParty
  <2>2. \/ prover.st = "Setup" /\ toV = Empty /\ toP = One(Part(Setup))
        \/ prover.st = "CommitAccepted" /\ toV = Empty /\ toP = Empty
        \/ prover.st = "Connected" /\ toV = One(Part(Tls)) /\ toP = Empty
    BY Zenon, <1>6 DEF Run, Live, Starting, SettingUp, Finishing, Answering, Proved, Idle
  <2>3. SettingUp'
    BY ZenonT(60), <1>0, <2>1, <2>2, Queues DEF SettingUp
  <2> QED
    BY <2>3 DEF Live
<1>7. CASE RunVerifyTags
  <2>1. verifier'.st = "Tags" /\ toV' = Tail(toV) /\ toP' = toP \o One(Part(Tags))
    BY <1>7 DEF RunVerifyTags, PutP, ProverGone, One, IsParty
  <2>2. \/ prover.st = "Connected" /\ toV = One(Part(Tls)) /\ toP = One(Part(Tls))
        \/ prover.st = "Finishing" /\ toV = Two(Part(Tls), Part(Tags)) /\ toP = Empty
    <3>1. verifier.st = "Running" /\ toV # Empty
      BY <1>7 DEF RunVerifyTags, IsPart, Kind, Empty
    <3> QED
      BY Zenon, <3>1 DEF Live, Starting, SettingUp, Finishing, Answering, Proved, Idle
  <2>3. Finishing'
    BY ZenonT(60), <1>0, <2>1, <2>2, Queues DEF Finishing
  <2> QED
    BY <2>3 DEF Live
<1>8. CASE RunDone
  <2>1. verifier'.st \in Idle /\ toV' = Tail(toV) /\ toP' = toP
    BY <1>8 DEF RunDone, DropVerifier, IsParty, Idle
  <2>2. \/ prover.st = "Finishing" /\ toV = One(Part(Tags)) /\ toP = One(Part(Tags))
        \/ prover.st = "Committed" /\ toV = One(Part(Tags)) /\ toP = Empty
        \/ /\ prover.st = "AwaitAnswer" /\ toP = Empty
           /\ toV = Two(Part(Tags), ProveRequest(prover.req))
    <3>1. verifier.st = "Tags" /\ toV # Empty
      BY <1>8 DEF RunDone, IsPart, Kind, Empty
    <3> QED
      BY Zenon, <3>1 DEF Live, Starting, SettingUp, Finishing, Answering, Proved, Idle
  <2>3. Finishing' \/ Answering'
    <3>1. CASE prover.st = "Finishing" /\ toV = One(Part(Tags)) /\ toP = One(Part(Tags))
      BY Zenon, <1>0, <2>1, <3>1, Queues DEF Finishing
    <3>2. CASE prover.st = "Committed" /\ toV = One(Part(Tags)) /\ toP = Empty
      BY Zenon, <1>0, <2>1, <3>2, Queues DEF Answering
    <3>3. CASE /\ prover.st = "AwaitAnswer" /\ toP = Empty
               /\ toV = Two(Part(Tags), ProveRequest(prover.req))
      BY Zenon, <1>0, <2>1, <3>3, Queues DEF Answering
    <3> QED
      BY Zenon, <2>2, <3>1, <3>2, <3>3
  <2> QED
    BY <2>3 DEF Live
<1>9. CASE Verify
  <2>1. verifier'.st \in Idle /\ toV' = toV /\ toP' = toP
    BY <1>9 DEF Verify, IsParty, Idle
  <2>2. \/ prover.st = "Finishing" /\ toV = Empty /\ toP = One(Part(Tags))
        \/ prover.st = "Committed" /\ toV = Empty /\ toP = Empty
        \/ prover.st = "AwaitAnswer" /\ toV = One(ProveRequest(prover.req)) /\ toP = Empty
        \/ prover.st = "AwaitAnswer" /\ toV = Empty /\ toP = One(Response(FALSE))
        \/ prover.st = "Proving" /\ toV = Empty /\ toP = One(Part(Proof(prover.req)))
    BY Zenon, <1>9 DEF Verify, Live, Starting, SettingUp, Finishing, Answering, Proved, Idle
  <2>3. Finishing' \/ Answering' \/ Proved'
    BY Zenon, <1>0, <2>1, <2>2 DEF Finishing, Answering, Proved
  <2> QED
    BY <2>3 DEF Live
<1>10. CASE VerifyRequest
  <2>1. verifier'.st = "Verify" /\ verifier'.req = Head(toV).req /\ toV' = Tail(toV) /\ toP' = toP
    BY <1>10 DEF VerifyRequest
  <2>2. prover.st = "AwaitAnswer" /\ toV = One(ProveRequest(prover.req)) /\ toP = Empty
    <3>1. verifier.st = "AwaitProve" /\ toV # Empty
      BY <1>10 DEF VerifyRequest, Kind, Empty
    <3> QED
      BY Zenon, <3>1 DEF Live, Starting, SettingUp, Finishing, Answering, Proved, Idle
  <2>3. toV' = Empty /\ verifier'.req = prover.req
    <3>1. Tail(toV) = Empty /\ Head(toV) = ProveRequest(prover.req)
      BY Zenon, <2>2, Queues
    <3> QED
      BY Zenon, <2>1, <3>1, Messages
  <2>4. Answering'
    BY Zenon, <1>0, <2>1, <2>2, <2>3 DEF Answering
  <2> QED
    BY <2>4 DEF Live
<1>11. CASE VerifyReject
  <2>1. verifier'.st \in Idle /\ toV' = toV /\ toP' = toP \o One(Response(FALSE))
    BY <1>11 DEF VerifyReject, PutP, ProverGone, One, IsParty, Idle
  <2>2. prover.st = "AwaitAnswer" /\ toV = Empty /\ toP = Empty
    BY Zenon, <1>11 DEF VerifyReject, Live, Starting, SettingUp, Finishing, Answering, Proved, Idle
  <2>3. Answering'
    BY ZenonT(60), <1>0, <2>1, <2>2, Queues DEF Answering
  <2> QED
    BY <2>3 DEF Live
<1>12. CASE VerifyAccept
  <2>1. /\ verifier'.st = "Verifying" /\ verifier'.req = verifier.req
        /\ toV' = toV /\ toP' = toP \o Two(Response(TRUE), Part(Proof(verifier.req)))
        /\ verifier.req.needs # "unsupported"
    <3>1. /\ verifier' = [verifier EXCEPT !.st = "Verifying"] /\ toV' = toV
          /\ toP' = PutP(<<Response(TRUE), Part(Proof(verifier.req))>>)
          /\ verifier.req.needs # "unsupported"
      <4>1. ~DropVerifier
        BY DEF DropVerifier
      <4> QED
        BY Zenon, <1>12, <4>1 DEF VerifyAccept
    <3>2. verifier'.st = "Verifying" /\ verifier'.req = verifier.req
      BY <3>1 DEF IsParty
    <3>3. toP' = toP \o Two(Response(TRUE), Part(Proof(verifier.req)))
      BY Zenon, <3>1 DEF PutP, ProverGone, Two
    <3> QED
      BY Zenon, <3>1, <3>2, <3>3
  <2>2. /\ prover.st = "AwaitAnswer" /\ verifier.req = prover.req
        /\ toV = Empty /\ toP = Empty
    BY Zenon, <1>12 DEF VerifyAccept, Live, Starting, SettingUp, Finishing, Answering, Proved, Idle
  <2>3. Proved'
    BY ZenonT(60), <1>0, <2>1, <2>2, Queues DEF Proved
  <2> QED
    BY <2>3 DEF Live
<1>13. CASE VerifyDone
  <2>1. verifier'.st \in Idle /\ toV' = Tail(toV) /\ toP' = toP
    BY <1>13 DEF VerifyDone, IsParty, Idle
  <2>2. \/ /\ prover.st = "Proving" /\ toV = One(Part(Proof(prover.req)))
           /\ toP = One(Part(Proof(prover.req)))
        \/ prover.st = "Committed" /\ toV = One(Part(Proof(verifier.req))) /\ toP = Empty
        \/ /\ prover.st = "AwaitAnswer" /\ toP = Empty
           /\ toV = Two(Part(Proof(verifier.req)), ProveRequest(prover.req))
    <3>1. verifier.st = "Verifying" /\ toV # Empty
      BY <1>13 DEF VerifyDone, IsPart, Kind, Empty
    <3> QED
      BY Zenon, <3>1 DEF Live, Starting, SettingUp, Finishing, Answering, Proved, Idle
  <2>3. Answering' \/ Proved'
    BY ZenonT(60), <1>0, <2>1, <2>2, Queues DEF Answering, Proved
  <2> QED
    BY <2>3 DEF Live
<1>14. CASE VerifierCallFails \/ VerifierDrop
  BY <1>14 DEF VerifierCallFails, VerifierDrop, DropVerifier
<1> QED
  BY <1>1, <1>2, <1>3, <1>4, <1>5, <1>6, <1>7, <1>8, <1>9, <1>10, <1>11, <1>12, <1>13, <1>14
     DEF VerifierNext

LEMMA PartiesInit == Init => PartiesInv
BY DEF Init, PartiesInv, Live, Starting, At, IsParty, Empty

\* Every step keeps PartiesInv.
LEMMA PartiesNext ==
    ASSUME PartiesInv, [Next]_vars
    PROVE  PartiesInv'
<1> USE DEF PartiesInv
<1>1. CASE ProverNext /\ UNCHANGED <<up, drivers>>
  <2>1. IsParty(prover)'
    BY <1>1 DEF ProverNext, ProverCommit, ProverCommitResponse, ProverSetupDone, ProverConnect,
       ProverFinish, ProverCommitted, Prove, ProveAnswer, ProveDone, ProverCallFails, ProverDrop,
       DropProver, IsParty
  <2>2. verifier' = verifier /\ (prover.st = "Gone" => prover'.st = "Gone")
    BY <1>1 DEF ProverNext, ProverCommit, ProverCommitResponse, ProverSetupDone, ProverConnect,
       ProverFinish, ProverCommitted, Prove, ProveAnswer, ProveDone, ProverCallFails, ProverDrop,
       ProverGone
  <2> QED
    BY <1>1, <2>1, <2>2, ProverLive DEF IsParty
<1>2. CASE VerifierNext /\ UNCHANGED <<up, drivers>>
  <2>1. IsParty(verifier)'
    BY <1>2 DEF VerifierNext, VerifierCommit, VerifierCommitRequest, CommitAccept, CommitReject,
       VerifierSetupDone, Run, RunVerifyTags, RunDone, Verify, VerifyRequest, VerifyReject,
       VerifyAccept, VerifyDone, VerifierCallFails, VerifierDrop, DropVerifier, IsParty
  <2>2. prover' = prover /\ (verifier.st = "Gone" => verifier'.st = "Gone")
    BY <1>2 DEF VerifierNext, VerifierCommit, VerifierCommitRequest, CommitAccept, CommitReject,
       VerifierSetupDone, Run, RunVerifyTags, RunDone, Verify, VerifyRequest, VerifyReject,
       VerifyAccept, VerifyDone, VerifierCallFails, VerifierDrop, VerifierGone
  <2> QED
    BY <1>2, <2>1, <2>2, VerifierLive DEF IsParty
<1>3. CASE UNCHANGED <<parties, up>>
  BY Zenon, <1>3 DEF parties, Live, Starting, SettingUp, Finishing, Answering, Proved, At, IsParty,
     CommitRequest
<1>4. CASE Break
  BY <1>4 DEF Break, IsParty
<1> QED
  BY <1>1, <1>2, <1>3, <1>4 DEF Next, vars

\* Two parties that wait are not both without a message.
LEMMA PartiesMeet == PartiesInv => NoMutualWait
<1> SUFFICES ASSUME Live, ProverWaits, VerifierWaits, toV = Empty, toP = Empty PROVE FALSE
  BY DEF PartiesInv, NoMutualWait, ProverWaits, VerifierWaits, Empty
<1> QED
  BY Zenon, Queues DEF Live, Starting, SettingUp, Finishing, Answering, Proved, At, Idle,
     ProverWaits, VerifierWaits

-----------------------------------------------------------------------------
(* The drivers and the handles *)

DriverType ==
    [ pc : {"idle", "stored", "loaded", "done"}, woken : BOOLEAN, waker : BOOLEAN,
      polled : BOOLEAN, closing : BOOLEAN, told : BOOLEAN ]

HandleType == [pc : {"open", "stored", "closed"}, shouldClose : BOOLEAN]

\* What a side's driver d and handle h, and the driver q of the other side, owe
\* each other.  Until close has woken the driver its waker is there to be woken;
\* from then on a driver that sleeps has read the flag and told its peer; of two
\* sides that have told each other, one that sleeps is going to be woken.
Owed(d, h, q) ==
    /\ h.shouldClose = (h.pc # "open")
    /\ h.pc # "closed" => d.waker \/ (d.pc = "idle" /\ d.woken)
    /\ h.pc = "closed" /\ d.pc = "loaded" /\ ~d.woken => d.closing
    /\ h.pc = "closed" /\ d.pc = "idle" /\ ~d.woken => d.told
    /\ d.told \/ d.closing => h.shouldClose
    /\ d.told /\ d.pc = "loaded" => d.closing
    /\ d.told /\ q.told /\ d.pc = "idle" => d.woken
    /\ ~up /\ d.pc = "idle" => d.woken
    /\ d.pc = "done" => ~up \/ (d.told /\ q.told)

\* The inductive invariant of closing.
CloseInv ==
    /\ up \in BOOLEAN
    /\ driver \in [Sides -> DriverType]
    /\ handle \in [Sides -> HandleType]
    /\ \A s \in Sides : Owed(driver[s], handle[s], driver[Peer(s)])

LEMMA CloseInit == Init => CloseInv
<1> SUFFICES ASSUME Init PROVE CloseInv
  OBVIOUS
<1>1. driver \in [Sides -> DriverType]
  BY DEF Init, DriverType
<1>2. handle \in [Sides -> HandleType]
  BY DEF Init, HandleType
<1>3. ASSUME NEW s \in Sides PROVE Owed(driver[s], handle[s], driver[Peer(s)])
  <2>1. Peer(s) \in Sides
    BY DEF Sides, Peer
  <2> QED
    BY Zenon, <2>1 DEF Init, Owed
<1> QED
  BY Zenon, <1>1, <1>2, <1>3 DEF Init, CloseInv

\* The calls of the parties leave drivers and handles alone.
LEMMA CloseCalls ==
    ASSUME CloseInv, UNCHANGED <<up, drivers>>
    PROVE  CloseInv'
BY DEF CloseInv, Owed, drivers

LEMMA ClosePoll ==
    ASSUME CloseInv, NEW s \in Sides, DriverPoll(s), UNCHANGED up
    PROVE  CloseInv'
<1> USE DEF CloseInv, Sides, Peer
<1>1. CASE StoreWaker(s)
  BY SMTT(60), <1>1 DEF StoreWaker, Owed, DriverType, HandleType
<1>2. CASE LoadShouldClose(s)
  <2>1. driver' \in [Sides -> DriverType] /\ handle' \in [Sides -> HandleType]
    BY SMTT(60), <1>2 DEF LoadShouldClose, DriverType, HandleType
  <2>2. /\ driver'[Peer(s)] = driver[Peer(s)] /\ handle' = handle
        /\ driver'[s] = [driver[s] EXCEPT !.pc = "loaded", !.closing = handle[s].shouldClose]
    BY Zenon, <1>2 DEF LoadShouldClose
  <2>3. Owed(driver[s], handle[s], driver[Peer(s)])'
    BY SMTT(60), <1>2, <2>2 DEF LoadShouldClose, Owed, DriverType, HandleType
  <2>4. Owed(driver[Peer(s)], handle[Peer(s)], driver[s])'
    BY SMTT(60), <1>2, <2>2 DEF LoadShouldClose, Owed, DriverType, HandleType
  <2> QED
    BY <2>1, <2>3, <2>4
<1>3. CASE PollConnection(s)
  <2> DEFINE d == driver[s]
             q == driver[Peer(s)]
             ends == ~up \/ (d.closing /\ q.told)
             tells == up /\ d.closing
             e == [d EXCEPT !.pc = IF ends THEN "done" ELSE "idle",
                            !.polled = TRUE, !.told = @ \/ tells]
             w == q.woken \/ (tells /\ ~d.told)
             r == [q EXCEPT !.woken = w]
  <2>1. /\ d.pc = "loaded" /\ handle' = handle
        /\ driver' = [driver EXCEPT ![s] = e, ![Peer(s)] = r]
    BY Zenon, <1>3 DEF PollConnection
  <2>2. d \in DriverType /\ q \in DriverType /\ w \in BOOLEAN
    BY Zenon
  <2>3. Owed(d, handle[s], q) /\ Owed(q, handle[Peer(s)], d)
    BY Zenon
  <2>4. /\ e \in DriverType
        /\ e.pc = (IF ends THEN "done" ELSE "idle")
        /\ e.woken = d.woken /\ e.waker = d.waker
        /\ e.closing = d.closing /\ e.told = (d.told \/ tells)
    <3> HIDE DEF d, ends, tells
    <3> QED
      BY ONLY <2>2, Zenon DEF DriverType
  <2>5. /\ r \in DriverType
        /\ r.woken = w /\ r.pc = q.pc /\ r.waker = q.waker
        /\ r.closing = q.closing /\ r.told = q.told
    <3> HIDE DEF q, w
    <3> QED
      BY ONLY <2>2, Zenon DEF DriverType
  <2>6. Peer(s) \in Sides /\ \A t \in Sides : t = s \/ (t = Peer(s) /\ Peer(t) = s)
    BY Zenon
  <2> HIDE DEF d, q, e, r
  <2>7. driver' \in [Sides -> DriverType] /\ driver'[s] = e /\ driver'[Peer(s)] = r
    BY <2>1, <2>4, <2>5
  <2> HIDE DEF Peer, Sides
  <2>8. Owed(driver[s], handle[s], driver[Peer(s)])'
    BY ONLY ZenonT(60), UNCHANGED up, <2>1, <2>3, <2>4, <2>5, <2>7 DEF Owed
  <2>9. Owed(driver[Peer(s)], handle[Peer(s)], driver[s])'
    BY ONLY ZenonT(60), UNCHANGED up, <2>1, <2>3, <2>4, <2>5, <2>7 DEF Owed
  <2> QED
    BY Zenon, <2>1, <2>6, <2>7, <2>8, <2>9
<1> QED
  BY <1>1, <1>2, <1>3 DEF DriverPoll

LEMMA CloseHandle ==
    ASSUME CloseInv, NEW s \in Sides, StoreShouldClose(s) \/ WakeDriver(s), UNCHANGED up
    PROVE  CloseInv'
<1> USE DEF CloseInv, Sides, Peer
<1>1. CASE StoreShouldClose(s)
  BY SMTT(60), <1>1 DEF StoreShouldClose, Owed, DriverType, HandleType
<1>2. CASE WakeDriver(s)
  <2> DEFINE e == [driver[s] EXCEPT !.woken = @ \/ driver[s].waker, !.waker = FALSE]
  <2>0. /\ e \in DriverType
        /\ e.pc = driver[s].pc /\ e.woken = (driver[s].woken \/ driver[s].waker)
        /\ e.closing = driver[s].closing /\ e.told = driver[s].told
    <3> DEFINE w == driver[s].woken \/ driver[s].waker
    <3>1. driver[s] \in DriverType
      BY Zenon
    <3>2. w \in BOOLEAN /\ e = [driver[s] EXCEPT !.woken = w, !.waker = FALSE]
      BY Zenon
    <3> HIDE DEF w, e
    <3>3. /\ e \in DriverType
          /\ e.pc = driver[s].pc /\ e.woken = w
          /\ e.closing = driver[s].closing /\ e.told = driver[s].told
      BY ONLY <3>1, <3>2, Zenon DEF DriverType
    <3> QED
      BY ONLY <3>3, Zenon DEF w
  <2>1. driver' \in [Sides -> DriverType] /\ handle' \in [Sides -> HandleType]
    <3>1. driver' = [driver EXCEPT ![s] = e] /\ handle' = [handle EXCEPT ![s].pc = "closed"]
      BY Zenon, <1>2 DEF WakeDriver
    <3>2. driver' \in [Sides -> DriverType]
      BY Zenon, <2>0, <3>1
    <3>3. handle' \in [Sides -> HandleType]
      BY <3>1 DEF HandleType
    <3> QED
      BY <3>2, <3>3
  <2>2. /\ driver'[Peer(s)] = driver[Peer(s)] /\ handle'[Peer(s)] = handle[Peer(s)]
        /\ driver'[s] = e
        /\ handle'[s] = [handle[s] EXCEPT !.pc = "closed"]
    BY Zenon, <1>2 DEF WakeDriver
  <2>3. Owed(driver[s], handle[s], driver[Peer(s)])'
    <3>1. /\ driver'[s].pc = driver[s].pc /\ driver'[s].closing = driver[s].closing
          /\ driver'[s].told = driver[s].told
          /\ driver'[s].woken = (driver[s].woken \/ driver[s].waker)
          /\ handle'[s].pc = "closed" /\ handle'[s].shouldClose = handle[s].shouldClose
      <4>1. handle[s] \in HandleType
        OBVIOUS
      <4> QED
        BY ONLY <2>0, <2>2, <4>1, Zenon DEF HandleType
    <3>2. Owed(driver[s], handle[s], driver[Peer(s)]) /\ handle[s].pc = "stored"
      BY Zenon, <1>2 DEF WakeDriver
    <3> QED
      BY Zenon, <2>2, <3>1, <3>2 DEF Owed
  <2>4. Owed(driver[Peer(s)], handle[Peer(s)], driver[s])'
    <3>1. Owed(driver[Peer(s)], handle[Peer(s)], driver[s]) /\ driver'[s].told = driver[s].told
      BY Zenon, <2>0, <2>2
    <3> QED
      BY Zenon, <2>2, <3>1 DEF Owed
  <2> QED
    BY <2>1, <2>3, <2>4
<1> QED
  BY <1>1, <1>2

LEMMA CloseBreak == CloseInv /\ Break => CloseInv'
<1> SUFFICES ASSUME CloseInv, Break PROVE CloseInv'
  OBVIOUS
<1>1. driver' \in [Sides -> DriverType] /\ handle' \in [Sides -> HandleType] /\ up' = FALSE
  BY Zenon DEF CloseInv, Break, DriverType
<1>2. ASSUME NEW s \in Sides
      PROVE  /\ driver'[s] = [driver[s] EXCEPT !.woken = TRUE]
             /\ driver'[Peer(s)] = [driver[Peer(s)] EXCEPT !.woken = TRUE]
             /\ handle'[s] = handle[s]
  BY DEF Break, Sides, Peer
<1>3. ASSUME NEW s \in Sides PROVE Owed(driver[s], handle[s], driver[Peer(s)])'
  BY <1>1, <1>2 DEF CloseInv, Owed, DriverType, HandleType, Sides, Peer
<1> QED
  BY Zenon, <1>1, <1>3 DEF CloseInv

\* Every step keeps CloseInv.
LEMMA CloseNext == CloseInv /\ [Next]_vars => CloseInv'
BY CloseCalls, ClosePoll, CloseHandle, CloseBreak DEF Next, vars

\* Of two closed sides one runs, or both are done.
LEMMA CloseInvMissesNone == CloseInv => NoMissedClose
BY DEF CloseInv, Owed, Sides, Peer, DriverType, HandleType, NoMissedClose, Runs

-----------------------------------------------------------------------------
\* Nobody is stuck: as long as the transport is up and both parties are there, two
\* calls that wait for each other have a message under way (tlsn/src/prover.rs,
\* verifier.rs), and however the steps of close and of the drivers' polls
\* interleave, and whenever the transport breaks, no close is missed (session.rs).
THEOREM NobodyIsStuck == Spec => []NobodyStuck
<1>1. Init => PartiesInv /\ CloseInv
  BY PartiesInit, CloseInit
<1>2. PartiesInv /\ CloseInv /\ [Next]_vars => PartiesInv' /\ CloseInv'
  BY PartiesNext, CloseNext
<1>3. PartiesInv /\ CloseInv => NobodyStuck
  BY PartiesMeet, CloseInvMissesNone DEF NobodyStuck
<1> QED
  BY <1>1, <1>2, <1>3, PTL DEF Spec
=============================================================================
