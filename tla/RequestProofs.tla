--------------------------- MODULE RequestProofs ---------------------------
(***************************************************************************)
(* Proofs about Session, for any number of calls of prove: the two sides   *)
(* agree on the requests their VMs were given and on those they returned   *)
(* an output for, whoever gives up and whenever the transport breaks.      *)
(***************************************************************************)
EXTENDS SessionProofs

-----------------------------------------------------------------------------
(* The invariant *)

Requests == [call : 0..MaxProves, needs : Needs]
Programs == [name : {"setup", "tls", "tags", "proof", "leftover"}, call : 0..MaxProves]

\* A party's last program.
EndsWith(programs, p) == programs # <<>> /\ programs[Len(programs)] = p

TypeInv ==
    /\ calls \in 0..MaxProves
    /\ prover.req \in Requests /\ verifier.req \in Requests
    /\ vm \in [Sides -> Seq(Programs)]
    /\ ok \in [Sides -> Seq(Requests)]
    /\ version \in BOOLEAN /\ up \in BOOLEAN

ProverEarly == {"Initialized", "AwaitResponse", "Setup", "CommitAccepted", "Connected", "Finishing"}
ProverLate == {"Committed", "AwaitAnswer", "Proving"}
VerifierEarly == {"Initialized", "AwaitCommit", "CommitStart", "Setup", "CommitAccepted",
                  "Running", "Tags"}
VerifierLate == {"Committed", "AwaitProve", "Verify", "Verifying"}

\* What the VMs have been given before the first proof.
EarlyVm ==
    /\ prover.st \in {"Initialized", "AwaitResponse"} => vm["prover"] = <<>>
    /\ prover.st \in {"Setup", "CommitAccepted", "Connected"} => vm["prover"] = <<Setup>>
    /\ prover.st = "Finishing" => vm["prover"] = <<Setup, Tags>>
    /\ verifier.st \in {"Initialized", "AwaitCommit", "CommitStart"} => vm["verifier"] = <<>>
    /\ verifier.st \in {"Setup", "CommitAccepted", "Running"} => vm["verifier"] = <<Setup>>
    /\ verifier.st = "Tags" => vm["verifier"] = <<Setup, Tags>>

NoOutput == ok["prover"] = <<>> /\ ok["verifier"] = <<>>
SameOutputs == ok["prover"] = ok["verifier"]
ProverAhead(r) == ok["prover"] = Append(ok["verifier"], r)
VerifierAhead(r) == ok["verifier"] = Append(ok["prover"], r)
SameVm == vm["prover"] = vm["verifier"]

\* The verifier has come to the tag proof.
Tagging == verifier.st \in {"Tags", "Gone"} \cup Idle

\* What may be left for a prover before its first proof ...
ProverEarlyQueue ==
    \/ toP = Empty
    \/ /\ prover.st = "AwaitResponse"
       /\ toP \in {One(Response(TRUE)), Two(Response(TRUE), Part(Setup))}
    \/ prover.st = "AwaitResponse" /\ verifier.st = "Gone" /\ toP = One(Response(FALSE))
    \/ prover.st = "Setup" /\ toP \in {One(Part(Setup)), Two(Part(Setup), Part(Tls))}
    \/ prover.st \in {"CommitAccepted", "Connected"} /\ toP = One(Part(Tls))
    \/ prover.st = "Connected" /\ Tagging /\ toP = Two(Part(Tls), Part(Tags))
    \/ prover.st = "Finishing" /\ Tagging /\ toP = One(Part(Tags))

\* ... and for a verifier.
VerifierEarlyQueue ==
    \/ toV = Empty
    \/ verifier.st \in {"Initialized", "AwaitCommit"} /\ toV = One(CommitRequest)
    \/ verifier.st = "Setup" /\ toV \in {One(Part(Setup)), Two(Part(Setup), Part(Tls))}
    \/ verifier.st \in {"CommitAccepted", "Running"} /\ toV = One(Part(Tls))
    \/ verifier.st = "Running" /\ toV = Two(Part(Tls), Part(Tags))
    \/ verifier.st = "Tags" /\ toV = One(Part(Tags))
    \/ /\ verifier.st = "Tags" /\ prover.st \in ProverLate \cup {"Gone"}
       /\ \E r \in Requests : toV = Two(Part(Tags), ProveRequest(r))

\* Both are there: before the prover is committed ...
Beginning ==
    /\ prover.st \in ProverEarly
    /\ verifier.st \in VerifierEarly \cup Idle
    /\ ProverEarlyQueue /\ VerifierEarlyQueue
    /\ verifier.st \in Idle => vm["verifier"] = <<Setup, Tags>>
    /\ NoOutput

\* ... until the verifier is ...
TagsUnread ==
    /\ prover.st \in ProverLate
    /\ verifier.st = "Tags"
    /\ toP = Empty /\ VerifierEarlyQueue
    /\ SameVm /\ NoOutput

\* ... while the prover has nothing to read ...
Unanswered ==
    /\ prover.st \in ProverLate
    /\ toP = Empty
    /\ \/ /\ verifier.st \in Idle \cup {"Verify"} /\ SameVm /\ SameOutputs
          /\ \/ toV = Empty
             \/ verifier.st \in Idle /\ \E r \in Requests : toV = One(ProveRequest(r))
       \/ /\ verifier.st \in Idle /\ SameVm /\ toV = Empty /\ ~up
          /\ \E r \in Requests : VerifierAhead(r)
       \/ /\ verifier.st = "Verifying" /\ toV = Empty /\ ~up
          /\ \/ SameOutputs
             \/ ProverAhead(verifier.req) /\ EndsWith(vm["verifier"], Proof(verifier.req))
       \/ /\ verifier.st = "Verifying" /\ SameVm
          /\ EndsWith(vm["verifier"], Proof(verifier.req))
          /\ \/ /\ SameOutputs /\ ~up
                /\ toV = One(Part(Proof(verifier.req)))
             \/ /\ ProverAhead(verifier.req)
                /\ \/ toV = One(Part(Proof(verifier.req)))
                   \/ \E r \in Requests :
                        toV = Two(Part(Proof(verifier.req)), ProveRequest(r))

\* ... and while it has.
Answered ==
    \/ /\ prover.st = "AwaitAnswer" /\ verifier.st \in Idle
       /\ toP = One(Response(FALSE)) /\ toV = Empty
       /\ SameVm /\ SameOutputs
    \/ /\ prover.st = "AwaitAnswer" /\ verifier.st = "Verifying"
       /\ verifier.req = prover.req /\ prover.req.needs # "unsupported"
       /\ \/ toP = Two(Response(TRUE), Part(Proof(prover.req)))
          \/ toP = One(Response(TRUE)) /\ ~up
       /\ toV = Empty
       /\ vm["verifier"] = Append(vm["prover"], Proof(prover.req)) /\ SameOutputs
    \/ /\ prover.st = "Proving" /\ verifier.st = "Verifying"
       /\ verifier.req = prover.req
       /\ toP = One(Part(Proof(prover.req)))
       /\ toV = One(Part(Proof(prover.req))) \/ (toV = Empty /\ ~up)
       /\ SameVm /\ EndsWith(vm["verifier"], Proof(prover.req)) /\ SameOutputs
    \/ /\ prover.st = "Proving" /\ verifier.st \in Idle
       /\ toP = One(Part(Proof(prover.req))) /\ toV = Empty
       /\ SameVm /\ VerifierAhead(prover.req)

\* The prover without its verifier.
ProverAlone ==
    \/ prover.st \in ProverEarly /\ ProverEarlyQueue /\ NoOutput
    \/ /\ prover.st \in ProverLate /\ toP = Empty
       /\ \/ SameOutputs
          \/ \E r \in Requests : ProverAhead(r) /\ EndsWith(vm["verifier"], Proof(r))
          \/ \E r \in Requests : VerifierAhead(r) /\ ~up
    \/ /\ prover.st = "AwaitAnswer" /\ \E b \in BOOLEAN : toP = One(Response(b))
       /\ SameOutputs
    \/ /\ prover.st = "AwaitAnswer" /\ toP = Two(Response(TRUE), Part(Proof(prover.req)))
       /\ SameOutputs /\ EndsWith(vm["verifier"], Proof(prover.req))
       /\ prover.req.needs # "unsupported"
    \/ /\ prover.st = "Proving" /\ toP = One(Part(Proof(prover.req)))
       /\ \/ SameOutputs /\ EndsWith(vm["verifier"], Proof(prover.req))
          \/ VerifierAhead(prover.req)

\* The verifier without its prover.
VerifierAlone ==
    \/ verifier.st \in VerifierEarly /\ VerifierEarlyQueue /\ NoOutput
    \/ /\ verifier.st \in VerifierLate /\ toV = Empty
       /\ \/ SameOutputs
          \/ \E r \in Requests : VerifierAhead(r)
          \/ /\ verifier.st = "Verifying" /\ ProverAhead(verifier.req)
             /\ EndsWith(vm["verifier"], Proof(verifier.req))
    \/ /\ verifier.st \in Idle /\ SameOutputs
       /\ \E r \in Requests : toV = One(ProveRequest(r))
    \/ /\ verifier.st = "Verifying" /\ SameOutputs
       /\ toV = One(Part(Proof(verifier.req)))
    \/ /\ verifier.st = "Verifying" /\ ProverAhead(verifier.req)
       /\ EndsWith(vm["verifier"], Proof(verifier.req))
       /\ \/ toV = One(Part(Proof(verifier.req)))
          \/ \E r \in Requests : toV = Two(Part(Proof(verifier.req)), ProveRequest(r))

\* Nobody is left.
NobodyLeft ==
    \/ SameOutputs
    \/ \E r \in Requests : ProverAhead(r) /\ EndsWith(vm["verifier"], Proof(r))
    \/ \E r \in Requests : VerifierAhead(r)

Together == EarlyVm /\ (Beginning \/ TagsUnread \/ Unanswered \/ Answered)

RequestsInv ==
    /\ TypeInv
    /\ ~ProverGone /\ ~VerifierGone => Together
    /\ ~ProverGone /\ VerifierGone => ProverAlone
    /\ ProverGone /\ ~VerifierGone => VerifierAlone
    /\ ProverGone /\ VerifierGone => NobodyLeft

-----------------------------------------------------------------------------
(* Facts *)

\* Queues of different length or content differ.
LEMMA QueuesDiffer ==
    /\ \A m, n : One(m) = One(n) => m = n
    /\ \A m, n, k, l : Two(m, n) = Two(k, l) => m = k /\ n = l
    /\ \A m, k, l : One(m) # Two(k, l)
    /\ \A m : One(m) # Empty
    /\ \A k, l : Two(k, l) # Empty
BY DEF One, Two, Empty

\* What is left of a queue when the transport breaks.
LEMMA Prefixes ==
    /\ \A n \in 0..Len(Empty) : SubSeq(Empty, 1, n) = Empty
    /\ \A m : \A n \in 0..Len(One(m)) : SubSeq(One(m), 1, n) \in {Empty, One(m)}
    /\ \A m, k : \A n \in 0..Len(Two(m, k)) : SubSeq(Two(m, k), 1, n) \in {Empty, One(m), Two(m, k)}
<1>1. \A n \in 0..Len(Empty) : SubSeq(Empty, 1, n) = Empty
  BY DEF Empty
<1>2. ASSUME NEW m, NEW n \in 0..Len(One(m))
      PROVE  SubSeq(One(m), 1, n) \in {Empty, One(m)}
  <2>1. One(m) \in Seq({m}) /\ Len(One(m)) = 1
    BY DEF One
  <2>2. CASE n = 0
    BY <2>2 DEF One, Empty
  <2>3. CASE n = 1
    BY <2>1, <2>3, SubSeqFull, Zenon
  <2> QED
    BY <2>1, <2>2, <2>3
<1>3. ASSUME NEW m, NEW k, NEW n \in 0..Len(Two(m, k))
      PROVE  SubSeq(Two(m, k), 1, n) \in {Empty, One(m), Two(m, k)}
  <2>1. Two(m, k) \in Seq({m, k}) /\ Len(Two(m, k)) = 2
    BY DEF Two
  <2>2. CASE n = 0
    BY <2>2 DEF Two, Empty
  <2>3. CASE n = 1
    <3>1. SubSeq(Two(m, k), 1, 1) \in Seq({m, k}) /\ One(m) \in Seq({m, k})
      <4>1. SubSeq(Two(m, k), 1, 1) \in Seq({m, k})
        BY <2>1, SubSeqProperties
      <4>2. One(m) \in Seq({m, k})
        BY DEF One
      <4> QED
        BY <4>1, <4>2
    <3>2. Len(SubSeq(Two(m, k), 1, 1)) = 1 /\ Len(One(m)) = 1
      BY <2>1 DEF One
    <3>3. \A i \in 1..1 : SubSeq(Two(m, k), 1, 1)[i] = One(m)[i]
      BY <2>1 DEF One, Two
    <3>4. SubSeq(Two(m, k), 1, 1) = One(m)
      BY <3>1, <3>2, <3>3, SeqEqual, Zenon
    <3> QED
      BY <2>3, <3>4, Zenon
  <2>4. CASE n = 2
    BY <2>1, <2>4, SubSeqFull, Zenon
  <2> QED
    BY <2>1, <2>2, <2>3, <2>4
<1> QED
  BY <1>1, <1>2, <1>3, Zenon

\* The messages of different phases differ.
LEMMA MessagesDiffer ==
    /\ Setup # Tls /\ Setup # Tags /\ Tls # Tags
    /\ \A r : Proof(r) # Setup /\ Proof(r) # Tls /\ Proof(r) # Tags
    /\ \A x, y : Part(x) = Part(y) => x = y
    /\ \A r, x : ProveRequest(r) # Part(x)
    /\ \A b, x : Response(b) # Part(x)
BY DEF Setup, Tls, Tags, Proof, Program, Part, ProveRequest, Response

\* Appending to one party's sequence.
LEMMA AppendOne ==
    ASSUME NEW S, NEW f \in [Sides -> Seq(S)], NEW x \in S, NEW s \in Sides,
           NEW g, g = [f EXCEPT ![s] = Append(@, x)]
    PROVE  /\ g \in [Sides -> Seq(S)]
           /\ g[s] = Append(f[s], x)
           /\ \A t \in Sides : t # s => g[t] = f[t]
           /\ g[s] # <<>> /\ g[s][Len(g[s])] = x
<1>1. f[s] \in Seq(S)
  OBVIOUS
<1>2. /\ Append(f[s], x) \in Seq(S) /\ Append(f[s], x) # <<>>
      /\ Append(f[s], x)[Len(Append(f[s], x))] = x
  BY <1>1, AppendProperties
<1>3. /\ g[s] = Append(f[s], x)
      /\ \A t \in Sides : t # s => g[t] = f[t]
  BY Zenon
<1>4. g \in [Sides -> Seq(S)]
  BY Zenon, <1>2
<1> QED
  BY Zenon, <1>2, <1>3, <1>4

\* The programs of the phases.
LEMMA ProgramsType ==
    /\ Setup \in Programs /\ Tls \in Programs /\ Tags \in Programs
    /\ \A r \in Requests : Proof(r) \in Programs /\ Leftover(r) \in Programs
BY MaxProvesAssumption DEF Setup, Tls, Tags, Proof, Leftover, Program, Programs, Requests

LEMMA AppendEnds ==
    ASSUME NEW s \in Seq(Programs), NEW x \in Programs
    PROVE  EndsWith(Append(s, x), x)
BY AppendProperties DEF EndsWith

\* A message that is there and expected can be taken.
LEMMA ResponseTaken ==
    ASSUME NEW ch, NEW gone, NEW b, NEW m, ch = One(Response(b)) \/ ch = Two(Response(b), m)
    PROVE  ~CannotTake(ch, gone, Kind(ch, "response"))
<1>1. ch # <<>> /\ Head(ch) = Response(b)
  BY DEF One, Two
<1>2. Head(ch).kind = "response"
  BY Zenon, <1>1, Messages
<1> QED
  BY Zenon, <1>1, <1>2 DEF CannotTake, Kind

LEMMA PartTaken ==
    ASSUME NEW ch, NEW gone, NEW x, NEW m, ch = One(Part(x)) \/ ch = Two(Part(x), m)
    PROVE  ~CannotTake(ch, gone, IsPart(ch, x))
<1>1. ch # <<>> /\ Head(ch) = Part(x)
  BY DEF One, Two
<1>2. Head(ch).kind = "part" /\ Head(ch).program = x
  BY Zenon, <1>1, Messages
<1> QED
  BY Zenon, <1>1, <1>2 DEF CannotTake, IsPart, Kind

-----------------------------------------------------------------------------
(* A party is dropped *)

USE DEF ProverGone, VerifierGone

\* A verifier whose prover is dropped goes on with what it has.
LEMMA ProverLeaves ==
    ASSUME TypeInv, Together, DropProver, UNCHANGED <<verifier, toV, ok, version>>
    PROVE  VerifierAlone'
<1>1. /\ prover'.st = "Gone" /\ vm'["verifier"] = vm["verifier"]
      /\ verifier' = verifier /\ toV' = toV /\ ok' = ok /\ version' = version
  BY DEF DropProver, TypeInv, Sides
<1>2. CASE Beginning \/ TagsUnread
  <2>1. VerifierEarlyQueue'
    BY Zenon, <1>1, <1>2 DEF Beginning, TagsUnread, VerifierEarlyQueue, CommitRequest
  <2>2. CASE verifier.st \in Idle
    <3>1. toV = Empty /\ NoOutput
      BY <1>2, <2>2 DEF Beginning, TagsUnread, VerifierEarlyQueue, Idle
    <3> QED
      BY <1>1, <2>2, <3>1 DEF VerifierAlone, NoOutput, SameOutputs, Idle, VerifierLate
  <2>3. CASE verifier.st \in VerifierEarly
    <3>1. NoOutput
      BY Zenon, <1>2 DEF Beginning, TagsUnread
    <3> QED
      BY Zenon, <1>1, <2>1, <2>3, <3>1 DEF VerifierAlone, NoOutput
  <2> QED
    BY <1>2, <2>2, <2>3 DEF Beginning, TagsUnread, VerifierEarly
<1>3. CASE Unanswered
  BY <1>1, <1>3 DEF Unanswered, VerifierAlone, VerifierLate, Idle,
     SameOutputs, ProverAhead, VerifierAhead, EndsWith
<1>4. CASE Answered
  <2>1. prover.req \in Requests
    BY DEF TypeInv
  <2> QED
    BY Zenon, <1>1, <1>4, <2>1 DEF Answered, VerifierAlone, VerifierLate, Idle,
       SameOutputs, ProverAhead, VerifierAhead, EndsWith
<1> QED
  BY Zenon, <1>2, <1>3, <1>4 DEF Together

\* A prover whose verifier is dropped goes on with what it has.
LEMMA VerifierLeaves ==
    ASSUME TypeInv, Together, DropVerifier, UNCHANGED <<prover, toP, ok, up>>,
           vm'["verifier"] = vm["verifier"]
    PROVE  ProverAlone'
<1>1. verifier'.st = "Gone" /\ prover' = prover /\ toP' = toP /\ ok' = ok /\ up' = up
  BY DEF DropVerifier
<1>2. CASE Beginning \/ TagsUnread
  <2>1. CASE prover.st \in ProverEarly
    <3>1. ProverEarlyQueue'
      BY Zenon, <1>1, <1>2, <2>1
         DEF Beginning, TagsUnread, ProverEarlyQueue, ProverEarly, ProverLate, Tagging, Response
    <3>2. NoOutput'
      BY Zenon, <1>1, <1>2 DEF Beginning, TagsUnread, NoOutput
    <3> QED
      BY Zenon, <1>1, <2>1, <3>1, <3>2 DEF ProverAlone
  <2>2. CASE prover.st \in ProverLate
    <3>1. toP = Empty /\ SameOutputs
      BY <1>2, <2>2 DEF Beginning, TagsUnread, ProverEarly, ProverLate, NoOutput, SameOutputs
    <3> QED
      BY Zenon, <1>1, <2>2, <3>1 DEF ProverAlone, SameOutputs
  <2> QED
    BY Zenon, <1>2, <2>1, <2>2 DEF Beginning, TagsUnread
<1>3. CASE Unanswered
  <2>1. verifier.req \in Requests
    BY DEF TypeInv
  <2>2. /\ prover.st \in ProverLate /\ toP = Empty
        /\ \/ SameOutputs
           \/ \E r \in Requests : ProverAhead(r) /\ EndsWith(vm["verifier"], Proof(r))
           \/ \E r \in Requests : VerifierAhead(r) /\ ~up
    BY Zenon, <1>3, <2>1 DEF Unanswered
  <2>3. CASE SameOutputs
    BY Zenon, <1>1, <2>2, <2>3 DEF ProverAlone, SameOutputs
  <2>4. ASSUME NEW r \in Requests, ProverAhead(r), EndsWith(vm["verifier"], Proof(r))
        PROVE  ProverAlone'
    <3>1. ProverAhead(r)' /\ EndsWith(vm["verifier"], Proof(r))'
      BY <1>1, <2>4 DEF ProverAhead, EndsWith
    <3> QED
      BY Zenon, <1>1, <2>2, <3>1 DEF ProverAlone
  <2>5. ASSUME NEW r \in Requests, VerifierAhead(r), ~up
        PROVE  ProverAlone'
    <3>1. VerifierAhead(r)' /\ ~up'
      BY <1>1, <2>5 DEF VerifierAhead
    <3> QED
      BY Zenon, <1>1, <2>2, <3>1 DEF ProverAlone
  <2> QED
    BY Zenon, <2>2, <2>3, <2>4, <2>5
<1>4. CASE Answered
  <2>1. EndsWith(Append(vm["prover"], Proof(prover.req)), Proof(prover.req))
    <3>1. vm["prover"] \in Seq(Programs) /\ Proof(prover.req) \in Programs
      BY ProgramsType DEF TypeInv, Sides
    <3> QED
      BY <3>1, AppendProperties DEF EndsWith
  <2> QED
    BY Zenon, <1>1, <1>4, <2>1 DEF Answered, ProverAlone, SameOutputs, ProverAhead, VerifierAhead, EndsWith
<1> QED
  BY Zenon, <1>2, <1>3, <1>4 DEF Together

-----------------------------------------------------------------------------
(* Steps of the prover while the verifier is there *)

\* What is put on the stream of a verifier that is there.
LEMMA PutToVerifier ==
    ASSUME NEW m, verifier.st # "Gone"
    PROVE  PutV(<<m>>) = IF up THEN toV \o One(m) ELSE toV
BY DEF PutV, One

\* The first programs of a VM.
LEMMA FirstPrograms ==
    /\ \A x : Append(<<>>, x) = <<x>>
    /\ \A x, y : Append(<<x>>, y) = <<x, y>>
<1>1. ASSUME NEW x PROVE Append(<<>>, x) = <<x>>
  OBVIOUS
<1>2. ASSUME NEW x, NEW y PROVE Append(<<x>>, y) = <<x, y>>
  <2>1. <<x>> \in Seq({x, y}) /\ <<x, y>> \in Seq({x, y})
    OBVIOUS
  <2>2. Append(<<x>>, y) \in Seq({x, y}) /\ Len(Append(<<x>>, y)) = 2
    BY <2>1
  <2>3. \A i \in 1..2 : Append(<<x>>, y)[i] = <<x, y>>[i]
    BY <2>1
  <2> QED
    BY Zenon, <2>1, <2>2, <2>3, SeqEqual
<1> QED
  BY <1>1, <1>2, Zenon

\* Where the verifier is, from where the prover is.
LEMMA LiveProver ==
    ASSUME Live
    PROVE  /\ prover.st = "Initialized" => toV = Empty /\ verifier.st \in {"Initialized", "AwaitCommit"}
           /\ prover.st = "AwaitResponse" /\ toP # Empty => toV = Empty /\ verifier.st = "Setup"
           /\ prover.st = "CommitAccepted" =>
                \/ toV = Empty /\ verifier.st \in {"CommitAccepted", "Running"}
                \/ toV = One(Part(Setup)) /\ verifier.st = "Setup"
           /\ prover.st = "Connected" /\ toP # Empty =>
                \/ toV = Empty /\ verifier.st = "Tags"
                \/ toV = One(Part(Tls)) /\ verifier.st = "Running"
<1>1. prover.st = "Initialized" => toV = Empty /\ verifier.st \in {"Initialized", "AwaitCommit"}
  BY DEF Live, Starting, SettingUp, Finishing, Answering, Proved, At
<1>2. prover.st = "AwaitResponse" /\ toP # Empty => toV = Empty /\ verifier.st = "Setup"
  BY Zenon DEF Live, Starting, SettingUp, Finishing, Answering, Proved, At
<1>3. prover.st = "CommitAccepted" =>
        \/ toV = Empty /\ verifier.st \in {"CommitAccepted", "Running"}
        \/ toV = One(Part(Setup)) /\ verifier.st = "Setup"
  BY DEF Live, Starting, SettingUp, Finishing, Answering, Proved, At
<1>4. prover.st = "Connected" /\ toP # Empty =>
        \/ toV = Empty /\ verifier.st = "Tags"
        \/ toV = One(Part(Tls)) /\ verifier.st = "Running"
  BY DEF Live, Starting, SettingUp, Finishing, Answering, Proved, At
<1> QED
  BY Zenon, <1>1, <1>2, <1>3, <1>4

\* A prover that is not committed yet.
LEMMA ProverEarlySteps ==
    ASSUME TypeInv, PartiesInv, Together, prover.st \in ProverEarly, verifier.st # "Gone",
           UNCHANGED up, prover'.st # "Gone",
           \/ ProverCommit \/ ProverCommitResponse \/ ProverSetupDone
           \/ ProverConnect \/ ProverFinish \/ ProverCommitted
    PROVE  Together'
<1>0. /\ IsParty(prover)
      /\ up => Live
      /\ vm["prover"] \in Seq(Programs) /\ vm["verifier"] \in Seq(Programs)
  BY DEF PartiesInv, TypeInv, Sides, ProverEarly
<1>1. /\ verifier.st \in VerifierEarly \cup Idle
      /\ ProverEarlyQueue /\ VerifierEarlyQueue
      /\ verifier.st \in Idle => vm["verifier"] = <<Setup, Tags>>
      /\ NoOutput /\ EarlyVm
  BY Zenon DEF Together, Beginning, TagsUnread, Unanswered, Answered, ProverEarly, ProverLate
<1>2. UNCHANGED <<version, verifier, ok>> /\ vm'["verifier"] = vm["verifier"]
  BY <1>0 DEF ProverCommit, ProverCommitResponse, ProverSetupDone, ProverConnect, ProverFinish,
     ProverCommitted, DropProver, TypeInv, Sides
<1>3. NoOutput'
  BY <1>1, <1>2 DEF NoOutput
<1>4. ASSUME prover'.st \in ProverEarly, ProverEarlyQueue', VerifierEarlyQueue',
             /\ prover'.st \in {"Initialized", "AwaitResponse"} => vm'["prover"] = <<>>
             /\ prover'.st \in {"Setup", "CommitAccepted", "Connected"} => vm'["prover"] = <<Setup>>
             /\ prover'.st = "Finishing" => vm'["prover"] = <<Setup, Tags>>
      PROVE  Together'
  <2>1. EarlyVm'
    BY <1>1, <1>2, <1>4 DEF EarlyVm
  <2>2. Beginning'
    BY Zenon, <1>1, <1>2, <1>3, <1>4 DEF Beginning, Setup, Tags
  <2> QED
    BY <2>1, <2>2 DEF Together
<1>5. CASE ProverCommit
  <2>1. /\ prover.st = "Initialized" /\ prover'.st = "AwaitResponse" /\ vm' = vm /\ toP' = toP
        /\ toV' = IF up THEN toV \o One(CommitRequest) ELSE toV
    BY <1>0, <1>5, PutToVerifier DEF ProverCommit, IsParty
  <2>2. ProverEarlyQueue'
    BY <1>1, <2>1 DEF ProverEarlyQueue
  <2>3. VerifierEarlyQueue'
    <3>1. CASE up
      <4>1. toV = Empty /\ verifier.st \in {"Initialized", "AwaitCommit"}
        BY Zenon, <1>0, <2>1, <3>1, LiveProver
      <4>2. toV' = One(CommitRequest)
        BY Zenon, <2>1, <3>1, <4>1, Queues
      <4> QED
        BY Zenon, <1>2, <4>1, <4>2 DEF VerifierEarlyQueue, CommitRequest
    <3>2. CASE ~up
      BY <1>1, <1>2, <2>1, <3>2 DEF VerifierEarlyQueue, CommitRequest, ProverLate
    <3> QED
      BY <3>1, <3>2
  <2>4. vm'["prover"] = <<>>
    BY <1>1, <2>1 DEF EarlyVm
  <2> QED
    BY <1>4, <2>1, <2>2, <2>3, <2>4 DEF ProverEarly
<1>6. CASE ProverCommitResponse
  <2>1. /\ prover.st = "AwaitResponse" /\ prover'.st = "Setup" /\ toP # Empty
        /\ toP' = Tail(toP) /\ toV' = (IF up THEN toV \o One(Part(Setup)) ELSE toV)
        /\ vm'["prover"] = Append(vm["prover"], Setup)
    <3>1. Head(toP).ok
      BY <1>6 DEF ProverCommitResponse, DropProver
    <3>2. /\ prover.st = "AwaitResponse" /\ prover' = [prover EXCEPT !.st = "Setup"]
          /\ toP # Empty /\ toP' = Tail(toP) /\ toV' = PutV(<<Part(Setup)>>)
          /\ vm' = [vm EXCEPT !["prover"] = Append(@, Setup)]
      BY Zenon, <1>6, <3>1 DEF ProverCommitResponse, Kind, Empty
    <3>3. vm'["prover"] = Append(vm["prover"], Setup)
      BY Zenon, <3>2 DEF TypeInv, Sides
    <3> QED
      BY <1>0, <3>2, <3>3, PutToVerifier DEF IsParty
  <2>2. ProverEarlyQueue'
    <3>1. toP \in {One(Response(TRUE)), Two(Response(TRUE), Part(Setup))}
      BY Zenon, <1>1, <2>1 DEF ProverEarlyQueue
    <3>2. toP' \in {Empty, One(Part(Setup))}
      BY Zenon, <2>1, <3>1, Queues
    <3> QED
      BY Zenon, <2>1, <3>2 DEF ProverEarlyQueue
  <2>3. VerifierEarlyQueue'
    <3>1. CASE up
      <4>1. toV = Empty /\ verifier.st = "Setup"
        BY Zenon, <1>0, <2>1, <3>1, LiveProver
      <4>2. toV' = One(Part(Setup))
        BY Zenon, <2>1, <3>1, <4>1, Queues
      <4> QED
        BY Zenon, <1>2, <4>1, <4>2 DEF VerifierEarlyQueue
    <3>2. CASE ~up
      BY <1>1, <1>2, <2>1, <3>2 DEF VerifierEarlyQueue, CommitRequest, ProverLate
    <3> QED
      BY <3>1, <3>2
  <2>4. vm'["prover"] = <<Setup>>
    <3>1. vm["prover"] = <<>>
      BY <1>1, <2>1 DEF EarlyVm
    <3> QED
      BY Zenon, <2>1, <3>1, FirstPrograms
  <2> QED
    BY <1>4, <2>1, <2>2, <2>3, <2>4 DEF ProverEarly
<1>7. CASE ProverSetupDone
  <2>1. /\ prover.st = "Setup" /\ prover'.st = "CommitAccepted" /\ vm' = vm /\ toV' = toV
        /\ toP # Empty /\ toP' = Tail(toP)
    BY <1>0, <1>7 DEF ProverSetupDone, IsParty, IsPart, Kind, Empty
  <2>2. ProverEarlyQueue'
    BY <1>1, <2>1, Queues DEF ProverEarlyQueue
  <2>3. VerifierEarlyQueue'
    BY <1>1, <1>2, <2>1 DEF VerifierEarlyQueue, CommitRequest, ProverLate
  <2>4. vm'["prover"] = <<Setup>>
    BY <1>1, <2>1 DEF EarlyVm
  <2> QED
    BY <1>4, <2>1, <2>2, <2>3, <2>4 DEF ProverEarly
<1>8. CASE ProverConnect
  <2>1. /\ prover.st = "CommitAccepted" /\ prover'.st = "Connected" /\ vm' = vm /\ toP' = toP
        /\ toV' = IF up THEN toV \o One(Part(Tls)) ELSE toV
    BY <1>0, <1>8, PutToVerifier DEF ProverConnect, IsParty
  <2>2. ProverEarlyQueue'
    BY <1>1, <2>1 DEF ProverEarlyQueue
  <2>3. VerifierEarlyQueue'
    <3>1. CASE up
      <4>1. \/ toV = Empty /\ verifier.st \in {"CommitAccepted", "Running"}
            \/ toV = One(Part(Setup)) /\ verifier.st = "Setup"
        BY Zenon, <1>0, <2>1, <3>1, LiveProver
      <4>2. \/ toV' = One(Part(Tls)) /\ verifier.st \in {"CommitAccepted", "Running"}
            \/ toV' = Two(Part(Setup), Part(Tls)) /\ verifier.st = "Setup"
        BY Zenon, <2>1, <3>1, <4>1, Queues
      <4> QED
        BY Zenon, <1>2, <4>2 DEF VerifierEarlyQueue
    <3>2. CASE ~up
      BY <1>1, <1>2, <2>1, <3>2 DEF VerifierEarlyQueue, CommitRequest, ProverLate
    <3> QED
      BY <3>1, <3>2
  <2>4. vm'["prover"] = <<Setup>>
    BY <1>1, <2>1 DEF EarlyVm
  <2> QED
    BY <1>4, <2>1, <2>2, <2>3, <2>4 DEF ProverEarly
<1>9. CASE ProverFinish
  <2>1. /\ prover.st = "Connected" /\ prover'.st = "Finishing" /\ toP # Empty
        /\ toP' = Tail(toP) /\ toV' = (IF up THEN toV \o One(Part(Tags)) ELSE toV)
        /\ vm'["prover"] = Append(vm["prover"], Tags)
    <3>1. /\ prover.st = "Connected" /\ prover' = [prover EXCEPT !.st = "Finishing"]
          /\ toP # Empty /\ toP' = Tail(toP) /\ toV' = PutV(<<Part(Tags)>>)
          /\ vm' = [vm EXCEPT !["prover"] = Append(@, Tags)]
      BY Zenon, <1>9 DEF ProverFinish, IsPart, Kind, Empty
    <3>2. vm'["prover"] = Append(vm["prover"], Tags)
      BY Zenon, <3>1 DEF TypeInv, Sides
    <3> QED
      BY <1>0, <3>1, <3>2, PutToVerifier DEF IsParty
  <2>2. ProverEarlyQueue'
    BY <1>1, <1>2, <2>1, Queues DEF ProverEarlyQueue, Tagging
  <2>3. VerifierEarlyQueue'
    <3>1. CASE up
      <4>1. \/ toV = Empty /\ verifier.st = "Tags"
            \/ toV = One(Part(Tls)) /\ verifier.st = "Running"
        BY Zenon, <1>0, <2>1, <3>1, LiveProver
      <4>2. \/ toV' = One(Part(Tags)) /\ verifier.st = "Tags"
            \/ toV' = Two(Part(Tls), Part(Tags)) /\ verifier.st = "Running"
        BY Zenon, <2>1, <3>1, <4>1, Queues
      <4> QED
        BY Zenon, <1>2, <4>2 DEF VerifierEarlyQueue
    <3>2. CASE ~up
      BY <1>1, <1>2, <2>1, <3>2 DEF VerifierEarlyQueue, CommitRequest, ProverLate
    <3> QED
      BY <3>1, <3>2
  <2>4. vm'["prover"] = <<Setup, Tags>>
    <3>1. vm["prover"] = <<Setup>>
      BY <1>1, <2>1 DEF EarlyVm
    <3> QED
      BY Zenon, <2>1, <3>1, FirstPrograms
  <2> QED
    BY <1>4, <2>1, <2>2, <2>3, <2>4 DEF ProverEarly
<1>10. CASE ProverCommitted
  <2>1. /\ prover.st = "Finishing" /\ prover'.st = "Committed" /\ vm' = vm /\ toV' = toV
        /\ toP # Empty /\ toP' = Tail(toP)
    BY <1>0, <1>10 DEF ProverCommitted, IsParty, IsPart, Kind, Empty
  <2>2. toP' = Empty /\ Tagging
    BY <1>1, <2>1, Queues DEF ProverEarlyQueue
  <2>3. EarlyVm'
    BY <1>1, <1>2, <2>1 DEF EarlyVm
  <2>4. SameVm'
    BY <1>1, <2>1, <2>2 DEF EarlyVm, SameVm, Tagging
  <2>5. CASE verifier.st = "Tags"
    <3>1. VerifierEarlyQueue'
      BY <1>1, <1>2, <2>1, <2>5 DEF VerifierEarlyQueue, CommitRequest, ProverLate
    <3> QED
      BY Zenon, <1>2, <1>3, <2>1, <2>2, <2>3, <2>4, <2>5, <3>1 DEF Together, TagsUnread, ProverLate
  <2>6. CASE verifier.st \in Idle
    <3>1. toV = Empty
      BY <1>1, <2>6 DEF VerifierEarlyQueue, Idle
    <3>2. SameOutputs'
      BY <1>3 DEF NoOutput, SameOutputs
    <3> QED
      BY Zenon, <1>2, <2>1, <2>2, <2>3, <2>4, <2>6, <3>1, <3>2 DEF Together, Unanswered, ProverLate
  <2> QED
    BY <2>2, <2>5, <2>6 DEF Tagging
<1> QED
  BY Zenon, <1>5, <1>6, <1>7, <1>8, <1>9, <1>10

\* Where the verifier is when the prover may ask for a proof.
LEMMA LiveCommitted ==
    ASSUME Live, prover.st = "Committed"
    PROVE  \/ verifier.st = "Tags" /\ toV = One(Part(Tags))
           \/ verifier.st \in Idle /\ toV = Empty
           \/ verifier.st = "Verifying" /\ toV = One(Part(Proof(verifier.req)))
BY DEF Live, Starting, SettingUp, Finishing, Answering, Proved, At

\* A committed prover.
LEMMA ProverLateSteps ==
    ASSUME TypeInv, PartiesInv, Together, prover.st \in ProverLate, verifier.st # "Gone",
           UNCHANGED up, prover'.st # "Gone",
           \/ \E needs \in Needs : Prove(needs)
           \/ ProveAnswer \/ ProveDone \/ ProverCallFails
    PROVE  Together'
<1>0. /\ IsParty(prover)
      /\ up => Live
      /\ prover.req \in Requests /\ verifier.req \in Requests
      /\ vm["prover"] \in Seq(Programs) /\ vm["verifier"] \in Seq(Programs)
      /\ ok["prover"] \in Seq(Requests) /\ ok["verifier"] \in Seq(Requests)
  BY DEF PartiesInv, TypeInv, Sides, ProverLate
<1>1. EarlyVm /\ (TagsUnread \/ Unanswered \/ Answered)
  BY DEF Together, Beginning, ProverEarly, ProverLate
<1>2. /\ verifier' = verifier /\ version' = version /\ vm'["verifier"] = vm["verifier"]
      /\ ok'["verifier"] = ok["verifier"] /\ prover'.st \in ProverLate
  <2>1. ASSUME NEW needs \in Needs, Prove(needs)
        PROVE  /\ verifier' = verifier /\ version' = version /\ vm'["verifier"] = vm["verifier"]
               /\ ok'["verifier"] = ok["verifier"] /\ prover'.st \in ProverLate
    BY <2>1 DEF Prove, ProverLate
  <2>2. CASE ProveAnswer
    BY <1>0, <2>2 DEF ProveAnswer, TypeInv, Sides, ProverLate, IsParty
  <2>3. CASE ProveDone
    BY <1>0, <2>3 DEF ProveDone, TypeInv, Sides, ProverLate, IsParty
  <2>4. CASE ProverCallFails
    BY <1>0, <2>4 DEF ProverCallFails, DropProver, TypeInv, Sides, ProverLate, IsParty
  <2> QED
    BY Zenon, <2>1, <2>2, <2>3, <2>4
<1>3. EarlyVm'
  <2>1. prover'.st \notin ProverEarly
    BY <1>2 DEF ProverLate, ProverEarly
  <2> QED
    BY <1>1, <1>2, <2>1 DEF EarlyVm, ProverEarly
<1>4. ASSUME TagsUnread' \/ Unanswered' \/ Answered'
      PROVE  Together'
  BY Zenon, <1>3, <1>4 DEF Together
<1>5. ASSUME vm' = vm, ok' = ok, toV' = toV, toP' = toP, toP = Empty
      PROVE  TagsUnread' \/ Unanswered'
  <2>0. Answered => toP # Empty
    <3>1. Answered => \E m, n : toP = One(m) \/ toP = Two(m, n)
      BY Zenon DEF Answered
    <3> QED
      BY <3>1, QueuesDiffer
  <2>1. TagsUnread \/ Unanswered
    BY Zenon, <1>1, <1>5, <2>0
  <2>2. CASE TagsUnread
    <3>1. VerifierEarlyQueue'
      BY Zenon, <1>2, <1>5, <2>2 DEF TagsUnread, VerifierEarlyQueue, CommitRequest
    <3> QED
      BY Zenon, <1>2, <1>5, <2>2, <3>1 DEF TagsUnread, SameVm, NoOutput
  <2>3. CASE Unanswered
    BY Zenon, <1>2, <1>5, <2>3 DEF Unanswered, SameVm, SameOutputs, ProverAhead, VerifierAhead, EndsWith
  <2> QED
    BY <2>1, <2>2, <2>3
<1>6. ASSUME NEW needs \in Needs, Prove(needs) PROVE Together'
  <2>1. /\ prover.st = "Committed" /\ vm' = vm /\ ok' = ok /\ toP' = toP
        /\ prover'.req = Request(calls + 1, needs) /\ calls < MaxProves
        /\ toV' = IF up THEN toV \o One(ProveRequest(prover'.req)) ELSE toV
    BY <1>6, PutToVerifier DEF Prove
  <2>2. toP = Empty /\ (TagsUnread \/ Unanswered)
    BY <1>1, <2>1 DEF TagsUnread, Unanswered, Answered
  <2>3. prover'.req \in Requests
    BY <1>6, <2>1, MaxProvesAssumption DEF Request, Requests, TypeInv
  <2>4. CASE ~up
    BY Zenon, <1>4, <1>5, <2>1, <2>2, <2>4
  <2>5. CASE up /\ verifier.st = "Tags" /\ toV = One(Part(Tags))
    <3>1. toV' = Two(Part(Tags), ProveRequest(prover'.req))
      BY Zenon, <2>1, <2>5, Queues
    <3>2. VerifierEarlyQueue'
      BY Zenon, <1>2, <2>3, <2>5, <3>1 DEF VerifierEarlyQueue
    <3>3. TagsUnread
      BY <2>2, <2>5 DEF Unanswered, Idle
    <3>4. TagsUnread'
      BY Zenon, <1>2, <2>1, <2>5, <3>2, <3>3 DEF TagsUnread, SameVm, NoOutput
    <3> QED
      BY Zenon, <1>4, <3>4
  <2>6. CASE up /\ verifier.st \in Idle /\ toV = Empty
    <3>1. toV' = One(ProveRequest(prover'.req))
      BY Zenon, <2>1, <2>6, Queues
    <3>2. SameVm /\ SameOutputs
      BY <2>2, <2>6 DEF TagsUnread, Unanswered, Idle
    <3>3. Unanswered'
      BY Zenon, <1>2, <2>1, <2>2, <2>3, <2>6, <3>1, <3>2 DEF Unanswered, SameVm, SameOutputs
    <3> QED
      BY Zenon, <1>4, <3>3
  <2>7. CASE up /\ verifier.st = "Verifying" /\ toV = One(Part(Proof(verifier.req)))
    <3>1. toV' = Two(Part(Proof(verifier.req)), ProveRequest(prover'.req))
      BY Zenon, <2>1, <2>7, Queues
    <3>2. /\ SameVm /\ ProverAhead(verifier.req)
          /\ EndsWith(vm["verifier"], Proof(verifier.req))
      BY <2>2, <2>7 DEF TagsUnread, Unanswered, Idle
    <3>3. Unanswered'
      <4>1. SameVm' /\ ProverAhead(verifier.req)' /\ EndsWith(vm["verifier"], Proof(verifier.req))'
        BY <1>2, <2>1, <3>2 DEF SameVm, ProverAhead, EndsWith
      <4>2. \E r \in Requests : toV' = Two(Part(Proof(verifier'.req)), ProveRequest(r))
        BY Zenon, <1>2, <2>3, <3>1
      <4> QED
        BY Zenon, <1>2, <2>1, <2>2, <2>7, <4>1, <4>2 DEF Unanswered
    <3> QED
      BY Zenon, <1>4, <3>3
  <2> QED
    BY Zenon, <1>0, <2>1, <2>4, <2>5, <2>6, <2>7, LiveCommitted
<1>7. CASE ProveAnswer
  <2>1. prover.st = "AwaitAnswer" /\ toP # Empty /\ toP' = Tail(toP) /\ ok' = ok
    BY Zenon, <1>7 DEF ProveAnswer, Kind, Empty
  <2>2. Answered
    BY <1>1, <2>1 DEF TagsUnread, Unanswered
  <2>3. CASE /\ verifier.st \in Idle /\ toP = One(Response(FALSE)) /\ toV = Empty
             /\ SameVm /\ SameOutputs
    <3>2. ~Head(toP).ok
      <4>1. Head(toP) = Response(FALSE)
        BY Zenon, <2>3, Queues
      <4> QED
        BY Zenon, <4>1, Messages
    <3>3. vm' = vm /\ toV' = toV /\ toP' = Empty
      BY Zenon, <1>7, <2>3, <3>2, Queues DEF ProveAnswer
    <3>4. Unanswered'
      BY Zenon, <1>2, <2>1, <2>3, <3>3 DEF Unanswered, SameVm, SameOutputs
    <3> QED
      BY Zenon, <1>4, <3>4
  <2>4. CASE /\ verifier.st = "Verifying" /\ verifier.req = prover.req
             /\ prover.req.needs # "unsupported" /\ toV = Empty
             /\ \/ toP = Two(Response(TRUE), Part(Proof(prover.req)))
                \/ toP = One(Response(TRUE)) /\ ~up
             /\ vm["verifier"] = Append(vm["prover"], Proof(prover.req)) /\ SameOutputs
    <3>1. Head(toP).ok
      <4>1. Head(toP) = Response(TRUE)
        BY Zenon, <2>4, Queues
      <4> QED
        BY Zenon, <4>1, Messages
    <3>2. /\ prover' = [prover EXCEPT !.st = "Proving"]
          /\ vm' = [vm EXCEPT !["prover"] = Append(@, Proof(prover.req))]
          /\ toV' = PutV(<<Part(Proof(prover.req))>>)
      BY Zenon, <1>7, <2>4, <3>1 DEF ProveAnswer
    <3>3. prover'.st = "Proving" /\ prover'.req = prover.req
      BY Zenon, <1>0, <3>2 DEF IsParty
    <3>4. vm'["prover"] = Append(vm["prover"], Proof(prover.req))
      BY Zenon, <3>2 DEF TypeInv, Sides
    <3>5. SameVm' /\ SameOutputs'
      BY Zenon, <1>2, <2>1, <2>4, <3>4 DEF SameVm, SameOutputs
    <3>6. EndsWith(vm["verifier"], Proof(prover.req))'
      <4>1. EndsWith(Append(vm["prover"], Proof(prover.req)), Proof(prover.req))
        <5>1. Proof(prover.req) \in Programs
          BY <1>0, ProgramsType
        <5> QED
          BY Zenon, <1>0, <5>1, AppendEnds
      <4> QED
        BY Zenon, <1>2, <2>4, <3>3, <4>1 DEF EndsWith
    <3>7. toV' = IF up THEN One(Part(Proof(prover.req))) ELSE Empty
      BY Zenon, <2>4, <3>2, PutToVerifier, Queues
    <3>8. CASE toP = Two(Response(TRUE), Part(Proof(prover.req)))
      <4>1. toP' = One(Part(Proof(prover.req)))
        BY Zenon, <2>1, <3>8, Queues
      <4>2. Answered'
        BY Zenon, <1>2, <2>4, <3>3, <3>5, <3>6, <3>7, <4>1 DEF Answered
      <4> QED
        BY Zenon, <1>4, <4>2
    <3>9. CASE toP = One(Response(TRUE)) /\ ~up
      <4>1. toP' = Empty /\ toV' = Empty
        BY Zenon, <2>1, <3>7, <3>9, Queues
      <4>2. Unanswered'
        BY Zenon, <1>2, <2>4, <3>5, <3>9, <4>1 DEF Unanswered
      <4> QED
        BY Zenon, <1>4, <4>2
    <3> QED
      BY Zenon, <2>4, <3>8, <3>9
  <2> QED
    BY Zenon, <2>1, <2>2, <2>3, <2>4 DEF Answered
<1>8. CASE ProveDone
  <2>1. /\ prover.st = "Proving" /\ toP # Empty /\ toP' = Tail(toP) /\ toV' = toV /\ vm' = vm
        /\ ok' = [ok EXCEPT !["prover"] = Append(@, prover.req)]
    BY Zenon, <1>8 DEF ProveDone, IsPart, Kind, Empty
  <2>2. ok'["prover"] = Append(ok["prover"], prover.req)
    BY Zenon, <2>1 DEF TypeInv, Sides
  <2>3. Answered
    BY <1>1, <2>1 DEF TagsUnread, Unanswered
  <2>4. toP' = Empty
    <3>1. toP = One(Part(Proof(prover.req)))
      BY <2>1, <2>3 DEF Answered
    <3> QED
      BY Zenon, <2>1, <3>1, Queues
  <2>5. CASE /\ verifier.st = "Verifying" /\ verifier.req = prover.req
             /\ toV = One(Part(Proof(prover.req))) \/ (toV = Empty /\ ~up)
             /\ SameVm /\ EndsWith(vm["verifier"], Proof(prover.req)) /\ SameOutputs
    <3>1. /\ SameVm' /\ EndsWith(vm["verifier"], Proof(verifier.req))'
          /\ ProverAhead(verifier.req)'
      BY Zenon, <1>2, <2>1, <2>2, <2>5 DEF SameVm, EndsWith, ProverAhead, SameOutputs
    <3>2. Unanswered'
      BY Zenon, <1>2, <2>1, <2>4, <2>5, <3>1 DEF Unanswered
    <3> QED
      BY Zenon, <1>4, <3>2
  <2>6. CASE verifier.st \in Idle /\ toV = Empty /\ SameVm /\ VerifierAhead(prover.req)
    <3>1. SameVm' /\ SameOutputs'
      BY Zenon, <1>2, <2>1, <2>2, <2>6 DEF SameVm, SameOutputs, VerifierAhead
    <3>2. Unanswered'
      BY Zenon, <1>2, <2>1, <2>4, <2>6, <3>1 DEF Unanswered
    <3> QED
      BY Zenon, <1>4, <3>2
  <2>7. prover.st # "AwaitAnswer"
    BY <2>1
  <2> QED
    BY Zenon, <2>3, <2>5, <2>6, <2>7 DEF Answered
<1>9. CASE ProverCallFails
  <2>1. prover.st \in {"AwaitAnswer", "Proving"} /\ UNCHANGED <<toP, vm, toV, ok>>
    <3>1. prover.st \in {"AwaitAnswer", "Proving"} \/ DropProver
      BY Zenon, <1>9 DEF ProverCallFails
    <3>2. prover.st \in {"AwaitAnswer", "Proving"}
      BY <3>1 DEF DropProver
    <3> QED
      BY Zenon, <1>9, <3>2 DEF ProverCallFails
  <2>2. CASE toP = Empty
    BY Zenon, <1>4, <1>5, <2>1, <2>2
  <2>3. CASE toP # Empty
    <3>1. Answered
      BY <1>1, <2>3 DEF TagsUnread, Unanswered
    <3>2. CASE prover.st = "AwaitAnswer"
      <4>1. Driven /\ ~Kind(toP, "response")
        BY <1>9, <2>3, <3>2 DEF ProverCallFails, CannotTake, Empty
      <4>2. \E b, x : toP \in {One(Response(b)), Two(Response(b), x)}
        BY Zenon, <3>1, <3>2 DEF Answered
      <4> QED
        BY <4>1, <4>2, Queues, Messages DEF Kind, Empty
    <3>3. CASE prover.st = "Proving"
      <4>1. Driven /\ ~IsPart(toP, Proof(prover.req))
        BY <1>9, <2>3, <3>3 DEF ProverCallFails, CannotTake, Empty
      <4>2. toP = One(Part(Proof(prover.req)))
        BY <3>1, <3>3 DEF Answered
      <4> QED
        BY <4>1, <4>2, Queues, Messages DEF IsPart, Kind, Empty
    <3> QED
      BY Zenon, <2>1, <3>2, <3>3
  <2> QED
    BY <2>2, <2>3
<1> QED
  BY Zenon, <1>6, <1>7, <1>8, <1>9
-----------------------------------------------------------------------------
(* Steps of the prover without its verifier *)

\* What a step of the prover leaves alone.
LEMMA ProverKeeps ==
    ASSUME TypeInv, ProverNext
    PROVE  /\ verifier' = verifier /\ version' = version /\ trusted' = trusted
           /\ vm'["verifier"] = vm["verifier"] /\ ok'["verifier"] = ok["verifier"]
           /\ ~ProveDone => ok' = ok
<1>1. verifier' = verifier /\ version' = version /\ trusted' = trusted /\ (~ProveDone => ok' = ok)
  BY Zenon DEF ProverNext, ProverCommit, ProverCommitResponse, ProverSetupDone, ProverConnect,
     ProverFinish, ProverCommitted, Prove, ProveAnswer, ProveDone, ProverCallFails, ProverDrop
<1>2. ok'["verifier"] = ok["verifier"]
  BY <1>1 DEF ProveDone, TypeInv, Sides
<1>3. \/ vm' = vm
      \/ \E x : vm' = [vm EXCEPT !["prover"] = x]
  BY Zenon DEF ProverNext, ProverCommit, ProverCommitResponse, ProverSetupDone, ProverConnect,
     ProverFinish, ProverCommitted, Prove, ProveAnswer, ProveDone, ProverCallFails, ProverDrop,
     DropProver
<1>4. vm'["verifier"] = vm["verifier"]
  BY <1>3 DEF TypeInv, Sides
<1> QED
  BY Zenon, <1>1, <1>2, <1>4

\* The last of the two is dropped.
LEMMA ProverLeavesLast ==
    ASSUME TypeInv, ProverAlone, vm'["verifier"] = vm["verifier"], ok' = ok
    PROVE  NobodyLeft'
<1>1. NobodyLeft
  <2>1. prover.req \in Requests
    BY DEF TypeInv
  <2>2. NoOutput => SameOutputs
    BY DEF NoOutput, SameOutputs
  <2> QED
    BY Zenon, <2>1, <2>2 DEF ProverAlone, NobodyLeft
<1> QED
  BY <1>1 DEF NobodyLeft, SameOutputs, ProverAhead, VerifierAhead, EndsWith

LEMMA ProverAloneSteps ==
    ASSUME TypeInv, PartiesInv, ProverAlone, prover.st # "Gone", verifier.st = "Gone",
           UNCHANGED up, ProverNext, prover'.st # "Gone"
    PROVE  ProverAlone'
<1>0. /\ IsParty(prover) /\ prover.req \in Requests
      /\ verifier' = verifier /\ vm'["verifier"] = vm["verifier"]
      /\ ok'["verifier"] = ok["verifier"]
      /\ ~ProveDone => ok' = ok
  BY Zenon, ProverKeeps DEF PartiesInv, TypeInv
<1>1. ASSUME prover'.st \in ProverEarly, ProverEarlyQueue', NoOutput, ~ProveDone
      PROVE  ProverAlone'
  BY Zenon, <1>0, <1>1 DEF ProverAlone, NoOutput
<1>2. ASSUME prover'.st \in ProverLate, toP' = Empty, ~ProveDone,
             \/ SameOutputs
             \/ \E r \in Requests : ProverAhead(r) /\ EndsWith(vm["verifier"], Proof(r))
             \/ \E r \in Requests : VerifierAhead(r) /\ ~up
      PROVE  ProverAlone'
  <2>1. CASE SameOutputs
    BY Zenon, <1>0, <1>2, <2>1 DEF ProverAlone, SameOutputs
  <2>2. ASSUME NEW r \in Requests, ProverAhead(r), EndsWith(vm["verifier"], Proof(r))
        PROVE  ProverAlone'
    <3>1. ProverAhead(r)' /\ EndsWith(vm["verifier"], Proof(r))'
      BY <1>0, <1>2, <2>2 DEF ProverAhead, EndsWith
    <3> QED
      BY Zenon, <1>2, <3>1 DEF ProverAlone
  <2>3. ASSUME NEW r \in Requests, VerifierAhead(r), ~up PROVE ProverAlone'
    <3>1. VerifierAhead(r)' /\ ~up'
      BY <1>0, <1>2, <2>3 DEF VerifierAhead
    <3> QED
      BY Zenon, <1>2, <3>1 DEF ProverAlone
  <2> QED
    BY Zenon, <1>2, <2>1, <2>2, <2>3
<1>3. CASE prover.st \in ProverEarly
  <2>1. ProverEarlyQueue /\ NoOutput
    <3>1. prover.st \notin ProverLate
      BY <1>3 DEF ProverEarly, ProverLate
    <3> QED
      BY Zenon, <3>1 DEF ProverAlone, ProverLate
  <2>2. ~ProveDone /\ ~ProveAnswer /\ (\A needs : ~Prove(needs)) /\ ~ProverCallFails /\ ~ProverDrop
    BY <1>3 DEF ProverEarly, ProveDone, ProveAnswer, Prove, ProverCallFails, ProverDrop, DropProver
  <2>3. CASE ProverCommit
    <3>1. prover.st = "Initialized" /\ prover'.st = "AwaitResponse" /\ toP' = toP
      BY <1>0, <2>3 DEF ProverCommit, IsParty
    <3>2. ProverEarlyQueue'
      BY <2>1, <3>1 DEF ProverEarlyQueue
    <3> QED
      BY <1>1, <2>1, <2>2, <3>1, <3>2 DEF ProverEarly
  <2>4. CASE ProverCommitResponse
    <3>1. /\ prover.st = "AwaitResponse" /\ prover'.st = "Setup" /\ toP # Empty
          /\ toP' = Tail(toP) /\ Head(toP).ok
      BY <1>0, <2>4 DEF ProverCommitResponse, DropProver, Kind, Empty, IsParty
    <3>2. toP \in {One(Response(TRUE)), Two(Response(TRUE), Part(Setup))}
      <4>1. toP # One(Response(FALSE))
        <5>1. Head(One(Response(FALSE))) = Response(FALSE) /\ ~Response(FALSE).ok
          BY Zenon, Queues, Messages
        <5> QED
          BY Zenon, <3>1, <5>1
      <4>2. prover.st \notin {"Setup", "CommitAccepted", "Connected", "Finishing"}
        BY <3>1
      <4> QED
        BY Zenon, <2>1, <3>1, <4>1, <4>2 DEF ProverEarlyQueue
    <3>3. toP' \in {Empty, One(Part(Setup))}
      BY Zenon, <3>1, <3>2, Queues
    <3>4. ProverEarlyQueue'
      BY Zenon, <3>1, <3>3 DEF ProverEarlyQueue
    <3> QED
      BY <1>1, <2>1, <2>2, <3>1, <3>4 DEF ProverEarly
  <2>5. CASE ProverSetupDone
    <3>1. prover.st = "Setup" /\ prover'.st = "CommitAccepted" /\ toP # Empty /\ toP' = Tail(toP)
      BY <1>0, <2>5 DEF ProverSetupDone, IsParty, IsPart, Kind, Empty
    <3>2. ProverEarlyQueue'
      BY <2>1, <3>1, Queues DEF ProverEarlyQueue
    <3> QED
      BY <1>1, <2>1, <2>2, <3>1, <3>2 DEF ProverEarly
  <2>6. CASE ProverConnect
    <3>1. prover.st = "CommitAccepted" /\ prover'.st = "Connected" /\ toP' = toP
      BY <1>0, <2>6 DEF ProverConnect, IsParty
    <3>2. ProverEarlyQueue'
      BY <2>1, <3>1 DEF ProverEarlyQueue
    <3> QED
      BY <1>1, <2>1, <2>2, <3>1, <3>2 DEF ProverEarly
  <2>7. CASE ProverFinish
    <3>1. prover.st = "Connected" /\ prover'.st = "Finishing" /\ toP # Empty /\ toP' = Tail(toP)
      BY <1>0, <2>7 DEF ProverFinish, IsParty, IsPart, Kind, Empty
    <3>2. ProverEarlyQueue'
      BY <1>0, <2>1, <3>1, Queues DEF ProverEarlyQueue, Tagging
    <3> QED
      BY <1>1, <2>1, <2>2, <3>1, <3>2 DEF ProverEarly
  <2>8. CASE ProverCommitted
    <3>1. prover.st = "Finishing" /\ prover'.st = "Committed" /\ toP # Empty /\ toP' = Tail(toP)
      BY <1>0, <2>8 DEF ProverCommitted, IsParty, IsPart, Kind, Empty
    <3>2. toP' = Empty
      BY <2>1, <3>1, Queues DEF ProverEarlyQueue
    <3>3. SameOutputs
      BY <2>1 DEF NoOutput, SameOutputs
    <3> QED
      BY Zenon, <1>2, <2>2, <3>1, <3>2, <3>3 DEF ProverLate
  <2> QED
    BY Zenon, <2>2, <2>3, <2>4, <2>5, <2>6, <2>7, <2>8 DEF ProverNext
<1>4. CASE prover.st \in ProverLate
  <2>1. \/ \E needs \in Needs : Prove(needs)
        \/ ProveAnswer \/ ProveDone
        \/ ProverCallFails /\ prover.st \in {"AwaitAnswer", "Proving"}
    BY <1>4 DEF ProverNext, ProverLate, ProverCommit, ProverCommitResponse, ProverSetupDone,
       ProverConnect, ProverFinish, ProverCommitted, ProverCallFails, ProverDrop, DropProver
  <2>2. CASE /\ toP = Empty
             /\ \/ SameOutputs
                \/ \E r \in Requests : ProverAhead(r) /\ EndsWith(vm["verifier"], Proof(r))
                \/ \E r \in Requests : VerifierAhead(r) /\ ~up
    <3>1. ~ProveAnswer /\ ~ProveDone
      BY Zenon, <2>2 DEF ProveAnswer, ProveDone, IsPart, Kind, Empty
    <3>2. prover'.st \in ProverLate /\ toP' = toP
      BY <1>0, <2>1, <3>1 DEF Prove, ProverCallFails, ProverLate, IsParty
    <3> QED
      BY Zenon, <1>2, <2>2, <3>1, <3>2
  <2>3. ASSUME prover.st = "AwaitAnswer", NEW b \in BOOLEAN, toP = One(Response(b)), SameOutputs
        PROVE  ProverAlone'
    <3>1. ProveAnswer /\ ~ProveDone
      <4>1. ~ProverCallFails
        <5>1. ~CannotTake(toP, VerifierGone, Kind(toP, "response"))
          BY Zenon, <2>3, ResponseTaken
        <5> QED
          BY <2>3, <5>1 DEF ProverCallFails
      <4>2. ~ProveDone /\ \A needs : ~Prove(needs)
        BY <2>3 DEF ProveDone, Prove
      <4> QED
        BY Zenon, <2>1, <4>1, <4>2
    <3>2. prover'.st \in ProverLate /\ toP' = Tail(toP)
      BY <1>0, <3>1 DEF ProveAnswer, ProverLate, IsParty
    <3>3. toP' = Empty
      BY Zenon, <2>3, <3>2, Queues
    <3> QED
      BY Zenon, <1>2, <2>3, <3>1, <3>2, <3>3
  <2>4. CASE /\ prover.st = "AwaitAnswer" /\ toP = Two(Response(TRUE), Part(Proof(prover.req)))
             /\ SameOutputs /\ EndsWith(vm["verifier"], Proof(prover.req))
             /\ prover.req.needs # "unsupported"
    <3>1. ProveAnswer /\ ~ProveDone
      <4>1. ~ProverCallFails
        <5>1. ~CannotTake(toP, VerifierGone, Kind(toP, "response"))
          BY Zenon, <2>4, ResponseTaken
        <5> QED
          BY Zenon, <2>4, <5>1 DEF ProverCallFails
      <4>2. ~ProveDone /\ \A needs : ~Prove(needs)
        BY <2>4 DEF ProveDone, Prove
      <4> QED
        BY Zenon, <2>1, <4>1, <4>2
    <3>2. Head(toP).ok
      <4>1. Head(toP) = Response(TRUE)
        BY Zenon, <2>4, Queues
      <4> QED
        BY Zenon, <4>1, Messages
    <3>3. prover'.st = "Proving" /\ prover'.req = prover.req /\ toP' = Tail(toP)
      <4>1. prover' = [prover EXCEPT !.st = "Proving"] /\ toP' = Tail(toP)
        BY Zenon, <2>4, <3>1, <3>2 DEF ProveAnswer
      <4> QED
        BY Zenon, <1>0, <4>1 DEF IsParty
    <3>4. toP' = One(Part(Proof(prover.req)))
      BY Zenon, <2>4, <3>3, Queues
    <3>5. SameOutputs' /\ EndsWith(vm["verifier"], Proof(prover.req))'
      BY Zenon, <1>0, <2>4, <3>1, <3>3 DEF SameOutputs, EndsWith
    <3> QED
      BY Zenon, <3>3, <3>4, <3>5 DEF ProverAlone
  <2>5. CASE /\ prover.st = "Proving" /\ toP = One(Part(Proof(prover.req)))
             /\ \/ SameOutputs /\ EndsWith(vm["verifier"], Proof(prover.req))
                \/ VerifierAhead(prover.req)
    <3>1. ProveDone
      <4>1. ~ProverCallFails
        <5>1. ~CannotTake(toP, VerifierGone, IsPart(toP, Proof(prover.req)))
          BY Zenon, <2>5, PartTaken
        <5> QED
          BY <2>5, <5>1 DEF ProverCallFails
      <4>2. ~ProveAnswer /\ \A needs : ~Prove(needs)
        BY <2>5 DEF ProveAnswer, Prove
      <4> QED
        BY Zenon, <2>1, <4>1, <4>2
    <3>2. prover'.st = "Committed" /\ toP' = Tail(toP)
      BY <1>0, <3>1 DEF ProveDone, IsParty
    <3>3. toP' = Empty
      BY Zenon, <2>5, <3>2, Queues
    <3>4. ok'["prover"] = Append(ok["prover"], prover.req)
      BY Zenon, <3>1 DEF ProveDone, TypeInv, Sides
    <3>5. CASE SameOutputs /\ EndsWith(vm["verifier"], Proof(prover.req))
      <4>1. ok'["prover"] = Append(ok'["verifier"], prover.req)
        BY Zenon, <1>0, <3>4, <3>5 DEF SameOutputs
      <4>2. EndsWith(vm'["verifier"], Proof(prover.req))
        BY Zenon, <1>0, <3>5
      <4> QED
        BY Zenon, <1>0, <3>2, <3>3, <4>1, <4>2 DEF ProverAlone, ProverLate, ProverAhead, EndsWith
    <3>6. CASE VerifierAhead(prover.req)
      <4>1. SameOutputs'
        BY Zenon, <1>0, <3>4, <3>6 DEF SameOutputs, VerifierAhead
      <4> QED
        BY Zenon, <3>2, <3>3, <4>1 DEF ProverAlone, ProverLate
    <3> QED
      BY Zenon, <2>5, <3>5, <3>6
  <2>6. prover.st \notin ProverEarly
    BY <1>4 DEF ProverEarly, ProverLate
  <2> QED
    BY Zenon, <2>2, <2>3, <2>4, <2>5, <2>6 DEF ProverAlone
<1> QED
  BY Zenon, <1>3, <1>4 DEF ProverAlone, ProverLate
-----------------------------------------------------------------------------
(* Steps of the verifier while the prover is there *)

\* What is put on the stream of a prover that is there.
LEMMA PutToProver ==
    ASSUME prover.st # "Gone"
    PROVE  /\ \A m : PutP(<<m>>) = IF up THEN toP \o One(m) ELSE toP
           /\ \A m, n : PutP(<<m, n>>) = IF up THEN toP \o Two(m, n) ELSE toP
BY DEF PutP, One, Two

\* Where the prover is, from where the verifier is.
LEMMA LiveVerifier ==
    ASSUME Live
    PROVE  /\ verifier.st = "AwaitCommit" /\ toV # Empty => prover.st = "AwaitResponse" /\ toP = Empty
           /\ verifier.st = "CommitStart" => prover.st = "AwaitResponse" /\ toP = Empty
           /\ verifier.st = "CommitAccepted" =>
                \/ prover.st = "Setup" /\ toP = One(Part(Setup))
                \/ prover.st \in {"CommitAccepted", "Connected"} /\ toP = Empty
           /\ verifier.st = "Running" /\ toV # Empty =>
                \/ prover.st = "Connected" /\ toP = One(Part(Tls))
                \/ prover.st = "Finishing" /\ toP = Empty
           /\ verifier.st = "Verify" =>
                prover.st = "AwaitAnswer" /\ toP = Empty /\ verifier.req = prover.req
<1> USE DEF Live, Starting, SettingUp, Finishing, Answering, Proved, At, Idle
<1>1. verifier.st = "AwaitCommit" /\ toV # Empty => prover.st = "AwaitResponse" /\ toP = Empty
  OBVIOUS
<1>2. verifier.st = "CommitStart" => prover.st = "AwaitResponse" /\ toP = Empty
  OBVIOUS
<1>3. verifier.st = "CommitAccepted" =>
        \/ prover.st = "Setup" /\ toP = One(Part(Setup))
        \/ prover.st \in {"CommitAccepted", "Connected"} /\ toP = Empty
  OBVIOUS
<1>4. verifier.st = "Running" /\ toV # Empty =>
        \/ prover.st = "Connected" /\ toP = One(Part(Tls))
        \/ prover.st = "Finishing" /\ toP = Empty
  OBVIOUS
<1>5. verifier.st = "Verify" =>
        prover.st = "AwaitAnswer" /\ toP = Empty /\ verifier.req = prover.req
  OBVIOUS
<1> HIDE DEF Live, Starting, SettingUp, Finishing, Answering, Proved, At, Idle
<1> QED
  BY Zenon, <1>1, <1>2, <1>3, <1>4, <1>5

\* What a step of the verifier leaves alone.
LEMMA VerifierKeeps ==
    ASSUME TypeInv, VerifierNext
    PROVE  /\ prover' = prover /\ version' = version /\ trusted' = trusted /\ calls' = calls
           /\ vm'["prover"] = vm["prover"] /\ ok'["prover"] = ok["prover"]
           /\ ~VerifyDone => ok' = ok
<1>1. /\ prover' = prover /\ version' = version /\ trusted' = trusted /\ calls' = calls
      /\ ~VerifyDone => ok' = ok
  BY Zenon DEF VerifierNext, VerifierCommit, VerifierCommitRequest, CommitAccept, CommitReject,
     VerifierSetupDone, Run, RunVerifyTags, RunDone, Verify, VerifyRequest, VerifyReject,
     VerifyAccept, VerifyDone, VerifierCallFails, VerifierDrop
<1>2. ok'["prover"] = ok["prover"]
  BY <1>1 DEF VerifyDone, TypeInv, Sides
<1>3. \/ vm' = vm
      \/ \E x : vm' = [vm EXCEPT !["verifier"] = x]
  BY Zenon DEF VerifierNext, VerifierCommit, VerifierCommitRequest, CommitAccept, CommitReject,
     VerifierSetupDone, Run, RunVerifyTags, RunDone, Verify, VerifyRequest, VerifyReject,
     VerifyAccept, VerifyDone, VerifierCallFails, VerifierDrop
<1>4. vm'["prover"] = vm["prover"]
  BY <1>3 DEF TypeInv, Sides
<1> QED
  BY Zenon, <1>1, <1>2, <1>4

\* A verifier that is not committed yet.
LEMMA VerifierEarlySteps ==
    ASSUME TypeInv, PartiesInv, Together, verifier.st \in VerifierEarly, prover.st # "Gone",
           UNCHANGED up, VerifierNext, verifier'.st # "Gone"
    PROVE  Together'
<1>0. /\ IsParty(verifier)
      /\ up => Live
      /\ prover' = prover /\ version' = version /\ vm'["prover"] = vm["prover"]
      /\ vm["verifier"] \in Seq(Programs)
  BY Zenon, VerifierKeeps DEF PartiesInv, TypeInv, Sides, VerifierEarly
<1>1. EarlyVm /\ NoOutput /\ VerifierEarlyQueue /\ (Beginning \/ TagsUnread)
  <2>1. verifier.st \notin Idle \cup {"Verify", "Verifying"}
    BY DEF VerifierEarly, Idle
  <2>2. Beginning \/ TagsUnread
    BY Zenon, <2>1 DEF Together, Unanswered, Answered
  <2> QED
    BY Zenon, <2>2 DEF Together, Beginning, TagsUnread
<1>2. ~VerifyDone /\ ~Verify /\ ~VerifyRequest /\ ~VerifyReject /\ ~VerifyAccept
      /\ ~VerifierCallFails /\ ~VerifierDrop /\ ~CommitReject
  BY DEF VerifierEarly, VerifyDone, Verify, VerifyRequest, VerifyReject, VerifyAccept,
     VerifierCallFails, VerifierDrop, CommitReject, DropVerifier
<1>3. ok' = ok /\ NoOutput'
  BY Zenon, <1>1, <1>2, VerifierKeeps DEF NoOutput
<1>4. ASSUME Beginning, verifier'.st \in VerifierEarly, ProverEarlyQueue', VerifierEarlyQueue',
             /\ verifier'.st \in {"Initialized", "AwaitCommit", "CommitStart"} => vm'["verifier"] = <<>>
             /\ verifier'.st \in {"Setup", "CommitAccepted", "Running"} => vm'["verifier"] = <<Setup>>
             /\ verifier'.st = "Tags" => vm'["verifier"] = <<Setup, Tags>>
      PROVE  Together'
  <2>1. EarlyVm'
    BY <1>0, <1>1, <1>4 DEF EarlyVm
  <2>2. Beginning'
    <3>1. verifier'.st \notin Idle
      BY <1>4 DEF VerifierEarly, Idle
    <3> QED
      BY Zenon, <1>0, <1>3, <1>4, <3>1 DEF Beginning
  <2> QED
    BY <2>1, <2>2 DEF Together
<1>5. verifier.st # "Tags" => Beginning /\ ProverEarlyQueue
  BY Zenon, <1>1 DEF Beginning, TagsUnread
<1>6. CASE VerifierCommit
  <2>1. /\ verifier.st = "Initialized" /\ verifier'.st = "AwaitCommit"
        /\ vm' = vm /\ toP' = toP /\ toV' = toV
    BY <1>0, <1>6 DEF VerifierCommit, IsParty
  <2>2. ProverEarlyQueue'
    BY Zenon, <1>0, <1>5, <2>1 DEF ProverEarlyQueue, Tagging, Idle
  <2>3. VerifierEarlyQueue'
    BY <1>0, <1>1, <2>1 DEF VerifierEarlyQueue, CommitRequest
  <2>4. vm'["verifier"] = <<>>
    BY <1>1, <2>1 DEF EarlyVm
  <2> QED
    BY <1>4, <1>5, <2>1, <2>2, <2>3, <2>4 DEF VerifierEarly
<1>7. CASE VerifierCommitRequest
  <2>1. /\ verifier.st = "AwaitCommit" /\ verifier'.st = "CommitStart" /\ toV # Empty
        /\ vm' = vm /\ toP' = toP /\ toV' = Tail(toV)
    BY <1>0, <1>7 DEF VerifierCommitRequest, DropVerifier, IsParty, Kind, Empty
  <2>2. ProverEarlyQueue'
    BY Zenon, <1>0, <1>5, <2>1 DEF ProverEarlyQueue, Tagging, Idle
  <2>3. VerifierEarlyQueue'
    <3>1. toV = One(CommitRequest)
      BY <1>1, <2>1 DEF VerifierEarlyQueue
    <3> QED
      BY Zenon, <2>1, <3>1, Queues DEF VerifierEarlyQueue
  <2>4. vm'["verifier"] = <<>>
    BY <1>1, <2>1 DEF EarlyVm
  <2> QED
    BY <1>4, <1>5, <2>1, <2>2, <2>3, <2>4 DEF VerifierEarly
<1>8. CASE CommitAccept
  <2>1. /\ verifier.st = "CommitStart" /\ verifier' = [verifier EXCEPT !.st = "Setup"]
        /\ toV' = toV /\ toP' = PutP(<<Response(TRUE), Part(Setup)>>)
        /\ vm' = [vm EXCEPT !["verifier"] = Append(@, Setup)]
    BY Zenon, <1>8 DEF CommitAccept
  <2>2. verifier'.st = "Setup"
    BY <1>0, <2>1 DEF IsParty
  <2>3. ProverEarlyQueue'
    <3>1. toP' = IF up THEN toP \o Two(Response(TRUE), Part(Setup)) ELSE toP
      BY Zenon, <2>1, PutToProver
    <3>2. CASE up
      <4>1. prover.st = "AwaitResponse" /\ toP = Empty
        BY Zenon, <1>0, <2>1, <3>2, LiveVerifier
      <4>2. toP' = Two(Response(TRUE), Part(Setup))
        BY Zenon, <3>1, <3>2, <4>1, Queues
      <4> QED
        BY Zenon, <1>0, <4>1, <4>2 DEF ProverEarlyQueue
    <3>3. CASE ~up
      BY Zenon, <1>0, <1>5, <2>1, <3>1, <3>3 DEF ProverEarlyQueue, Tagging, Idle
    <3> QED
      BY <3>2, <3>3
  <2>4. VerifierEarlyQueue'
    BY <1>1, <2>1 DEF VerifierEarlyQueue
  <2>5. vm'["verifier"] = <<Setup>>
    <3>1. vm["verifier"] = <<>>
      BY <1>1, <2>1 DEF EarlyVm
    <3>2. vm'["verifier"] = Append(vm["verifier"], Setup)
      BY Zenon, <2>1 DEF TypeInv, Sides
    <3> QED
      BY Zenon, <3>1, <3>2, FirstPrograms
  <2> QED
    BY <1>4, <1>5, <2>1, <2>2, <2>3, <2>4, <2>5 DEF VerifierEarly
<1>9. CASE VerifierSetupDone
  <2>1. /\ verifier.st = "Setup" /\ verifier'.st = "CommitAccepted" /\ toV # Empty
        /\ vm' = vm /\ toP' = toP /\ toV' = Tail(toV)
    BY <1>0, <1>9 DEF VerifierSetupDone, IsParty, IsPart, Kind, Empty
  <2>2. ProverEarlyQueue'
    BY Zenon, <1>0, <1>5, <2>1 DEF ProverEarlyQueue, Tagging, Idle
  <2>3. VerifierEarlyQueue'
    BY <1>1, <2>1, Queues DEF VerifierEarlyQueue
  <2>4. vm'["verifier"] = <<Setup>>
    BY <1>1, <2>1 DEF EarlyVm
  <2> QED
    BY <1>4, <1>5, <2>1, <2>2, <2>3, <2>4 DEF VerifierEarly
<1>10. CASE Run
  <2>1. /\ verifier.st = "CommitAccepted" /\ verifier'.st = "Running"
        /\ vm' = vm /\ toV' = toV /\ toP' = PutP(<<Part(Tls)>>)
    BY <1>0, <1>10 DEF Run, IsParty
  <2>2. ProverEarlyQueue'
    <3>1. toP' = IF up THEN toP \o One(Part(Tls)) ELSE toP
      BY Zenon, <2>1, PutToProver
    <3>2. CASE up
      <4>1. \/ prover.st = "Setup" /\ toP = One(Part(Setup))
            \/ prover.st \in {"CommitAccepted", "Connected"} /\ toP = Empty
        BY Zenon, <1>0, <2>1, <3>2, LiveVerifier
      <4>2. \/ prover.st = "Setup" /\ toP' = Two(Part(Setup), Part(Tls))
            \/ prover.st \in {"CommitAccepted", "Connected"} /\ toP' = One(Part(Tls))
        BY Zenon, <3>1, <3>2, <4>1, Queues
      <4> QED
        BY Zenon, <1>0, <4>2 DEF ProverEarlyQueue
    <3>3. CASE ~up
      BY Zenon, <1>0, <1>5, <2>1, <3>1, <3>3 DEF ProverEarlyQueue, Tagging, Idle
    <3> QED
      BY <3>2, <3>3
  <2>3. VerifierEarlyQueue'
    BY <1>1, <2>1 DEF VerifierEarlyQueue
  <2>4. vm'["verifier"] = <<Setup>>
    BY <1>1, <2>1 DEF EarlyVm
  <2> QED
    BY <1>4, <1>5, <2>1, <2>2, <2>3, <2>4 DEF VerifierEarly
<1>11. CASE RunVerifyTags
  <2>1. /\ verifier.st = "Running" /\ verifier' = [verifier EXCEPT !.st = "Tags"]
        /\ toV # Empty /\ toV' = Tail(toV) /\ toP' = PutP(<<Part(Tags)>>)
        /\ vm' = [vm EXCEPT !["verifier"] = Append(@, Tags)]
    BY Zenon, <1>11 DEF RunVerifyTags, IsPart, Kind, Empty
  <2>2. verifier'.st = "Tags"
    BY <1>0, <2>1 DEF IsParty
  <2>3. ProverEarlyQueue'
    <3>1. toP' = IF up THEN toP \o One(Part(Tags)) ELSE toP
      BY Zenon, <2>1, PutToProver
    <3>2. CASE up
      <4>1. \/ prover.st = "Connected" /\ toP = One(Part(Tls))
            \/ prover.st = "Finishing" /\ toP = Empty
        BY Zenon, <1>0, <2>1, <3>2, LiveVerifier
      <4>2. \/ prover.st = "Connected" /\ toP' = Two(Part(Tls), Part(Tags))
            \/ prover.st = "Finishing" /\ toP' = One(Part(Tags))
        BY Zenon, <3>1, <3>2, <4>1, Queues
      <4> QED
        BY Zenon, <1>0, <2>2, <4>2 DEF ProverEarlyQueue, Tagging
    <3>3. CASE ~up
      BY Zenon, <1>0, <1>5, <2>1, <2>2, <3>1, <3>3 DEF ProverEarlyQueue, Tagging, Idle
    <3> QED
      BY <3>2, <3>3
  <2>4. VerifierEarlyQueue'
    <3>1. toV \in {One(Part(Tls)), Two(Part(Tls), Part(Tags))}
      BY <1>1, <2>1 DEF VerifierEarlyQueue
    <3>2. toV' \in {Empty, One(Part(Tags))}
      BY Zenon, <2>1, <3>1, Queues
    <3> QED
      BY Zenon, <2>2, <3>2 DEF VerifierEarlyQueue
  <2>5. vm'["verifier"] = <<Setup, Tags>>
    <3>1. vm["verifier"] = <<Setup>>
      BY <1>1, <2>1 DEF EarlyVm
    <3>2. vm'["verifier"] = Append(vm["verifier"], Tags)
      BY Zenon, <2>1 DEF TypeInv, Sides
    <3> QED
      BY Zenon, <3>1, <3>2, FirstPrograms
  <2> QED
    BY <1>4, <1>5, <2>1, <2>2, <2>3, <2>4, <2>5 DEF VerifierEarly
<1>12. CASE RunDone
  <2>1. /\ verifier.st = "Tags" /\ verifier'.st = "Committed" /\ toV # Empty
        /\ vm' = vm /\ toP' = toP /\ toV' = Tail(toV)
    BY <1>0, <1>12 DEF RunDone, DropVerifier, IsParty, IsPart, Kind, Empty
  <2>2. \/ toV = One(Part(Tags))
        \/ /\ prover.st \in ProverLate \cup {"Gone"}
           /\ \E r \in Requests : toV = Two(Part(Tags), ProveRequest(r))
    BY <1>1, <2>1 DEF VerifierEarlyQueue
  <2>3. EarlyVm' /\ vm'["verifier"] = <<Setup, Tags>>
    BY <1>0, <1>1, <2>1 DEF EarlyVm
  <2>4. CASE Beginning
    <3>1. toV' = Empty
      <4>1. prover.st \notin ProverLate \cup {"Gone"}
        BY <2>4 DEF Beginning, ProverEarly, ProverLate
      <4> QED
        BY Zenon, <2>1, <2>2, <4>1, Queues
    <3>2. ProverEarlyQueue'
      BY Zenon, <1>0, <2>1, <2>4 DEF Beginning, ProverEarlyQueue, Tagging, Idle
    <3>3. VerifierEarlyQueue'
      BY Zenon, <3>1 DEF VerifierEarlyQueue
    <3>4. Beginning'
      BY Zenon, <1>0, <1>3, <2>1, <2>3, <2>4, <3>2, <3>3 DEF Beginning, Idle
    <3> QED
      BY Zenon, <2>3, <3>4 DEF Together
  <2>5. CASE TagsUnread
    <3>1. \/ toV' = Empty
          \/ \E r \in Requests : toV' = One(ProveRequest(r))
      <4>1. CASE toV = One(Part(Tags))
        BY Zenon, <2>1, <4>1, Queues
      <4>2. ASSUME NEW r \in Requests, toV = Two(Part(Tags), ProveRequest(r))
            PROVE  toV' = One(ProveRequest(r))
        BY Zenon, <2>1, <4>2, Queues
      <4> QED
        BY Zenon, <2>2, <4>1, <4>2
    <3>2. SameVm' /\ SameOutputs'
      BY <1>3, <2>1, <2>5 DEF TagsUnread, SameVm, SameOutputs, NoOutput
    <3>3. Unanswered'
      BY Zenon, <1>0, <2>1, <2>5, <3>1, <3>2 DEF TagsUnread, Unanswered, Idle
    <3> QED
      BY Zenon, <2>3, <3>3 DEF Together
  <2> QED
    BY <1>1, <2>4, <2>5
<1> QED
  BY Zenon, <1>2, <1>6, <1>7, <1>8, <1>9, <1>10, <1>11, <1>12 DEF VerifierNext
\* A committed verifier.
LEMMA VerifierLateSteps ==
    ASSUME TypeInv, PartiesInv, Together, verifier.st \in VerifierLate, prover.st # "Gone",
           UNCHANGED up, VerifierNext, verifier'.st # "Gone"
    PROVE  Together'
<1>0. /\ IsParty(verifier)
      /\ up => Live
      /\ prover' = prover /\ version' = version
      /\ vm'["prover"] = vm["prover"] /\ ok'["prover"] = ok["prover"]
      /\ ~VerifyDone => ok' = ok
      /\ prover.req \in Requests /\ verifier.req \in Requests
      /\ vm["prover"] \in Seq(Programs) /\ vm["verifier"] \in Seq(Programs)
  BY Zenon, VerifierKeeps DEF PartiesInv, TypeInv, Sides, VerifierLate
<1>1. EarlyVm /\ (Beginning \/ Unanswered \/ Answered)
  BY DEF Together, TagsUnread, VerifierLate
<1>2. Verify \/ VerifyRequest \/ VerifyReject \/ VerifyAccept \/ VerifyDone
  BY DEF VerifierNext, VerifierLate, VerifierCommit, VerifierCommitRequest, CommitAccept,
     CommitReject, VerifierSetupDone, Run, RunVerifyTags, RunDone, VerifierCallFails,
     VerifierDrop, DropVerifier
<1>3. verifier'.st \in VerifierLate
  BY <1>0, <1>2 DEF Verify, VerifyRequest, VerifyReject, VerifyAccept, VerifyDone, DropVerifier,
     VerifierLate, IsParty
<1>4. EarlyVm'
  BY <1>0, <1>1, <1>3 DEF EarlyVm, VerifierLate
<1>5. ASSUME Beginning' \/ Unanswered' \/ Answered'
      PROVE  Together'
  BY Zenon, <1>4, <1>5 DEF Together
<1>6. CASE Verify
  <2>1. /\ verifier.st = "Committed" /\ verifier'.st = "AwaitProve"
        /\ vm' = vm /\ toV' = toV /\ toP' = toP /\ ok' = ok
    BY <1>0, <1>6 DEF Verify, IsParty
  <2>2. CASE Beginning
    <3>1. toV = Empty
      BY <2>1, <2>2 DEF Beginning, VerifierEarlyQueue
    <3>2. ProverEarlyQueue' /\ VerifierEarlyQueue'
      BY Zenon, <1>0, <2>1, <2>2, <3>1
         DEF Beginning, ProverEarlyQueue, VerifierEarlyQueue, Tagging, Idle
    <3>3. Beginning'
      BY Zenon, <1>0, <2>1, <2>2, <3>2 DEF Beginning, NoOutput, Idle, Setup, Tags
    <3> QED
      BY Zenon, <1>5, <3>3
  <2>3. CASE Unanswered
    <3>1. Unanswered'
      BY Zenon, <1>0, <2>1, <2>3 DEF Unanswered, SameVm, SameOutputs, VerifierAhead, Idle
    <3> QED
      BY Zenon, <1>5, <3>1
  <2>4. CASE Answered
    <3>1. Answered'
      BY Zenon, <1>0, <2>1, <2>4 DEF Answered, SameVm, SameOutputs, VerifierAhead, Idle
    <3> QED
      BY Zenon, <1>5, <3>1
  <2> QED
    BY <1>1, <2>2, <2>3, <2>4
<1>7. CASE VerifyRequest
  <2>1. /\ verifier.st = "AwaitProve" /\ verifier'.st = "Verify" /\ toV # Empty
        /\ vm' = vm /\ toV' = Tail(toV) /\ toP' = toP /\ ok' = ok
    BY <1>7 DEF VerifyRequest, Kind, Empty
  <2>2. /\ prover.st \in ProverLate /\ toP = Empty /\ SameVm /\ SameOutputs
        /\ \E r \in Requests : toV = One(ProveRequest(r))
    BY Zenon, <1>1, <2>1 DEF Beginning, VerifierEarlyQueue, Unanswered, Answered, Idle
  <2>3. toV' = Empty
    BY Zenon, <2>1, <2>2, Queues
  <2>4. Unanswered'
    BY Zenon, <1>0, <2>1, <2>2, <2>3 DEF Unanswered, SameVm, SameOutputs
  <2> QED
    BY Zenon, <1>5, <2>4
<1>8. CASE VerifyReject
  <2>1. /\ verifier.st = "Verify" /\ verifier'.st = "Committed"
        /\ vm' = vm /\ toV' = toV /\ ok' = ok /\ toP' = PutP(<<Response(FALSE)>>)
    BY <1>0, <1>8 DEF VerifyReject, IsParty
  <2>2. prover.st \in ProverLate /\ toP = Empty /\ SameVm /\ SameOutputs /\ toV = Empty
    BY Zenon, <1>1, <2>1 DEF Beginning, VerifierEarly, Unanswered, Answered, Idle
  <2>3. CASE up
    <3>1. prover.st = "AwaitAnswer"
      BY Zenon, <1>0, <2>1, <2>3, LiveVerifier
    <3>2. toP' = One(Response(FALSE))
      BY Zenon, <2>1, <2>2, <2>3, PutToProver, Queues
    <3>3. Answered'
      BY Zenon, <1>0, <2>1, <2>2, <3>1, <3>2 DEF Answered, SameVm, SameOutputs, Idle
    <3> QED
      BY Zenon, <1>5, <3>3
  <2>4. CASE ~up
    <3>1. toP' = Empty
      BY Zenon, <2>1, <2>2, <2>4, PutToProver
    <3>2. Unanswered'
      BY Zenon, <1>0, <2>1, <2>2, <3>1 DEF Unanswered, SameVm, SameOutputs, Idle
    <3> QED
      BY Zenon, <1>5, <3>2
  <2> QED
    BY <2>3, <2>4
<1>9. CASE VerifyAccept
  <2>0. verifier.req.needs # "unsupported" /\ ~DropVerifier
    BY <1>9 DEF VerifyAccept, DropVerifier
  <2>1. /\ verifier.st = "Verify" /\ verifier' = [verifier EXCEPT !.st = "Verifying"]
        /\ toV' = toV /\ ok' = ok /\ toP' = PutP(<<Response(TRUE), Part(Proof(verifier.req))>>)
        /\ vm' = [vm EXCEPT !["verifier"] = Append(@, Proof(verifier.req))]
    BY Zenon, <1>9, <2>0 DEF VerifyAccept
  <2>2. verifier'.st = "Verifying" /\ verifier'.req = verifier.req
    BY Zenon, <1>0, <2>1 DEF IsParty
  <2>3. vm'["verifier"] = Append(vm["verifier"], Proof(verifier.req))
    BY Zenon, <2>1 DEF TypeInv, Sides
  <2>4. prover.st \in ProverLate /\ toP = Empty /\ SameVm /\ SameOutputs /\ toV = Empty
    BY <1>1, <2>1 DEF Beginning, VerifierEarly, Unanswered, Answered, Idle
  <2>5. SameOutputs'
    BY Zenon, <2>1, <2>4 DEF SameOutputs
  <2>6. CASE up
    <3>1. prover.st = "AwaitAnswer" /\ verifier.req = prover.req
      BY Zenon, <1>0, <2>1, <2>6, LiveVerifier
    <3>2. toP' = Two(Response(TRUE), Part(Proof(prover.req)))
      <4>1. toP' = Two(Response(TRUE), Part(Proof(verifier.req)))
        <5>1. toP' = IF up THEN toP \o Two(Response(TRUE), Part(Proof(verifier.req))) ELSE toP
          BY Zenon, <2>1, PutToProver
        <5> QED
          BY Zenon, <2>4, <2>6, <5>1, Queues
      <4> QED
        BY Zenon, <3>1, <4>1
    <3>3. vm'["verifier"] = Append(vm'["prover"], Proof(prover.req))
      BY Zenon, <1>0, <2>3, <2>4, <3>1 DEF SameVm
    <3>4. Answered'
      BY Zenon, <1>0, <2>0, <2>1, <2>2, <2>4, <2>5, <3>1, <3>2, <3>3 DEF Answered
    <3> QED
      BY Zenon, <1>5, <3>4
  <2>7. CASE ~up
    <3>1. toP' = Empty
      BY Zenon, <2>1, <2>4, <2>7, PutToProver
    <3>2. Unanswered'
      BY Zenon, <1>0, <2>1, <2>2, <2>4, <2>5, <2>7, <3>1 DEF Unanswered
    <3> QED
      BY Zenon, <1>5, <3>2
  <2> QED
    BY <2>6, <2>7
<1>10. CASE VerifyDone
  <2>1. /\ verifier.st = "Verifying" /\ toV # Empty /\ toV' = Tail(toV) /\ vm' = vm /\ toP' = toP
        /\ verifier' = [verifier EXCEPT !.st = "Committed"]
        /\ ok' = [ok EXCEPT !["verifier"] = Append(@, verifier.req)]
    BY Zenon, <1>10 DEF VerifyDone, IsPart, Kind, Empty
  <2>2. verifier'.st = "Committed" /\ verifier'.st \in Idle
    BY <1>0, <2>1 DEF IsParty, Idle
  <2>3. ok'["verifier"] = Append(ok["verifier"], verifier.req)
    BY Zenon, <2>1 DEF TypeInv, Sides
  <2>4. SameOutputs => ok'["verifier"] = Append(ok'["prover"], verifier.req)
    BY Zenon, <1>0, <2>3 DEF SameOutputs
  <2>5. ~Beginning
    BY <2>1 DEF Beginning, VerifierEarly, Idle
  <2>6. CASE Unanswered
    <3>1. prover.st \in ProverLate /\ toP = Empty /\ SameVm
      BY <2>1, <2>6 DEF Unanswered, Idle
    <3>2. \/ SameOutputs /\ ~up /\ toV = One(Part(Proof(verifier.req)))
          \/ /\ ProverAhead(verifier.req)
             /\ \/ toV = One(Part(Proof(verifier.req)))
                \/ \E r \in Requests : toV = Two(Part(Proof(verifier.req)), ProveRequest(r))
      BY <2>1, <2>6 DEF Unanswered, Idle
    <3>3. SameVm'
      BY Zenon, <2>1, <3>1 DEF SameVm
    <3>4. CASE SameOutputs /\ ~up /\ toV = One(Part(Proof(verifier.req)))
      <4>1. toV' = Empty
        BY Zenon, <2>1, <3>4, Queues
      <4>2. \E r \in Requests : VerifierAhead(r)'
        BY Zenon, <1>0, <2>4, <3>4 DEF VerifierAhead
      <4>3. Unanswered'
        BY Zenon, <1>0, <2>1, <2>2, <3>1, <3>3, <3>4, <4>1, <4>2 DEF Unanswered
      <4> QED
        BY Zenon, <1>5, <4>3
    <3>5. CASE /\ ProverAhead(verifier.req)
               /\ \/ toV = One(Part(Proof(verifier.req)))
                  \/ \E r \in Requests : toV = Two(Part(Proof(verifier.req)), ProveRequest(r))
      <4>1. SameOutputs'
        BY Zenon, <1>0, <2>3, <3>5 DEF SameOutputs, ProverAhead
      <4>2. \/ toV' = Empty
            \/ \E r \in Requests : toV' = One(ProveRequest(r))
        <5>1. CASE toV = One(Part(Proof(verifier.req)))
          BY Zenon, <2>1, <5>1, Queues
        <5>2. ASSUME NEW r \in Requests, toV = Two(Part(Proof(verifier.req)), ProveRequest(r))
              PROVE  toV' = One(ProveRequest(r))
          BY Zenon, <2>1, <5>2, Queues
        <5> QED
          BY Zenon, <3>5, <5>1, <5>2
      <4>3. Unanswered'
        BY Zenon, <1>0, <2>1, <2>2, <3>1, <3>3, <4>1, <4>2 DEF Unanswered
      <4> QED
        BY Zenon, <1>5, <4>3
    <3> QED
      BY Zenon, <3>2, <3>4, <3>5
  <2>7. CASE Answered
    <3>1. /\ prover.st = "Proving" /\ verifier.req = prover.req
          /\ toP = One(Part(Proof(prover.req))) /\ toV = One(Part(Proof(prover.req)))
          /\ SameVm /\ SameOutputs
      BY Zenon, <2>1, <2>7 DEF Answered, Idle
    <3>2. toV' = Empty
      BY Zenon, <2>1, <3>1, Queues
    <3>3. SameVm' /\ VerifierAhead(prover.req)'
      BY Zenon, <1>0, <2>1, <2>4, <3>1 DEF SameVm, VerifierAhead
    <3>4. Answered'
      BY Zenon, <1>0, <2>1, <2>2, <3>1, <3>2, <3>3 DEF Answered
    <3> QED
      BY Zenon, <1>5, <3>4
  <2> QED
    BY <1>1, <2>5, <2>6, <2>7
<1> QED
  BY Zenon, <1>2, <1>6, <1>7, <1>8, <1>9, <1>10
\* The verifier's end of the stream closes, which the prover may still be told about.
LEMMA VerifierLeavesFirst ==
    ASSUME TypeInv, PartiesInv, Together, prover.st # "Gone", verifier.st # "Gone",
           UNCHANGED up, VerifierNext, verifier'.st = "Gone"
    PROVE  ProverAlone'
<1>0. /\ IsParty(verifier)
      /\ up => Live
      /\ prover' = prover /\ version' = version /\ vm["verifier"] \in Seq(Programs)
      /\ ~VerifyDone => ok' = ok
  BY Zenon, VerifierKeeps DEF PartiesInv, TypeInv, Sides
<1>1. /\ ~VerifyDone
      /\ \/ VerifierCommitRequest \/ CommitReject \/ RunDone \/ VerifyAccept
         \/ VerifierCallFails \/ VerifierDrop
  BY <1>0 DEF VerifierNext, VerifierCommit, VerifierCommitRequest, CommitAccept, CommitReject,
     VerifierSetupDone, Run, RunVerifyTags, RunDone, Verify, VerifyRequest, VerifyReject,
     VerifyAccept, VerifyDone, VerifierCallFails, VerifierDrop, IsParty
<1>2. ASSUME DropVerifier, toP' = toP, vm' = vm PROVE ProverAlone'
  BY Zenon, <1>0, <1>1, <1>2, VerifierLeaves
<1>3. ASSUME DropVerifier, toP' = PutP(<<Response(FALSE)>>), vm' = vm,
             \/ verifier.st = "AwaitCommit" /\ toV # Empty
             \/ verifier.st = "CommitStart"
      PROVE  ProverAlone'
  <2>1. CASE up
    <3>1. prover.st = "AwaitResponse" /\ toP = Empty
      BY Zenon, <1>0, <1>3, <2>1, LiveVerifier
    <3>2. toP' = One(Response(FALSE))
      BY Zenon, <1>3, <2>1, <3>1, PutToProver, Queues
    <3>3. NoOutput
      BY <3>1 DEF Together, Beginning, TagsUnread, Unanswered, Answered, ProverLate, VerifierEarly, Idle
    <3>4. ProverEarlyQueue'
      BY Zenon, <1>0, <3>1, <3>2 DEF ProverEarlyQueue
    <3> QED
      BY Zenon, <1>0, <1>1, <3>1, <3>3, <3>4 DEF ProverAlone, ProverEarly, NoOutput
  <2>2. CASE ~up
    <3>1. toP' = toP
      BY Zenon, <1>3, <2>2, PutToProver
    <3> QED
      BY Zenon, <1>2, <1>3, <3>1
  <2> QED
    BY <2>1, <2>2
<1>4. CASE VerifierCommitRequest
  BY <1>0, <1>3, <1>4 DEF VerifierCommitRequest, Kind, Empty, IsParty
<1>5. CASE CommitReject
  BY <1>3, <1>5 DEF CommitReject
<1>6. CASE RunDone
  BY <1>0, <1>2, <1>6 DEF RunDone, IsParty
<1>7. CASE VerifyAccept
  <2>1. verifier.st = "Verify" /\ toP' = PutP(<<Response(TRUE)>>)
    BY <1>0, <1>7 DEF VerifyAccept, IsParty
  <2>2. prover.st \in ProverLate /\ toP = Empty /\ SameOutputs
    BY Zenon, <2>1 DEF Together, Beginning, TagsUnread, Unanswered, Answered, VerifierEarly, Idle
  <2>3. SameOutputs'
    BY Zenon, <1>0, <1>1, <2>2 DEF SameOutputs
  <2>4. CASE up
    <3>1. prover.st = "AwaitAnswer"
      BY Zenon, <1>0, <2>1, <2>4, LiveVerifier
    <3>2. toP' = One(Response(TRUE))
      BY Zenon, <2>1, <2>2, <2>4, PutToProver, Queues
    <3> QED
      BY Zenon, <1>0, <2>3, <3>1, <3>2 DEF ProverAlone
  <2>5. CASE ~up
    <3>1. toP' = Empty
      BY Zenon, <2>1, <2>2, <2>5, PutToProver
    <3> QED
      BY Zenon, <1>0, <2>2, <2>3, <3>1 DEF ProverAlone
  <2> QED
    BY <2>4, <2>5
<1>8. CASE VerifierCallFails
  BY Zenon, <1>2, <1>8 DEF VerifierCallFails
<1>9. CASE VerifierDrop
  BY Zenon, <1>2, <1>9 DEF VerifierDrop
<1> QED
  BY Zenon, <1>1, <1>4, <1>5, <1>6, <1>7, <1>8, <1>9

-----------------------------------------------------------------------------
(* Steps of the verifier without its prover *)

LEMMA VerifierLeavesLast ==
    ASSUME TypeInv, PartiesInv, VerifierAlone, prover.st = "Gone", verifier.st # "Gone",
           VerifierNext, verifier'.st = "Gone"
    PROVE  NobodyLeft'
<1>0. IsParty(verifier) /\ verifier.req \in Requests /\ (~VerifyDone => ok' = ok)
  BY Zenon, VerifierKeeps DEF PartiesInv, TypeInv
<1>1. ok' = ok
  BY <1>0 DEF VerifyDone, IsParty
<1>2. CASE verifier.st = "Verify"
  <2>1. SameOutputs \/ \E r \in Requests : VerifierAhead(r)
    BY <1>2 DEF VerifierAlone, VerifierEarly, Idle
  <2> QED
    BY Zenon, <1>1, <2>1 DEF NobodyLeft, SameOutputs, VerifierAhead
<1>3. CASE verifier.st # "Verify"
  <2>1. vm' = vm
    BY <1>0, <1>3 DEF VerifierNext, VerifierCommit, VerifierCommitRequest, CommitAccept, CommitReject,
       VerifierSetupDone, Run, RunVerifyTags, RunDone, Verify, VerifyRequest, VerifyReject,
       VerifyAccept, VerifyDone, VerifierCallFails, VerifierDrop, IsParty
  <2>2. NobodyLeft
    <3>1. NoOutput => SameOutputs
      BY DEF NoOutput, SameOutputs
    <3> QED
      BY Zenon, <1>0, <3>1 DEF VerifierAlone, NobodyLeft
  <2> QED
    BY <1>1, <2>1, <2>2 DEF NobodyLeft, SameOutputs, ProverAhead, VerifierAhead, EndsWith
<1> QED
  BY <1>2, <1>3

LEMMA VerifierAloneSteps ==
    ASSUME TypeInv, PartiesInv, VerifierAlone, prover.st = "Gone", verifier.st # "Gone",
           UNCHANGED up, VerifierNext, verifier'.st # "Gone"
    PROVE  VerifierAlone'
<1>0. /\ IsParty(verifier) /\ verifier.req \in Requests
      /\ prover' = prover /\ version' = version /\ ok'["prover"] = ok["prover"]
      /\ ~VerifyDone => ok' = ok
  BY Zenon, VerifierKeeps DEF PartiesInv, TypeInv
<1>1. CASE verifier.st \in VerifierEarly
  <2>1. VerifierEarlyQueue /\ NoOutput
    <3>1. verifier.st \notin VerifierLate /\ verifier.st \notin Idle /\ verifier.st # "Verifying"
      BY <1>1 DEF VerifierEarly, VerifierLate, Idle
    <3> QED
      BY Zenon, <3>1 DEF VerifierAlone
  <2>2. ~VerifyDone /\ ~Verify /\ ~VerifyRequest /\ ~VerifyReject /\ ~VerifyAccept
        /\ ~VerifierCallFails /\ ~VerifierDrop /\ ~CommitReject
    BY <1>1 DEF VerifierEarly, VerifyDone, Verify, VerifyRequest, VerifyReject, VerifyAccept,
       VerifierCallFails, VerifierDrop, CommitReject, DropVerifier
  <2>3. NoOutput' /\ SameOutputs'
    BY <1>0, <2>1, <2>2 DEF NoOutput, SameOutputs
  <2>4. ASSUME verifier'.st \in VerifierEarly, VerifierEarlyQueue' PROVE VerifierAlone'
    BY Zenon, <2>3, <2>4 DEF VerifierAlone
  <2>5. CASE VerifierCommit
    <3>1. verifier.st = "Initialized" /\ verifier'.st = "AwaitCommit" /\ toV' = toV
      BY <1>0, <2>5 DEF VerifierCommit, IsParty
    <3>2. VerifierEarlyQueue'
      BY <1>0, <2>1, <3>1 DEF VerifierEarlyQueue, CommitRequest
    <3> QED
      BY <2>4, <3>1, <3>2 DEF VerifierEarly
  <2>6. CASE VerifierCommitRequest
    <3>1. /\ verifier.st = "AwaitCommit" /\ verifier'.st = "CommitStart"
          /\ toV # Empty /\ toV' = Tail(toV)
      BY <1>0, <2>6 DEF VerifierCommitRequest, DropVerifier, IsParty, Kind, Empty
    <3>2. toV = One(CommitRequest)
      BY <2>1, <3>1 DEF VerifierEarlyQueue
    <3>3. VerifierEarlyQueue'
      BY Zenon, <3>1, <3>2, Queues DEF VerifierEarlyQueue
    <3> QED
      BY <2>4, <3>1, <3>3 DEF VerifierEarly
  <2>7. CASE CommitAccept
    <3>1. verifier.st = "CommitStart" /\ verifier'.st = "Setup" /\ toV' = toV
      BY <1>0, <2>7 DEF CommitAccept, IsParty
    <3>2. VerifierEarlyQueue'
      BY <2>1, <3>1 DEF VerifierEarlyQueue
    <3> QED
      BY <2>4, <3>1, <3>2 DEF VerifierEarly
  <2>8. CASE VerifierSetupDone
    <3>1. /\ verifier.st = "Setup" /\ verifier'.st = "CommitAccepted"
          /\ toV # Empty /\ toV' = Tail(toV)
      BY <1>0, <2>8 DEF VerifierSetupDone, IsParty, IsPart, Kind, Empty
    <3>2. toV \in {One(Part(Setup)), Two(Part(Setup), Part(Tls))}
      BY <2>1, <3>1 DEF VerifierEarlyQueue
    <3>3. toV' \in {Empty, One(Part(Tls))}
      BY Zenon, <3>1, <3>2, Queues
    <3>4. VerifierEarlyQueue'
      BY Zenon, <3>1, <3>3 DEF VerifierEarlyQueue
    <3> QED
      BY <2>4, <3>1, <3>4 DEF VerifierEarly
  <2>9. CASE Run
    <3>1. verifier.st = "CommitAccepted" /\ verifier'.st = "Running" /\ toV' = toV
      BY <1>0, <2>9 DEF Run, IsParty
    <3>2. VerifierEarlyQueue'
      BY <2>1, <3>1 DEF VerifierEarlyQueue
    <3> QED
      BY <2>4, <3>1, <3>2 DEF VerifierEarly
  <2>10. CASE RunVerifyTags
    <3>1. verifier.st = "Running" /\ verifier'.st = "Tags" /\ toV # Empty /\ toV' = Tail(toV)
      BY <1>0, <2>10 DEF RunVerifyTags, IsParty, IsPart, Kind, Empty
    <3>2. toV \in {One(Part(Tls)), Two(Part(Tls), Part(Tags))}
      BY <2>1, <3>1 DEF VerifierEarlyQueue
    <3>3. toV' \in {Empty, One(Part(Tags))}
      BY Zenon, <3>1, <3>2, Queues
    <3>4. VerifierEarlyQueue'
      BY Zenon, <3>1, <3>3 DEF VerifierEarlyQueue
    <3> QED
      BY <2>4, <3>1, <3>4 DEF VerifierEarly
  <2>11. CASE RunDone
    <3>1. /\ verifier.st = "Tags" /\ verifier'.st = "Committed" /\ toV # Empty /\ toV' = Tail(toV)
      BY <1>0, <2>11 DEF RunDone, DropVerifier, IsParty, IsPart, Kind, Empty
    <3>2. \/ toV = One(Part(Tags))
          \/ \E r \in Requests : toV = Two(Part(Tags), ProveRequest(r))
      BY <2>1, <3>1 DEF VerifierEarlyQueue
    <3>3. \/ toV' = Empty
          \/ \E r \in Requests : toV' = One(ProveRequest(r))
      <4>1. CASE toV = One(Part(Tags))
        BY Zenon, <3>1, <4>1, Queues
      <4>2. ASSUME NEW r \in Requests, toV = Two(Part(Tags), ProveRequest(r))
            PROVE  toV' = One(ProveRequest(r))
        BY Zenon, <3>1, <4>2, Queues
      <4> QED
        BY Zenon, <3>2, <4>1, <4>2
    <3> QED
      BY Zenon, <2>3, <3>1, <3>3 DEF VerifierAlone, VerifierLate, Idle
  <2> QED
    BY Zenon, <2>2, <2>5, <2>6, <2>7, <2>8, <2>9, <2>10, <2>11 DEF VerifierNext
<1>2. CASE verifier.st \in VerifierLate
  <2>0. Verify \/ VerifyRequest \/ VerifyReject \/ VerifyAccept \/ VerifyDone
    BY <1>2 DEF VerifierNext, VerifierLate, VerifierCommit, VerifierCommitRequest, CommitAccept,
       CommitReject, VerifierSetupDone, Run, RunVerifyTags, RunDone, VerifierCallFails,
       VerifierDrop, DropVerifier
  <2>1. ASSUME verifier'.st \in VerifierLate, toV' = Empty, ~VerifyDone,
               SameOutputs \/ \E r \in Requests : VerifierAhead(r)
        PROVE  VerifierAlone'
    <3>1. SameOutputs' \/ \E r \in Requests : VerifierAhead(r)'
      BY Zenon, <1>0, <2>1 DEF SameOutputs, VerifierAhead
    <3> QED
      BY Zenon, <2>1, <3>1 DEF VerifierAlone
  <2>2. CASE toV = Empty
    <3>1. ~VerifyRequest /\ ~VerifyDone
      BY Zenon, <2>2 DEF VerifyRequest, VerifyDone, IsPart, Kind, Empty
    <3>2. verifier'.st \in VerifierLate /\ toV' = toV /\ verifier.st # "Verifying"
      BY <1>0, <2>0, <3>1 DEF Verify, VerifyReject, VerifyAccept, DropVerifier, VerifierLate, IsParty
    <3>3. SameOutputs \/ \E r \in Requests : VerifierAhead(r)
      <4>1. verifier.st \notin VerifierEarly
        BY <1>2 DEF VerifierEarly, VerifierLate
      <4> QED
        BY Zenon, <3>2, <4>1 DEF VerifierAlone
    <3> QED
      BY Zenon, <2>1, <2>2, <3>1, <3>2, <3>3
  <2>3. ASSUME verifier.st \in Idle, SameOutputs, NEW r \in Requests, toV = One(ProveRequest(r))
        PROVE  VerifierAlone'
    <3>1. ~VerifyDone /\ ~VerifyReject /\ ~VerifyAccept
      BY <2>3 DEF VerifyDone, VerifyReject, VerifyAccept, Idle
    <3>2. CASE Verify
      <4>1. verifier'.st \in Idle /\ toV' = toV
        BY <1>0, <3>2 DEF Verify, Idle, IsParty
      <4>2. SameOutputs'
        BY Zenon, <1>0, <2>3, <3>1 DEF SameOutputs
      <4> QED
        BY Zenon, <2>3, <4>1, <4>2 DEF VerifierAlone
    <3>3. CASE VerifyRequest
      <4>1. verifier'.st \in VerifierLate /\ toV' = Tail(toV)
        BY <3>3 DEF VerifyRequest, VerifierLate
      <4>2. toV' = Empty
        BY Zenon, <2>3, <4>1, Queues
      <4> QED
        BY Zenon, <2>1, <2>3, <3>1, <4>1, <4>2
    <3> QED
      BY Zenon, <2>0, <3>1, <3>2, <3>3
  <2>4. CASE /\ verifier.st = "Verifying" /\ toV # Empty
             /\ \/ SameOutputs /\ toV = One(Part(Proof(verifier.req)))
                \/ /\ ProverAhead(verifier.req)
                   /\ \/ toV = One(Part(Proof(verifier.req)))
                      \/ \E r \in Requests : toV = Two(Part(Proof(verifier.req)), ProveRequest(r))
    <3>1. VerifyDone
      BY <2>0, <2>4 DEF Verify, VerifyRequest, VerifyReject, VerifyAccept
    <3>2. verifier'.st = "Committed" /\ toV' = Tail(toV)
      BY <1>0, <3>1 DEF VerifyDone, IsParty
    <3>3. ok'["verifier"] = Append(ok["verifier"], verifier.req)
      BY Zenon, <3>1 DEF VerifyDone, TypeInv, Sides
    <3>4. CASE SameOutputs /\ toV = One(Part(Proof(verifier.req)))
      <4>1. toV' = Empty
        BY Zenon, <3>2, <3>4, Queues
      <4>2. ok'["verifier"] = Append(ok'["prover"], verifier.req)
        BY Zenon, <1>0, <3>3, <3>4 DEF SameOutputs
      <4> QED
        BY Zenon, <1>0, <3>2, <4>1, <4>2 DEF VerifierAlone, VerifierAhead, VerifierLate
    <3>5. CASE /\ ProverAhead(verifier.req)
               /\ \/ toV = One(Part(Proof(verifier.req)))
                  \/ \E r \in Requests : toV = Two(Part(Proof(verifier.req)), ProveRequest(r))
      <4>1. SameOutputs'
        BY Zenon, <1>0, <3>3, <3>5 DEF SameOutputs, ProverAhead
      <4>2. CASE toV = One(Part(Proof(verifier.req)))
        <5>1. toV' = Empty
          BY Zenon, <3>2, <4>2, Queues
        <5> QED
          BY Zenon, <3>2, <4>1, <5>1 DEF VerifierAlone, VerifierLate
      <4>3. ASSUME NEW r \in Requests, toV = Two(Part(Proof(verifier.req)), ProveRequest(r))
            PROVE  VerifierAlone'
        <5>1. toV' = One(ProveRequest(r))
          BY Zenon, <3>2, <4>3, Queues
        <5> QED
          BY Zenon, <3>2, <4>1, <5>1 DEF VerifierAlone, Idle
      <4> QED
        BY Zenon, <3>5, <4>2, <4>3
    <3> QED
      BY Zenon, <2>4, <3>4, <3>5
  <2>5. verifier.st \notin VerifierEarly
    BY <1>2 DEF VerifierEarly, VerifierLate
  <2> QED
    BY Zenon, <2>2, <2>3, <2>4, <2>5 DEF VerifierAlone
<1> QED
  BY Zenon, <1>1, <1>2 DEF VerifierAlone, VerifierLate, Idle
-----------------------------------------------------------------------------
(* The transport breaks *)

\* What is left of a queue.
Left(q, rest) == \E n \in 0..Len(q) : rest = SubSeq(q, 1, n)

LEMMA LeftOf ==
    /\ \A q : Left(Empty, q) => q = Empty
    /\ \A m, q : Left(One(m), q) => q = Empty \/ q = One(m)
    /\ \A m, k, q : Left(Two(m, k), q) => q = Empty \/ q = One(m) \/ q = Two(m, k)
BY Zenon, Prefixes DEF Left

LEMMA BreakKeeps ==
    ASSUME Break
    PROVE  /\ up /\ ~up' /\ Left(toV, toV') /\ Left(toP, toP')
           /\ version' = version /\ prover' = prover /\ verifier' = verifier /\ calls' = calls
           /\ vm' = vm /\ ok' = ok
BY Zenon DEF Break, Left

LEMMA ProverQueueBreaks ==
    ASSUME Break, ProverEarlyQueue
    PROVE  ProverEarlyQueue'
<1>0. Left(toP, toP') /\ prover' = prover /\ verifier' = verifier
  BY Zenon, BreakKeeps
<1>1. toP' = Empty => ProverEarlyQueue'
  BY Zenon DEF ProverEarlyQueue
<1>2. ASSUME NEW m, toP = One(m) PROVE ProverEarlyQueue'
  <2>1. toP' = Empty \/ toP' = toP
    BY Zenon, <1>0, <1>2, LeftOf
  <2>2. toP' = toP => ProverEarlyQueue'
    BY Zenon, <1>0 DEF ProverEarlyQueue, Tagging
  <2> QED
    BY Zenon, <1>1, <2>1, <2>2
<1>3. ASSUME NEW m, NEW k, toP = Two(m, k),
             toP' = One(m) => ProverEarlyQueue'
      PROVE  ProverEarlyQueue'
  <2>1. toP' = Empty \/ toP' = One(m) \/ toP' = toP
    BY Zenon, <1>0, <1>3, LeftOf
  <2>2. toP' = toP => ProverEarlyQueue'
    BY Zenon, <1>0 DEF ProverEarlyQueue, Tagging
  <2> QED
    BY Zenon, <1>1, <1>3, <2>1, <2>2
<1>4. CASE toP = Empty
  BY Zenon, <1>0, <1>1, <1>4, LeftOf
<1>5. CASE prover.st = "AwaitResponse" /\ toP = Two(Response(TRUE), Part(Setup))
  <2>1. toP' = One(Response(TRUE)) => ProverEarlyQueue'
    BY Zenon, <1>0, <1>5 DEF ProverEarlyQueue
  <2> QED
    BY Zenon, <1>3, <1>5, <2>1
<1>6. CASE prover.st = "Setup" /\ toP = Two(Part(Setup), Part(Tls))
  <2>1. toP' = One(Part(Setup)) => ProverEarlyQueue'
    BY Zenon, <1>0, <1>6 DEF ProverEarlyQueue
  <2> QED
    BY Zenon, <1>3, <1>6, <2>1
<1>7. CASE prover.st = "Connected" /\ toP = Two(Part(Tls), Part(Tags))
  <2>1. toP' = One(Part(Tls)) => ProverEarlyQueue'
    BY Zenon, <1>0, <1>7 DEF ProverEarlyQueue
  <2> QED
    BY Zenon, <1>3, <1>7, <2>1
<1> QED
  BY Zenon, <1>2, <1>4, <1>5, <1>6, <1>7 DEF ProverEarlyQueue

LEMMA VerifierQueueBreaks ==
    ASSUME Break, VerifierEarlyQueue
    PROVE  VerifierEarlyQueue'
<1>0. Left(toV, toV') /\ prover' = prover /\ verifier' = verifier /\ version' = version
  BY Zenon, BreakKeeps
<1>1. toV' = Empty => VerifierEarlyQueue'
  BY Zenon DEF VerifierEarlyQueue
<1>2. toV' = toV => VerifierEarlyQueue'
  BY Zenon, <1>0 DEF VerifierEarlyQueue, CommitRequest
<1>3. ASSUME NEW m, toV = One(m) PROVE VerifierEarlyQueue'
  <2>1. toV' = Empty \/ toV' = toV
    BY Zenon, <1>0, <1>3, LeftOf
  <2> QED
    BY Zenon, <1>1, <1>2, <2>1
<1>4. ASSUME NEW m, NEW k, toV = Two(m, k),
             toV' = One(m) => VerifierEarlyQueue'
      PROVE  VerifierEarlyQueue'
  <2>1. toV' = Empty \/ toV' = One(m) \/ toV' = toV
    BY Zenon, <1>0, <1>4, LeftOf
  <2> QED
    BY Zenon, <1>1, <1>2, <1>4, <2>1
<1>5. CASE toV = Empty
  BY Zenon, <1>0, <1>1, <1>5, LeftOf
<1>6. CASE verifier.st = "Setup" /\ toV = Two(Part(Setup), Part(Tls))
  <2>1. toV' = One(Part(Setup)) => VerifierEarlyQueue'
    BY Zenon, <1>0, <1>6 DEF VerifierEarlyQueue
  <2> QED
    BY Zenon, <1>4, <1>6, <2>1
<1>7. CASE verifier.st = "Running" /\ toV = Two(Part(Tls), Part(Tags))
  <2>1. toV' = One(Part(Tls)) => VerifierEarlyQueue'
    BY Zenon, <1>0, <1>7 DEF VerifierEarlyQueue
  <2> QED
    BY Zenon, <1>4, <1>7, <2>1
<1>8. ASSUME verifier.st = "Tags", NEW r, toV = Two(Part(Tags), ProveRequest(r))
      PROVE  VerifierEarlyQueue'
  <2>1. toV' = One(Part(Tags)) => VerifierEarlyQueue'
    BY Zenon, <1>0, <1>8 DEF VerifierEarlyQueue
  <2> QED
    BY Zenon, <1>4, <1>8, <2>1
<1> QED
  BY Zenon, <1>3, <1>5, <1>6, <1>7, <1>8 DEF VerifierEarlyQueue

LEMMA TogetherBreaks ==
    ASSUME TypeInv, Together, Break
    PROVE  Together'
<1>0. /\ up /\ ~up' /\ Left(toV, toV') /\ Left(toP, toP')
      /\ version' = version /\ prover' = prover /\ verifier' = verifier
      /\ vm' = vm /\ ok' = ok
  BY Zenon, BreakKeeps
<1>1. /\ SameVm' <=> SameVm
      /\ SameOutputs' <=> SameOutputs
      /\ NoOutput' <=> NoOutput
      /\ \A r : VerifierAhead(r)' <=> VerifierAhead(r)
      /\ \A r : ProverAhead(r)' <=> ProverAhead(r)
      /\ \A r : EndsWith(vm["verifier"], Proof(r))' <=> EndsWith(vm["verifier"], Proof(r))
      /\ prover.req \in Requests
  BY <1>0 DEF SameVm, SameOutputs, NoOutput, VerifierAhead, ProverAhead, EndsWith, TypeInv
<1>2. EarlyVm'
  BY Zenon, <1>0 DEF Together, EarlyVm, Setup, Tags
<1>3. ASSUME Beginning' \/ TagsUnread' \/ Unanswered' \/ Answered'
      PROVE  Together'
  BY Zenon, <1>2, <1>3 DEF Together
<1>4. CASE Beginning
  <2>1. ProverEarlyQueue' /\ VerifierEarlyQueue'
    BY Zenon, <1>4, ProverQueueBreaks, VerifierQueueBreaks DEF Beginning
  <2>2. Beginning'
    BY Zenon, <1>0, <1>1, <1>4, <2>1 DEF Beginning, Setup, Tags
  <2> QED
    BY Zenon, <1>3, <2>2
<1>5. CASE TagsUnread
  <2>1. VerifierEarlyQueue' /\ toP' = Empty
    BY Zenon, <1>0, <1>5, VerifierQueueBreaks, LeftOf DEF TagsUnread
  <2>2. TagsUnread'
    BY Zenon, <1>0, <1>1, <1>5, <2>1 DEF TagsUnread
  <2> QED
    BY Zenon, <1>3, <2>2
<1>6. CASE Unanswered
  <2>0. prover'.st \in ProverLate /\ toP' = Empty
    BY Zenon, <1>0, <1>6, LeftOf DEF Unanswered
  <2>1. CASE /\ verifier.st \in Idle \cup {"Verify"} /\ SameVm /\ SameOutputs
             /\ \/ toV = Empty
                \/ verifier.st \in Idle /\ \E r \in Requests : toV = One(ProveRequest(r))
    <3>1. \/ toV' = Empty
          \/ verifier.st \in Idle /\ \E r \in Requests : toV' = One(ProveRequest(r))
      BY Zenon, <1>0, <2>1, LeftOf
    <3>2. Unanswered'
      BY Zenon, <1>0, <1>1, <2>0, <2>1, <3>1 DEF Unanswered
    <3> QED
      BY Zenon, <1>3, <3>2
  <2>2. CASE /\ verifier.st = "Verifying" /\ SameVm
             /\ EndsWith(vm["verifier"], Proof(verifier.req)) /\ ProverAhead(verifier.req)
             /\ \/ toV = One(Part(Proof(verifier.req)))
                \/ \E r \in Requests : toV = Two(Part(Proof(verifier.req)), ProveRequest(r))
    <3>1. EndsWith(vm["verifier"], Proof(verifier.req))' /\ ProverAhead(verifier.req)'
      BY Zenon, <1>0, <2>2 DEF EndsWith, ProverAhead
    <3>2. \/ toV' = Empty
          \/ toV' = One(Part(Proof(verifier.req)))
          \/ \E r \in Requests : toV' = Two(Part(Proof(verifier.req)), ProveRequest(r))
      BY Zenon, <1>0, <2>2, LeftOf
    <3>3. Unanswered'
      BY Zenon, <1>0, <1>1, <2>0, <2>2, <3>1, <3>2 DEF Unanswered
    <3> QED
      BY Zenon, <1>3, <3>3
  <2> QED
    BY Zenon, <1>0, <1>6, <2>1, <2>2 DEF Unanswered
<1>7. CASE Answered
  <2>1. CASE /\ prover.st = "AwaitAnswer" /\ verifier.st \in Idle
             /\ toP = One(Response(FALSE)) /\ toV = Empty
             /\ SameVm /\ SameOutputs
    <3>1. toV' = Empty /\ (toP' = Empty \/ toP' = One(Response(FALSE)))
      BY Zenon, <1>0, <2>1, LeftOf
    <3>2. Unanswered' \/ Answered'
      BY Zenon, <1>0, <1>1, <2>1, <3>1 DEF Unanswered, Answered, ProverLate
    <3> QED
      BY Zenon, <1>3, <3>2
  <2>2. CASE /\ prover.st = "AwaitAnswer" /\ verifier.st = "Verifying"
             /\ verifier.req = prover.req /\ prover.req.needs # "unsupported"
             /\ toP = Two(Response(TRUE), Part(Proof(prover.req)))
             /\ toV = Empty
             /\ vm["verifier"] = Append(vm["prover"], Proof(prover.req)) /\ SameOutputs
    <3>1. /\ toV' = Empty
          /\ \/ toP' = Empty
             \/ toP' = One(Response(TRUE))
             \/ toP' = Two(Response(TRUE), Part(Proof(prover.req)))
      BY Zenon, <1>0, <2>2, LeftOf
    <3>2. CASE toP' = Empty
      <4>1. Unanswered'
        BY Zenon, <1>0, <1>1, <2>2, <3>1, <3>2 DEF Unanswered, ProverLate
      <4> QED
        BY Zenon, <1>3, <4>1
    <3>3. CASE \/ toP' = One(Response(TRUE))
               \/ toP' = Two(Response(TRUE), Part(Proof(prover.req)))
      <4>1. Answered'
        BY Zenon, <1>0, <1>1, <2>2, <3>1, <3>3 DEF Answered
      <4> QED
        BY Zenon, <1>3, <4>1
    <3> QED
      BY Zenon, <3>1, <3>2, <3>3
  <2>3. CASE /\ prover.st = "Proving" /\ verifier.st = "Verifying"
             /\ verifier.req = prover.req
             /\ toP = One(Part(Proof(prover.req))) /\ toV = One(Part(Proof(prover.req)))
             /\ SameVm /\ EndsWith(vm["verifier"], Proof(prover.req)) /\ SameOutputs
    <3>1. toV' = Empty \/ toV' = One(Part(Proof(prover.req)))
      BY Zenon, <1>0, <2>3, LeftOf
    <3>2. toP' = Empty \/ toP' = One(Part(Proof(prover.req)))
      BY Zenon, <1>0, <2>3, LeftOf
    <3>3. EndsWith(vm["verifier"], Proof(prover.req))' /\ EndsWith(vm["verifier"], Proof(verifier.req))'
      BY Zenon, <1>0, <2>3 DEF EndsWith
    <3>4. CASE toP' = Empty
      <4>1. Unanswered'
        BY Zenon, <1>0, <1>1, <2>3, <3>1, <3>3, <3>4 DEF Unanswered, ProverLate
      <4> QED
        BY Zenon, <1>3, <4>1
    <3>5. CASE toP' = One(Part(Proof(prover.req)))
      <4>1. Answered'
        BY Zenon, <1>0, <1>1, <2>3, <3>1, <3>3, <3>5 DEF Answered
      <4> QED
        BY Zenon, <1>3, <4>1
    <3> QED
      BY Zenon, <3>2, <3>4, <3>5
  <2>4. CASE /\ prover.st = "Proving" /\ verifier.st \in Idle
             /\ toP = One(Part(Proof(prover.req))) /\ toV = Empty
             /\ SameVm /\ VerifierAhead(prover.req)
    <3>1. toV' = Empty /\ (toP' = Empty \/ toP' = One(Part(Proof(prover.req))))
      BY Zenon, <1>0, <2>4, LeftOf
    <3>2. VerifierAhead(prover.req)' /\ \E r \in Requests : VerifierAhead(r)'
      BY Zenon, <1>0, <1>1, <2>4 DEF VerifierAhead
    <3>3. CASE toP' = Empty
      <4>1. Unanswered'
        BY Zenon, <1>0, <1>1, <2>4, <3>1, <3>2, <3>3 DEF Unanswered, ProverLate
      <4> QED
        BY Zenon, <1>3, <4>1
    <3>4. CASE toP' = One(Part(Proof(prover.req)))
      <4>1. Answered'
        BY Zenon, <1>0, <1>1, <2>4, <3>1, <3>2, <3>4 DEF Answered
      <4> QED
        BY Zenon, <1>3, <4>1
    <3> QED
      BY Zenon, <3>1, <3>3, <3>4
  <2> QED
    BY Zenon, <1>0, <1>7, <2>1, <2>2, <2>3, <2>4 DEF Answered
<1> QED
  BY Zenon, <1>4, <1>5, <1>6, <1>7 DEF Together
LEMMA AloneBreaks ==
    ASSUME TypeInv, Break
    PROVE  /\ ProverAlone => ProverAlone'
           /\ VerifierAlone => VerifierAlone'
           /\ NobodyLeft => NobodyLeft'
<1>0. /\ up /\ ~up' /\ Left(toV, toV') /\ Left(toP, toP')
      /\ version' = version /\ prover' = prover /\ verifier' = verifier
      /\ vm' = vm /\ ok' = ok
  BY Zenon, BreakKeeps
<1>1. /\ SameOutputs' <=> SameOutputs
      /\ NoOutput' <=> NoOutput
      /\ \A r : VerifierAhead(r)' <=> VerifierAhead(r)
      /\ \A r : ProverAhead(r)' <=> ProverAhead(r)
      /\ \A r : EndsWith(vm["verifier"], Proof(r))' <=> EndsWith(vm["verifier"], Proof(r))
      /\ prover.req \in Requests
  BY <1>0 DEF SameOutputs, NoOutput, VerifierAhead, ProverAhead, EndsWith, TypeInv
<1>2. ASSUME ProverAlone PROVE ProverAlone'
  <2>1. CASE prover.st \in ProverEarly /\ ProverEarlyQueue /\ NoOutput
    <3>1. ProverEarlyQueue'
      BY Zenon, <2>1, ProverQueueBreaks
    <3> QED
      BY Zenon, <1>0, <1>1, <2>1, <3>1 DEF ProverAlone
  <2>2. CASE /\ prover.st \in ProverLate /\ toP = Empty
             /\ \/ SameOutputs
                \/ \E r \in Requests : ProverAhead(r) /\ EndsWith(vm["verifier"], Proof(r))
                \/ \E r \in Requests : VerifierAhead(r) /\ ~up
    <3>1. toP' = Empty
      BY Zenon, <1>0, <2>2, LeftOf
    <3>2. \/ SameOutputs'
          \/ \E r \in Requests : ProverAhead(r)' /\ EndsWith(vm["verifier"], Proof(r))'
      BY Zenon, <1>0, <1>1, <2>2
    <3> QED
      BY Zenon, <1>0, <2>2, <3>1, <3>2 DEF ProverAlone
  <2>3. ASSUME prover.st = "AwaitAnswer", NEW b \in BOOLEAN, toP = One(Response(b)), SameOutputs
        PROVE  ProverAlone'
    <3>1. toP' = Empty \/ toP' = One(Response(b))
      BY Zenon, <1>0, <2>3, LeftOf
    <3> QED
      BY Zenon, <1>0, <1>1, <2>3, <3>1 DEF ProverAlone, ProverLate
  <2>4. CASE /\ prover.st = "AwaitAnswer" /\ toP = Two(Response(TRUE), Part(Proof(prover.req)))
             /\ SameOutputs /\ EndsWith(vm["verifier"], Proof(prover.req))
             /\ prover.req.needs # "unsupported"
    <3>1. \/ toP' = Empty \/ toP' = One(Response(TRUE))
          \/ toP' = Two(Response(TRUE), Part(Proof(prover.req)))
      BY Zenon, <1>0, <2>4, LeftOf
    <3>2. EndsWith(vm["verifier"], Proof(prover.req))' /\ SameOutputs'
      BY Zenon, <1>0, <1>1, <2>4 DEF EndsWith
    <3>3. CASE toP' = Empty
      BY Zenon, <1>0, <2>4, <3>2, <3>3 DEF ProverAlone, ProverLate
    <3>4. CASE toP' = One(Response(TRUE))
      BY Zenon, <1>0, <2>4, <3>2, <3>4 DEF ProverAlone
    <3>5. CASE toP' = Two(Response(TRUE), Part(Proof(prover.req)))
      BY Zenon, <1>0, <2>4, <3>2, <3>5 DEF ProverAlone
    <3> QED
      BY Zenon, <3>1, <3>3, <3>4, <3>5
  <2>5. CASE /\ prover.st = "Proving" /\ toP = One(Part(Proof(prover.req)))
             /\ \/ SameOutputs /\ EndsWith(vm["verifier"], Proof(prover.req))
                \/ VerifierAhead(prover.req)
    <3>1. toP' = Empty \/ toP' = One(Part(Proof(prover.req)))
      BY Zenon, <1>0, <2>5, LeftOf
    <3>2. \/ SameOutputs' /\ EndsWith(vm["verifier"], Proof(prover.req))'
          \/ VerifierAhead(prover.req)' /\ \E r \in Requests : VerifierAhead(r)' /\ ~up'
      BY Zenon, <1>0, <1>1, <2>5 DEF VerifierAhead, EndsWith
    <3>3. CASE toP' = Empty
      BY Zenon, <1>0, <2>5, <3>2, <3>3 DEF ProverAlone, ProverLate
    <3>4. CASE toP' = One(Part(Proof(prover.req)))
      BY Zenon, <1>0, <2>5, <3>2, <3>4 DEF ProverAlone
    <3> QED
      BY Zenon, <3>1, <3>3, <3>4
  <2> QED
    BY Zenon, <1>2, <2>1, <2>2, <2>3, <2>4, <2>5 DEF ProverAlone
<1>3. ASSUME VerifierAlone PROVE VerifierAlone'
  <2>1. CASE verifier.st \in VerifierEarly /\ VerifierEarlyQueue /\ NoOutput
    <3>1. VerifierEarlyQueue'
      BY Zenon, <2>1, VerifierQueueBreaks
    <3> QED
      BY Zenon, <1>0, <1>1, <2>1, <3>1 DEF VerifierAlone
  <2>2. CASE /\ verifier.st \in VerifierLate /\ toV = Empty
             /\ \/ SameOutputs
                \/ \E r \in Requests : VerifierAhead(r)
                \/ /\ verifier.st = "Verifying" /\ ProverAhead(verifier.req)
                   /\ EndsWith(vm["verifier"], Proof(verifier.req))
    <3>1. toV' = Empty
      BY Zenon, <1>0, <2>2, LeftOf
    <3>2. \/ SameOutputs'
          \/ \E r \in Requests : VerifierAhead(r)'
          \/ /\ verifier'.st = "Verifying" /\ ProverAhead(verifier.req)'
             /\ EndsWith(vm["verifier"], Proof(verifier.req))'
      BY Zenon, <1>0, <1>1, <2>2 DEF ProverAhead, EndsWith
    <3> QED
      BY Zenon, <1>0, <2>2, <3>1, <3>2 DEF VerifierAlone
  <2>3. ASSUME verifier.st \in Idle, SameOutputs, NEW r \in Requests, toV = One(ProveRequest(r))
        PROVE  VerifierAlone'
    <3>1. toV' = Empty \/ toV' = One(ProveRequest(r))
      BY Zenon, <1>0, <2>3, LeftOf
    <3>2. verifier'.st \in VerifierLate
      BY <1>0, <2>3 DEF Idle, VerifierLate
    <3> QED
      BY Zenon, <1>0, <1>1, <2>3, <3>1, <3>2 DEF VerifierAlone
  <2>4. CASE verifier.st = "Verifying" /\ SameOutputs /\ toV = One(Part(Proof(verifier.req)))
    <3>1. toV' = Empty \/ toV' = One(Part(Proof(verifier.req)))
      BY Zenon, <1>0, <2>4, LeftOf
    <3> QED
      BY Zenon, <1>0, <1>1, <2>4, <3>1 DEF VerifierAlone, VerifierLate
  <2>5. CASE /\ verifier.st = "Verifying" /\ ProverAhead(verifier.req)
             /\ EndsWith(vm["verifier"], Proof(verifier.req))
             /\ \/ toV = One(Part(Proof(verifier.req)))
                \/ \E r \in Requests : toV = Two(Part(Proof(verifier.req)), ProveRequest(r))
    <3>1. \/ toV' = Empty
          \/ toV' = One(Part(Proof(verifier.req)))
          \/ \E r \in Requests : toV' = Two(Part(Proof(verifier.req)), ProveRequest(r))
      BY Zenon, <1>0, <2>5, LeftOf
    <3>2. ProverAhead(verifier.req)' /\ EndsWith(vm["verifier"], Proof(verifier.req))'
      BY Zenon, <1>0, <2>5 DEF ProverAhead, EndsWith
    <3> QED
      BY Zenon, <1>0, <2>5, <3>1, <3>2 DEF VerifierAlone, VerifierLate
  <2> QED
    BY Zenon, <1>3, <2>1, <2>2, <2>3, <2>4, <2>5 DEF VerifierAlone
<1>4. NobodyLeft => NobodyLeft'
  BY Zenon, <1>1 DEF NobodyLeft
<1> QED
  BY Zenon, <1>2, <1>3, <1>4

-----------------------------------------------------------------------------
(* The types *)

\* The request a verifier takes from the stream.
LEMMA TakenRequest ==
    ASSUME RequestsInv, VerifyRequest
    PROVE  Head(toV).req \in Requests
<1>1. verifier.st = "AwaitProve" /\ toV # Empty
  BY DEF VerifyRequest, Kind, Empty
<1>2. \E r \in Requests : toV = One(ProveRequest(r))
  <2>1. CASE prover.st = "Gone"
    <3>1. VerifierAlone
      BY <1>1, <2>1 DEF RequestsInv
    <3> QED
      BY <1>1, <3>1 DEF VerifierAlone, VerifierEarly
  <2>2. CASE prover.st # "Gone"
    <3>1. Together
      BY <1>1, <2>2 DEF RequestsInv
    <3> QED
      BY Zenon, <1>1, <3>1 DEF Together, Beginning, VerifierEarlyQueue, TagsUnread, Unanswered, Answered
  <2> QED
    BY <2>1, <2>2
<1>3. PICK r \in Requests : toV = One(ProveRequest(r))
  BY Zenon, <1>2
<1>4. Head(toV) = ProveRequest(r)
  BY Zenon, <1>3, Queues
<1> QED
  BY <1>3, <1>4 DEF ProveRequest

LEMMA TypesKept ==
    ASSUME RequestsInv, PartiesInv, [Next]_vars
    PROVE  TypeInv'
<1>0. /\ TypeInv /\ IsParty(prover) /\ IsParty(verifier)
      /\ NoRequest \in Requests
  BY MaxProvesAssumption DEF RequestsInv, PartiesInv, NoRequest, Request, Requests, Needs
<1>1. [vm EXCEPT !["prover"] = <<>>] \in [Sides -> Seq(Programs)]
  BY <1>0 DEF TypeInv, Sides
<1>2. "prover" \in Sides /\ "verifier" \in Sides
  BY DEF Sides
<1>3. CASE ProverNext /\ UNCHANGED <<up, drivers>>
  <2>1. verifier' = verifier /\ version' = version /\ up' = up
    BY Zenon, <1>0, <1>3, ProverKeeps
  <2>2. calls' \in 0..MaxProves /\ prover'.req \in Requests
    <3>1. ASSUME NEW needs \in Needs, Prove(needs)
          PROVE  calls' \in 0..MaxProves /\ prover'.req \in Requests
      BY <1>0, <3>1, MaxProvesAssumption DEF Prove, TypeInv, Request, Requests
    <3>2. ASSUME \A needs \in Needs : ~Prove(needs)
          PROVE  calls' = calls /\ (prover'.req = prover.req \/ prover'.req = NoRequest)
      BY <1>0, <1>3, <3>2 DEF ProverNext, ProverCommit, ProverCommitResponse, ProverSetupDone,
         ProverConnect, ProverFinish, ProverCommitted, ProveAnswer, ProveDone, ProverCallFails,
         ProverDrop, DropProver, IsParty
    <3> QED
      BY <1>0, <3>1, <3>2 DEF TypeInv
  <2>3. vm' \in [Sides -> Seq(Programs)]
    <3>1. \/ vm' = vm \/ vm' = [vm EXCEPT !["prover"] = <<>>]
          \/ \E x \in Programs : vm' = [vm EXCEPT !["prover"] = Append(@, x)]
      <4>1. prover.req \in Requests
        BY <1>0 DEF TypeInv
      <4> QED
        BY Zenon, <1>3, <4>1, ProgramsType DEF ProverNext, ProverCommit, ProverCommitResponse,
           ProverSetupDone, ProverConnect, ProverFinish, ProverCommitted, Prove, ProveAnswer,
           ProveDone, ProverCallFails, ProverDrop, DropProver
    <3>2. ASSUME NEW x \in Programs, vm' = [vm EXCEPT !["prover"] = Append(@, x)]
          PROVE  vm' \in [Sides -> Seq(Programs)]
      BY Zenon, <1>0, <1>2, <3>2, AppendOne DEF TypeInv
    <3> QED
      BY Zenon, <1>0, <1>1, <3>1, <3>2 DEF TypeInv
  <2>4. ok' \in [Sides -> Seq(Requests)]
    <3>1. ok' = ok \/ \E r \in Requests : ok' = [ok EXCEPT !["prover"] = Append(@, r)]
      BY Zenon, <1>0, <1>3, ProverKeeps DEF ProveDone, TypeInv
    <3>2. ASSUME NEW r \in Requests, ok' = [ok EXCEPT !["prover"] = Append(@, r)]
          PROVE  ok' \in [Sides -> Seq(Requests)]
      BY Zenon, <1>0, <1>2, <3>2, AppendOne DEF TypeInv
    <3> QED
      BY Zenon, <1>0, <3>1, <3>2 DEF TypeInv
  <2> QED
    BY Zenon, <1>0, <2>1, <2>2, <2>3, <2>4 DEF TypeInv
<1>4. CASE VerifierNext /\ UNCHANGED <<up, drivers>>
  <2>1. prover' = prover /\ version' = version /\ calls' = calls /\ up' = up
    BY Zenon, <1>0, <1>4, VerifierKeeps
  <2>2. verifier'.req \in Requests
    <3>1. CASE VerifyRequest
      BY <3>1, TakenRequest DEF VerifyRequest
    <3>2. ASSUME ~VerifyRequest
          PROVE  verifier'.req = verifier.req \/ verifier'.req = NoRequest
      BY <1>0, <1>4, <3>2 DEF VerifierNext, VerifierCommit, VerifierCommitRequest, CommitAccept,
         CommitReject, VerifierSetupDone, Run, RunVerifyTags, RunDone, Verify, VerifyReject,
         VerifyAccept, VerifyDone, VerifierCallFails, VerifierDrop, DropVerifier, IsParty
    <3> QED
      BY <1>0, <3>1, <3>2 DEF TypeInv
  <2>3. vm' \in [Sides -> Seq(Programs)]
    <3>1. \/ vm' = vm
          \/ \E x \in Programs : vm' = [vm EXCEPT !["verifier"] = Append(@, x)]
      <4>1. verifier.req \in Requests
        BY <1>0 DEF TypeInv
      <4> QED
        BY Zenon, <1>4, <4>1, ProgramsType DEF VerifierNext, VerifierCommit, VerifierCommitRequest,
           CommitAccept, CommitReject, VerifierSetupDone, Run, RunVerifyTags, RunDone, Verify,
           VerifyRequest, VerifyReject, VerifyAccept, VerifyDone, VerifierCallFails, VerifierDrop
    <3>2. ASSUME NEW x \in Programs, vm' = [vm EXCEPT !["verifier"] = Append(@, x)]
          PROVE  vm' \in [Sides -> Seq(Programs)]
      BY Zenon, <1>0, <1>2, <3>2, AppendOne DEF TypeInv
    <3> QED
      BY Zenon, <1>0, <3>1, <3>2 DEF TypeInv
  <2>4. ok' \in [Sides -> Seq(Requests)]
    <3>1. ok' = ok \/ \E r \in Requests : ok' = [ok EXCEPT !["verifier"] = Append(@, r)]
      BY Zenon, <1>0, <1>4, VerifierKeeps DEF VerifyDone, TypeInv
    <3>2. ASSUME NEW r \in Requests, ok' = [ok EXCEPT !["verifier"] = Append(@, r)]
          PROVE  ok' \in [Sides -> Seq(Requests)]
      BY Zenon, <1>0, <1>2, <3>2, AppendOne DEF TypeInv
    <3> QED
      BY Zenon, <1>0, <3>1, <3>2 DEF TypeInv
  <2> QED
    BY Zenon, <1>0, <2>1, <2>2, <2>3, <2>4 DEF TypeInv
<1>5. CASE Break
  <2>1. up' \in BOOLEAN
    BY Zenon, <1>5 DEF Break
  <2> QED
    BY Zenon, <1>0, <1>5, <2>1, BreakKeeps DEF TypeInv
<1>6. CASE UNCHANGED <<parties, up>>
  BY Zenon, <1>0, <1>6 DEF TypeInv, parties
<1> QED
  BY Zenon, <1>3, <1>4, <1>5, <1>6 DEF Next, vars
-----------------------------------------------------------------------------
(* The invariant holds *)

LEMMA RequestsInit == Init => RequestsInv
<1> SUFFICES ASSUME Init PROVE RequestsInv
  OBVIOUS
<1>1. /\ prover.st = "Initialized" /\ verifier.st = "Initialized"
      /\ prover.req = NoRequest /\ verifier.req = NoRequest
      /\ toV = Empty /\ toP = Empty
      /\ vm["prover"] = <<>> /\ vm["verifier"] = <<>>
      /\ ok["prover"] = <<>> /\ ok["verifier"] = <<>>
  BY DEF Init, Empty, Sides
<1>2. TypeInv
  BY MaxProvesAssumption DEF Init, TypeInv, NoRequest, Request, Requests, Needs, Sides
<1>3. EarlyVm
  BY <1>1 DEF EarlyVm
<1>4. Beginning
  BY <1>1 DEF Beginning, ProverEarly, VerifierEarly, ProverEarlyQueue, VerifierEarlyQueue, NoOutput, Idle
<1> QED
  BY <1>1, <1>2, <1>3, <1>4 DEF RequestsInv, Together

\* A step of a party, or none, and the break of the transport keep the invariant.
LEMMA RequestsNext ==
    ASSUME RequestsInv, PartiesInv, [Next]_vars
    PROVE  RequestsInv'
<1>0. TypeInv /\ TypeInv'
  BY TypesKept DEF RequestsInv
<1>1. CASE ProverNext /\ UNCHANGED <<up, drivers>>
  <2>0. /\ verifier' = verifier /\ version' = version /\ vm'["verifier"] = vm["verifier"]
        /\ up' = up /\ (~ProveDone => ok' = ok)
    BY Zenon, <1>0, <1>1, ProverKeeps
  <2>1. prover.st # "Gone"
    BY <1>1 DEF ProverNext, ProverCommit, ProverCommitResponse, ProverSetupDone, ProverConnect,
       ProverFinish, ProverCommitted, Prove, ProveAnswer, ProveDone, ProverCallFails, ProverDrop
  <2>2. CASE prover'.st = "Gone"
    <3>1. DropProver /\ toV' = toV /\ ok' = ok
      <4>1. IsParty(prover)
        BY DEF PartiesInv
      <4> QED
        BY <1>1, <2>1, <2>2, <4>1 DEF ProverNext, ProverCommit, ProverCommitResponse, ProverSetupDone,
           ProverConnect, ProverFinish, ProverCommitted, Prove, ProveAnswer, ProveDone,
           ProverCallFails, ProverDrop, IsParty
    <3>2. CASE verifier.st # "Gone"
      <4>1. Together
        BY Zenon, <2>1, <3>2 DEF RequestsInv
      <4>2. VerifierAlone'
        BY Zenon, <1>0, <2>0, <3>1, <4>1, ProverLeaves
      <4> QED
        BY Zenon, <1>0, <2>0, <2>2, <3>2, <4>2 DEF RequestsInv
    <3>3. CASE verifier.st = "Gone"
      <4>1. ProverAlone
        BY Zenon, <2>1, <3>3 DEF RequestsInv
      <4>2. NobodyLeft'
        BY Zenon, <1>0, <2>0, <3>1, <4>1, ProverLeavesLast
      <4> QED
        BY Zenon, <1>0, <2>0, <2>2, <3>3, <4>2 DEF RequestsInv
    <3> QED
      BY <3>2, <3>3
  <2>3. CASE prover'.st # "Gone" /\ verifier.st = "Gone"
    <3>1. ProverAlone
      BY Zenon, <2>1, <2>3 DEF RequestsInv
    <3>2. ProverAlone'
      BY Zenon, <1>0, <1>1, <2>0, <2>1, <2>3, <3>1, ProverAloneSteps
    <3> QED
      BY Zenon, <1>0, <2>0, <2>3, <3>2 DEF RequestsInv
  <2>4. CASE prover'.st # "Gone" /\ verifier.st # "Gone"
    <3>1. Together
      BY Zenon, <2>1, <2>4 DEF RequestsInv
    <3>2. ASSUME prover.st \in ProverEarly PROVE Together'
      <4>1. \/ ProverCommit \/ ProverCommitResponse \/ ProverSetupDone
            \/ ProverConnect \/ ProverFinish \/ ProverCommitted
        BY <1>1, <2>4, <3>2 DEF ProverNext, ProverEarly, Prove, ProveAnswer, ProveDone,
           ProverCallFails, ProverDrop, DropProver
      <4> QED
        BY Zenon, <1>0, <2>0, <2>4, <3>1, <3>2, <4>1, ProverEarlySteps
    <3>3. ASSUME prover.st \in ProverLate PROVE Together'
      <4>1. \/ \E needs \in Needs : Prove(needs)
            \/ ProveAnswer \/ ProveDone \/ ProverCallFails
        BY <1>1, <2>4, <3>3 DEF ProverNext, ProverLate, ProverCommit, ProverCommitResponse,
           ProverSetupDone, ProverConnect, ProverFinish, ProverCommitted, ProverDrop, DropProver
      <4> QED
        BY Zenon, <1>0, <2>0, <2>4, <3>1, <3>3, <4>1, ProverLateSteps
    <3>4. prover.st \in ProverEarly \/ prover.st \in ProverLate
      BY Zenon, <3>1 DEF Together, Beginning, TagsUnread, Unanswered, Answered, ProverLate
    <3>5. Together'
      BY Zenon, <3>2, <3>3, <3>4
    <3> QED
      BY Zenon, <1>0, <2>0, <2>4, <3>5 DEF RequestsInv
  <2> QED
    BY <2>2, <2>3, <2>4
<1>2. CASE VerifierNext /\ UNCHANGED <<up, drivers>>
  <2>0. prover' = prover /\ up' = up
    BY Zenon, <1>0, <1>2, VerifierKeeps
  <2>1. verifier.st # "Gone"
    BY <1>2 DEF VerifierNext, VerifierCommit, VerifierCommitRequest, CommitAccept, CommitReject,
       VerifierSetupDone, Run, RunVerifyTags, RunDone, Verify, VerifyRequest, VerifyReject,
       VerifyAccept, VerifyDone, VerifierCallFails, VerifierDrop
  <2>2. CASE verifier'.st = "Gone" /\ prover.st # "Gone"
    <3>1. Together
      BY Zenon, <2>1, <2>2 DEF RequestsInv
    <3>2. ProverAlone'
      BY Zenon, <1>0, <1>2, <2>0, <2>1, <2>2, <3>1, VerifierLeavesFirst
    <3> QED
      BY Zenon, <1>0, <2>0, <2>2, <3>2 DEF RequestsInv
  <2>3. CASE verifier'.st = "Gone" /\ prover.st = "Gone"
    <3>1. VerifierAlone
      BY Zenon, <2>1, <2>3 DEF RequestsInv
    <3>2. NobodyLeft'
      BY Zenon, <1>0, <1>2, <2>1, <2>3, <3>1, VerifierLeavesLast
    <3> QED
      BY Zenon, <1>0, <2>0, <2>3, <3>2 DEF RequestsInv
  <2>4. CASE verifier'.st # "Gone" /\ prover.st = "Gone"
    <3>1. VerifierAlone
      BY Zenon, <2>1, <2>4 DEF RequestsInv
    <3>2. VerifierAlone'
      BY Zenon, <1>0, <1>2, <2>0, <2>1, <2>4, <3>1, VerifierAloneSteps
    <3> QED
      BY Zenon, <1>0, <2>0, <2>4, <3>2 DEF RequestsInv
  <2>5. CASE verifier'.st # "Gone" /\ prover.st # "Gone"
    <3>1. Together
      BY Zenon, <2>1, <2>5 DEF RequestsInv
    <3>2. verifier.st \in VerifierEarly \/ verifier.st \in VerifierLate
      BY Zenon, <3>1 DEF Together, Beginning, TagsUnread, Unanswered, Answered, VerifierEarly, VerifierLate, Idle
    <3>3. Together'
      BY Zenon, <1>0, <1>2, <2>0, <2>5, <3>1, <3>2, VerifierEarlySteps, VerifierLateSteps
    <3> QED
      BY Zenon, <1>0, <2>0, <2>5, <3>3 DEF RequestsInv
  <2> QED
    BY Zenon, <2>2, <2>3, <2>4, <2>5
<1>3. CASE Break
  <2>1. prover' = prover /\ verifier' = verifier
    BY Zenon, <1>3, BreakKeeps
  <2> QED
    BY Zenon, <1>0, <1>3, <2>1, TogetherBreaks, AloneBreaks DEF RequestsInv
<1>4. CASE UNCHANGED <<parties, up>>
  <2>0. /\ version' = version /\ prover' = prover /\ verifier' = verifier /\ toV' = toV /\ toP' = toP
        /\ vm' = vm /\ ok' = ok /\ up' = up
    BY Zenon, <1>4 DEF parties
  <2>1. /\ SameVm' <=> SameVm
        /\ SameOutputs' <=> SameOutputs
        /\ NoOutput' <=> NoOutput
        /\ EarlyVm' <=> EarlyVm
        /\ ProverEarlyQueue' <=> ProverEarlyQueue
        /\ VerifierEarlyQueue' <=> VerifierEarlyQueue
    BY Zenon, <2>0 DEF SameVm, SameOutputs, NoOutput, EarlyVm, ProverEarlyQueue,
       VerifierEarlyQueue, Tagging, CommitRequest
  <2>2. Beginning => Beginning'
    BY Zenon, <2>0, <2>1 DEF Beginning
  <2>3. TagsUnread => TagsUnread'
    BY Zenon, <2>0, <2>1 DEF TagsUnread
  <2>4. Unanswered => Unanswered'
    BY Zenon, <2>0, <2>1 DEF Unanswered, VerifierAhead, ProverAhead, EndsWith
  <2>5. Answered => Answered'
    BY Zenon, <2>0, <2>1 DEF Answered, VerifierAhead, EndsWith
  <2>6. ProverAlone => ProverAlone'
    BY Zenon, <2>0, <2>1 DEF ProverAlone, VerifierAhead, ProverAhead, EndsWith
  <2>7. VerifierAlone => VerifierAlone'
    BY Zenon, <2>0, <2>1 DEF VerifierAlone, VerifierAhead, ProverAhead, EndsWith
  <2>8. NobodyLeft => NobodyLeft'
    BY Zenon, <2>0, <2>1 DEF NobodyLeft, VerifierAhead, ProverAhead, EndsWith
  <2> QED
    BY Zenon, <1>0, <2>0, <2>1, <2>2, <2>3, <2>4, <2>5, <2>6, <2>7, <2>8 DEF RequestsInv, Together
<1> QED
  BY Zenon, <1>1, <1>2, <1>3, <1>4 DEF Next, vars

-----------------------------------------------------------------------------
(* What it says of the outputs *)

\* A sequence that is one request longer.
LEMMA OneAhead ==
    ASSUME NEW b \in Seq(Requests), NEW r \in Requests, NEW a, a = Append(b, r)
    PROVE  r \in Ahead(a, b)
<1>1. Len(a) \in 1..Len(a) /\ a[Len(a)] = r
  BY AppendProperties
<1> QED
  BY Zenon, <1>1 DEF Ahead

LEMMA InvAgrees ==
    ASSUME RequestsInv
    PROVE  RequestsAgree
<1>0. /\ TypeInv /\ prover.req \in Requests /\ verifier.req \in Requests
      /\ ok["prover"] \in Seq(Requests) /\ ok["verifier"] \in Seq(Requests)
  BY DEF RequestsInv, TypeInv, Sides
<1>1. VmInSync
  <2> SUFFICES ASSUME prover.st = "Committed", verifier.st = "Committed", toP = Empty
               PROVE  SameVm
    BY Zenon DEF VmInSync, SameVm, Empty
  <2>1. Together
    BY DEF RequestsInv
  <2>2. ~Answered
    BY Zenon DEF Answered
  <2> QED
    BY Zenon, <2>1, <2>2 DEF Together, Beginning, TagsUnread, Unanswered, ProverEarly
<1>2. SameOutputs => OutputsAgree
  BY Zenon DEF SameOutputs, OutputsAgree
<1>3. ASSUME NEW r \in Requests, ProverAhead(r), EndsWith(vm["verifier"], Proof(r)),
             verifier.st \in {"Verifying", "Gone"}
      PROVE  OutputsAgree
  <2>1. r \in Ahead(ok["prover"], ok["verifier"])
    BY Zenon, <1>0, <1>3, OneAhead DEF ProverAhead
  <2> QED
    BY Zenon, <1>3, <2>1 DEF OutputsAgree, EndsWith
<1>4. ASSUME NEW r \in Requests, VerifierAhead(r),
             ~up \/ (prover.st = "Proving" /\ prover.req = r) \/ prover.st = "Gone"
      PROVE  OutputsAgree
  <2>1. r \in Ahead(ok["verifier"], ok["prover"])
    BY Zenon, <1>0, <1>4, OneAhead DEF VerifierAhead
  <2> QED
    BY Zenon, <1>4, <2>1 DEF OutputsAgree
<1>5. NoOutput => OutputsAgree
  BY Zenon, <1>2 DEF NoOutput, SameOutputs
<1>6. CASE prover.st # "Gone" /\ verifier.st # "Gone"
  <2> SUFFICES OutputsAgree
    BY Zenon, <1>1 DEF RequestsAgree
  <2>1. Beginning \/ TagsUnread \/ Unanswered \/ Answered
    BY Zenon, <1>6 DEF RequestsInv, Together
  <2>2. CASE Beginning \/ TagsUnread
    BY Zenon, <1>5, <2>2 DEF Beginning, TagsUnread
  <2>3. CASE Unanswered
    BY Zenon, <1>0, <1>2, <1>3, <1>4, <2>3 DEF Unanswered
  <2>4. CASE Answered
    BY Zenon, <1>0, <1>2, <1>4, <2>4 DEF Answered
  <2> QED
    BY Zenon, <2>1, <2>2, <2>3, <2>4
<1>7. CASE prover.st # "Gone" /\ verifier.st = "Gone"
  <2>1. ProverAlone
    BY Zenon, <1>7 DEF RequestsInv
  <2>2. OutputsAgree
    BY Zenon, <1>0, <1>2, <1>3, <1>4, <1>5, <1>7, <2>1 DEF ProverAlone
  <2> QED
    BY Zenon, <1>1, <2>2 DEF RequestsAgree
<1>8. CASE prover.st = "Gone" /\ verifier.st # "Gone"
  <2>1. VerifierAlone
    BY Zenon, <1>8 DEF RequestsInv
  <2>2. OutputsAgree
    BY Zenon, <1>0, <1>2, <1>3, <1>4, <1>5, <1>8, <2>1 DEF VerifierAlone
  <2> QED
    BY Zenon, <1>1, <2>2 DEF RequestsAgree
<1>9. CASE prover.st = "Gone" /\ verifier.st = "Gone"
  <2>1. NobodyLeft
    BY Zenon, <1>9 DEF RequestsInv
  <2>2. OutputsAgree
    BY Zenon, <1>2, <1>3, <1>4, <1>9, <2>1 DEF NobodyLeft
  <2> QED
    BY Zenon, <1>1, <2>2 DEF RequestsAgree
<1> QED
  BY Zenon, <1>6, <1>7, <1>8, <1>9

\* However often prove is called, whatever is accepted, rejected or given up, and
\* whenever the transport breaks: two idle sides have given their VMs the same
\* programs, and an output one side has returned (Prover::prove,
\* VerifierVerify::accept) is matched by the other's, request for request.
THEOREM RequestsAlwaysAgree == Spec => []RequestsAgree
<1>1. Init => PartiesInv /\ RequestsInv
  BY PartiesInit, RequestsInit
<1>2. PartiesInv /\ RequestsInv /\ [Next]_vars => PartiesInv' /\ RequestsInv'
  BY PartiesNext, RequestsNext
<1>3. RequestsInv => RequestsAgree
  BY InvAgrees
<1> QED
  BY <1>1, <1>2, <1>3, PTL DEF Spec
=============================================================================
