----------------------------- MODULE KeySchedule -----------------------------
(***************************************************************************)
(* From the key exchange to the session keys: MpcKeyExchange, the TLS PRF  *)
(* in its two network modes, the DEAP virtual machine they run in, and the *)
(* order in which leader and follower (prover and verifier in proxy mode)  *)
(* drive them until the verifier accepts the tags of what was received.    *)
(*                                                                         *)
(* Values are terms [op, args].  The MPC and ZK machines of mpz and its    *)
(* share conversion are external: executing makes every cell known whose   *)
(* inputs both parties have committed.  Neither guarantees that the MPC    *)
(* result or a conversion is right, which is what DEAP's output check and  *)
(* the key exchange's equality check are for: a run may have some faults.  *)
(***************************************************************************)
EXTENDS Naturals, Sequences, FiniteSets, SequencesExt

CONSTANTS
    None,               \* Option::None
    Modes,              \* of "Reduced", "Normal" (MPC-TLS) and "Proxy"
    FaultSets,          \* the faults of one run: of "conversion0", "conversion1" and
                        \* names of cells
    TagKinds            \* of "right", "wrong": the tag of the received record

VARIABLES
    mode, fault,        \* what this run is about
    tag,                \* of the received record, once it matters
    party,              \* the two parties
    chan,               \* messages of the leader that the follower has not taken
    mpc, zk             \* values of the cells in the two machines

keysVars == <<mode, fault, tag, party, chan, mpc, zk>>

Parties == {"leader", "follower"}
Val(op, args) == [op |-> op, args |-> args]
Leaf(op) == Val(op, <<>>)
Zero == Leaf("0")
Proxy == mode = "Proxy"

-----------------------------------------------------------------------------
(* The program the two parties allocate.  A cell is an input, of one party *)
(* or public, or a call on earlier cells; a name stands for an address.    *)

Input(owner) == [op |-> "in", args |-> <<>>, owner |-> owner]
Call(op, args) == [op |-> op, args |-> args, owner |-> "none"]

\* reduced::PrfFunction::alloc: HMACs of which the inner hash is an input.
ReducedCells(b, outer, n) ==
    FlattenSeq([i \in 1..n |->
        << Input("public"), Call("outer", <<outer, b + 4 * i - 3>>),
           Input("public"), Call("outer", <<outer, b + 4 * i - 1>>) >>])

\* normal::PrfFunction::alloc: the seed, and HMACs of it and of each other.
NormalCells(b, outer, inner, n) ==
    <<Input("public")>> \o FlattenSeq([i \in 1..n |->
        << Call("hmac", <<outer, inner, IF i = 1 THEN b + 1 ELSE b + 2 * i - 2>>),
           Call("hmac", <<outer, inner, b + 2 * i, b + 1>>) >>])

FnCells(net, b, outer, inner, n) ==
    IF net = "Reduced" THEN ReducedCells(b, outer, n) ELSE NormalCells(b, outer, inner, n)

Size(net, n) == IF net = "Reduced" THEN 4 * n ELSE 2 * n + 1

\* The function that owns those cells.  Both queues of a reduced one are filled from
\* the front.
Fn(net, b, label, inner, n) ==
    [ net |-> net, label |-> label, n |-> n, inner |-> inner, seed |-> None, iter |-> 1,
      msg |-> <<>>, cur |-> 0,
      state |-> IF net = "Reduced" THEN "InnerPartial" ELSE "Computing",
      a |-> IF net = "Reduced"
            THEN Reverse([i \in 1..n |-> [local |-> b + 4 * i - 3, out |-> b + 4 * i - 2]])
            ELSE [i \in 1..n |-> [local |-> b + 1, out |-> b + 2 * i]],
      p |-> IF net = "Reduced"
            THEN Reverse([i \in 1..n |-> [local |-> b + 4 * i - 1, out |-> b + 4 * i]])
            ELSE [i \in 1..n |-> [local |-> b + 2 * i, out |-> b + 2 * i + 1]] ]

\* Faulty: the blocks in the order of their allocation.
OutputAllocated(f) ==
    [i \in DOMAIN f.p |-> IF f.net = "Reduced" THEN f.p[Len(f.p) + 1 - i].out ELSE f.p[i].out]

\* PrfFunction::output
Output(f) == [i \in DOMAIN f.p |-> f.p[i].out]

\* MpcKeyExchange::alloc: four shares, the modulus, the secret twice and their
\* difference.
KeyExchangeCells ==
    << Input("leader"), Input("follower"), Input("leader"), Input("follower"), Input("public"),
       Call("add", <<1, 2, 5>>), Call("add", <<3, 4, 5>>), Call("xor", <<6, 7>>) >>

\* compute_partial, for both pads.
Partials(k) == << Call("opad", <<k>>), Call("ipad", <<k>>) >>

\* get_session_keys: where the 40 bytes are cut.
KeyRanges == [ client_write_key |-> "0..16", server_write_key |-> "16..32",
               client_iv |-> "32..36", server_iv |-> "36..40" ]

\* What Prf::alloc_post_ms and the record layer allocate after b cells, from the master
\* secret at address ms: partial hashes, the three functions, keys and verify data, and
\* the key of the tags.
KeyExpansion(net, b) == Fn(net, b + 2, "key expansion", b + 2, 2)
ClientFinished(net, b) == Fn(net, b + 2 + Size(net, 2), "client finished", b + 2, 1)
ServerFinished(net, b) ==
    Fn(net, b + 2 + Size(net, 2) + Size(net, 1), "server finished", b + 2, 1)
KeyBase(net, b) == b + 2 + Size(net, 2) + 2 * Size(net, 1)

KeyCells(ke, cf, sf, k) ==
    << Call(KeyRanges.client_write_key, ke), Call(KeyRanges.server_write_key, ke),
       Call(KeyRanges.client_iv, ke), Call(KeyRanges.server_iv, ke),
       Call("0..12", cf), Call("0..12", sf), Call("aes", <<k + 2>>) >>

PostMsCells(net, b, ms) ==
    Partials(ms)
        \o FnCells(net, b + 2, b + 1, b + 2, 2)
        \o FnCells(net, b + 2 + Size(net, 2), b + 1, b + 2, 1)
        \o FnCells(net, b + 2 + Size(net, 2) + Size(net, 1), b + 1, b + 2, 1)
        \o KeyCells(Output(KeyExpansion(net, b)), Output(ClientFinished(net, b)),
                    Output(ServerFinished(net, b)), KeyBase(net, b))

PostMsAt(b, ms, k) ==
    [ ms |-> ms, inner |-> b + 2, client_write_key |-> k + 1, server_write_key |-> k + 2,
      client_iv |-> k + 3, server_iv |-> k + 4, cf_vd |-> k + 5, sf_vd |-> k + 6,
      mac_key |-> k + 7 ]

\* Prf::alloc_pms after the key exchange (MPC-TLS): ten cells, the function of the
\* master secret, and the secret.
MasterSecret(net) == Fn(net, 10, "master secret", 10, 2)
MsAddr(net) == 11 + Size(net, 2)

PmsProgram(net) ==
    [ cells |-> KeyExchangeCells \o Partials(6) \o FnCells(net, 10, 9, 10, 2)
                    \o <<Call("0..48", Output(MasterSecret(net)))>>
                    \o PostMsCells(net, MsAddr(net), MsAddr(net)),
      at |-> PostMsAt(MsAddr(net), MsAddr(net), KeyBase(net, MsAddr(net))),
      fns |-> [ ms |-> MasterSecret(net), ke |-> KeyExpansion(net, MsAddr(net)),
                cf |-> ClientFinished(net, MsAddr(net)), sf |-> ServerFinished(net, MsAddr(net)) ] ]

\* Prf::alloc_ms on an input of the prover (proxy mode).
MsProgram ==
    [ cells |-> <<Input("leader")>> \o PostMsCells("Normal", 1, 1),
      at |-> PostMsAt(1, 1, KeyBase("Normal", 1)),
      fns |-> [ ms |-> None, ke |-> KeyExpansion("Normal", 1),
                cf |-> ClientFinished("Normal", 1), sf |-> ServerFinished("Normal", 1) ] ]

Programs == [m \in Modes |-> IF m = "Proxy" THEN MsProgram ELSE PmsProgram(m)]
Cells == Programs[mode].cells
At == Programs[mode].at
Pms == 6
Eq == 8
Modulus == 5

\* Addresses decoded by the allocation: the inner partial hash and the A hashes of a
\* reduced function, and the verify data.
FnDecodes(f) ==
    IF f = None \/ f.net = "Normal" THEN <<>>
    ELSE <<f.inner>> \o [i \in DOMAIN f.a |-> f.a[i].out]
AllocDecodes ==
    LET fns == Programs[mode].fns
    IN FnDecodes(fns.ms) \o FnDecodes(fns.ke) \o FnDecodes(fns.cf) \o FnDecodes(fns.sf)
           \o <<At.cf_vd, At.sf_vd>>

-----------------------------------------------------------------------------
(* The machines. *)

\* add_mod of the two additive shares of one conversion.
AddMod(v) == IF v[1].args = v[2].args THEN v[1].args[1] ELSE Val("sum", v)

Splice(vs) == FlattenSeq([i \in DOMAIN vs |->
    IF vs[i].op = "cat" THEN vs[i].args ELSE <<vs[i]>>])

\* SHA-256 from a partial state.
Hash(partial, msg) == Val("h", <<partial>> \o msg)

Apply(op, v) ==
    CASE op = "add" -> AddMod(v)
      [] op = "xor" -> IF v[1] = v[2] THEN Zero ELSE Val("xor", v)
      [] op = "outer" -> Val("H", v)
      [] op = "hmac" -> Val("H", <<v[1], Hash(v[2], Splice(SubSeq(v, 3, Len(v))))>>)
      [] OTHER -> Val(op, v)

CellValue(cell, input, mem) ==
    IF cell.op = "in" THEN input
    ELSE IF \E i \in DOMAIN cell.args : mem[cell.args[i]] = None THEN None
    ELSE Apply(cell.op, [i \in DOMAIN cell.args |-> mem[cell.args[i]]])

\* What a machine that gets a cell wrong has there.  The worst the difference of the
\* two secrets can be is zero.
Wrong(i, v) == IF ~Proxy /\ i = Eq THEN Zero ELSE Val("bad", <<v>>)

\* All values that follow from the inputs, with the cells of bad wrong.
Evaluate(inputs, bad) ==
    CHOOSE mem \in FoldLeft(
        LAMBDA mems, i : UNION { { Append(m, IF i \in bad /\ v # None THEN Wrong(i, v) ELSE v)
                                     : v \in {CellValue(Cells[i], inputs[i], m)} } : m \in mems },
        {<<>>}, [i \in DOMAIN Cells |-> i]) : TRUE

\* Addresses of the cells a fault can name.
CellOf(name) ==
    CASE name = "pms" -> Pms
      [] name = "eq" -> Eq
      [] OTHER -> At[name]
BadCells == {CellOf(n) : n \in {n \in fault : n = "pms" \/ n = "eq" \/ n \in DOMAIN At}}

Owners(i) == IF Cells[i].owner = "public" THEN Parties ELSE {Cells[i].owner}

\* What an input cell holds: both parties have committed to it and its owners have
\* assigned the same value.
InputOf(ps, committed, i) ==
    IF /\ Cells[i].op = "in"
       /\ \A p \in Parties : i \in committed[p]
       /\ \A p, q \in Owners(i) : ps[p].assigned[i] = ps[q].assigned[i]
    THEN ps[CHOOSE p \in Owners(i) : TRUE].assigned[i] ELSE None

InputsOf(ps, committed) == [i \in DOMAIN Cells |-> InputOf(ps, committed, i)]

\* Deap::assign_raw and commit_raw of a party's cells.  Inputs of the follower are
\* committed in the ZK machine only by finalize.
Assign(s, asg) ==
    [s EXCEPT !.assigned = [i \in DOMAIN @ |->
                                IF \E k \in DOMAIN asg : asg[k].addr = i
                                THEN asg[CHOOSE k \in DOMAIN asg : asg[k].addr = i].val
                                ELSE @[i]]]

FollowerInputs == {i \in DOMAIN Cells : Cells[i].owner = "follower"}

Commit(s, addrs) ==
    [s EXCEPT !.committed = @ \cup addrs, !.zk_committed = @ \cup (addrs \ FollowerInputs)]

\* Deap::decode_raw also asks the ZK machine, for the check of finalize.
Decode(s, addrs) == [s EXCEPT !.outputs = @ \o addrs]

-----------------------------------------------------------------------------
(* The PRF. *)

FnWantsFlush(f) == f # None /\ f.state \notin {"Done", "Finished"} /\ f.seed # None

SetStartSeed(f, seed) == [f EXCEPT !.seed = <<Leaf(f.label)>> \o seed]

WantsFlush(prf) == \E n \in DOMAIN prf : FnWantsFlush(prf[n])

\* A flush gives the function and the inputs it assigns.
Flushed(f, asg) == [fn |-> f, asg |-> asg]
Asg(addr, val) == [addr |-> addr, val |-> val]

\* PrfState::ComputeA
FlushA(f) ==
    Flushed([f EXCEPT !.state = "ComputeP", !.a = Tail(@), !.cur = Head(f.a).out],
            <<Asg(Head(f.a).local, Hash(mpc[f.inner], f.msg))>>)

\* PrfState::ComputeP: the next A hash goes out together with this P hash.
FlushP(f) ==
    LET asg == Asg(Head(f.p).local, Hash(mpc[f.inner], <<mpc[f.cur]>> \o f.seed))
        next == FlushA([f EXCEPT !.iter = @ + 1, !.msg = <<mpc[f.cur]>>, !.p = Tail(@)])
    IN IF f.iter = f.n THEN Flushed([f EXCEPT !.state = "Done", !.p = Tail(@)], <<asg>>)
       ELSE Flushed(next.fn, <<asg>> \o next.asg)

FlushReduced(f) ==
    CASE f.state = "InnerPartial" /\ mpc[f.inner] # None -> FlushA([f EXCEPT !.msg = f.seed])
      [] f.state = "ComputeP" /\ mpc[f.cur] # None -> FlushP(f)
      [] OTHER -> Flushed(f, <<>>)

\* Faulty: the function is not marked finished.
FlushNormalUnfinished(f) == Flushed(f, <<Asg(f.a[1].local, Val("cat", f.seed))>>)

FlushNormal(f) ==
    Flushed([f EXCEPT !.state = "Finished"], <<Asg(f.a[1].local, Val("cat", f.seed))>>)

FlushFn(f) ==
    IF ~FnWantsFlush(f) THEN Flushed(f, <<>>)
    ELSE IF f.net = "Reduced" THEN FlushReduced(f) ELSE FlushNormal(f)

\* Prf::flush: every function that wants to.
FlushPrf(s) ==
    LET done == [n \in DOMAIN s.prf |-> FlushFn(s.prf[n])]
        asg == done.ms.asg \o done.ke.asg \o done.cf.asg \o done.sf.asg
    IN [Commit(Assign(s, asg), {asg[k].addr : k \in DOMAIN asg}) EXCEPT
            !.prf = [n \in DOMAIN s.prf |-> done[n].fn]]

\* Prf::set_server_random, with the seeds of the master secret (MSMode::Standard)
\* and of the key expansion.
SetServerRandom(s, random) ==
    [s EXCEPT !.prf.ms = IF @ = None THEN @ ELSE SetStartSeed(@, <<s.client_random, random>>),
              !.prf.ke = SetStartSeed(@, <<random, s.client_random>>)]

SetCfHash(s, hash) == [s EXCEPT !.prf.cf = SetStartSeed(@, <<hash>>)]
SetSfHash(s, hash) == [s EXCEPT !.prf.sf = SetStartSeed(@, <<hash>>)]

-----------------------------------------------------------------------------
(* The parties. *)

Start == [ pc |-> "alloc", next |-> "none", assigned |-> [i \in DOMAIN Cells |-> None],
           committed |-> {}, zk_committed |-> {}, outputs |-> <<>>, ke |-> "Initialized",
           prf |-> [ms |-> None, ke |-> None, cf |-> None, sf |-> None],
           client_random |-> None, cf_vd |-> None, sf_vd |-> None ]

KeysInit ==
    /\ mode \in Modes
    /\ fault \in FaultSets
    /\ mode = "Proxy" => fault \subseteq {"ms"}
    /\ tag = None
    /\ party = [p \in Parties |-> Start]
    /\ chan = <<>>
    /\ mpc = [i \in DOMAIN Cells |-> None]
    /\ zk = mpc

Partner(p) == IF p = "leader" THEN "follower" ELSE "leader"
AtPc(p, pc) == party[p].pc = pc
Both(pc) == \A p \in Parties : party[p].pc = pc
Goto(s, pc) == [s EXCEPT !.pc = pc]
Loop(s, next) == [s EXCEPT !.pc = "flush", !.next = next]
Step(p, s) == party' = [party EXCEPT ![p] = s]
Decoded(addr) == IF Proxy THEN zk[addr] ELSE mpc[addr]
Still == UNCHANGED <<mode, fault, tag>>

\* MpcTlsLeader::alloc, MpcTlsFollower::alloc and alloc_proxy_refs.
Alloc(p) ==
    /\ AtPc(p, "alloc")
    /\ LET s == [party[p] EXCEPT !.prf = Programs[mode].fns]
       IN Step(p, IF Proxy THEN Goto(s, "finalize")
                  ELSE [Decode(Commit(Assign(s, <<Asg(Modulus, Leaf("P"))>>), {Modulus}), AllocDecodes)
                            EXCEPT !.ke = "Setup", !.pc = "preprocess"])
    /\ Still /\ UNCHANGED <<chan, mpc, zk>>

Msg(typ, val) == [typ |-> typ, val |-> val]

\* preprocess of both, with MpcKeyExchange::setup; the leader sends its random.
Preprocess ==
    /\ Both("preprocess")
    /\ party' = [p \in Parties |-> [party[p] EXCEPT !.ke = "FollowerKey",
                    !.pc = IF p = "leader" THEN "server_random" ELSE "recv",
                    !.client_random = IF p = "leader" THEN Leaf("cr") ELSE None]]
    /\ chan' = Append(chan, Msg("SetClientRandom", Leaf("cr")))
    /\ Still /\ UNCHANGED <<mpc, zk>>

Send(msg, s) ==
    /\ chan' = Append(chan, msg)
    /\ Step("leader", s)
    /\ Still /\ UNCHANGED <<mpc, zk>>

LeaderServerRandom ==
    /\ AtPc("leader", "server_random")
    /\ Send(Msg("SetServerRandom", Leaf("sr")),
            Goto(SetServerRandom(party.leader, Leaf("sr")), "server_key"))

\* set_server_key_share, and prepare_encryption up to compute_shares.
LeaderServerKey ==
    /\ AtPc("leader", "server_key")
    /\ Send(Msg("SetServerKey", Leaf("server_key")), Goto(party.leader, "shares"))

\* get_client_finished_vd and get_server_finished_vd
CfHash == Leaf("cf_hash")
SfHash(cf_vd) == Val("sf_hash", <<cf_vd>>)

LeaderClientFinished ==
    /\ AtPc("leader", "cf")
    /\ Send(Msg("ClientFinishedVd", CfHash), Loop(SetCfHash(party.leader, CfHash), "cf_vd"))

LeaderServerFinished ==
    /\ AtPc("leader", "sf")
    /\ LET hash == SfHash(party.leader.cf_vd)
       IN Send(Msg("ServerFinishedVd", hash), Loop(SetSfHash(party.leader, hash), "sf_vd"))

LeaderClose ==
    /\ AtPc("leader", "close")
    /\ Send(Msg("CloseConnection", None), Goto(party.leader, "deap"))

\* MpcTlsFollower::run
FollowerRecv ==
    /\ AtPc("follower", "recv") /\ chan # <<>>
    /\ chan' = Tail(chan)
    /\ LET s == party.follower
           typ == Head(chan).typ
           val == Head(chan).val
       IN Step("follower",
            CASE typ = "SetClientRandom" -> [s EXCEPT !.client_random = val]
              [] typ = "SetServerRandom" -> SetServerRandom(s, val)
              [] typ = "SetServerKey" -> Goto(s, "shares")
              [] typ = "ClientFinishedVd" -> Loop(SetCfHash(s, val), "cf_vd")
              [] typ = "ServerFinishedVd" -> Loop(SetSfHash(s, val), "sf_vd")
              [] typ = "CloseConnection" -> Goto(s, "deap"))
    /\ Still /\ UNCHANGED <<mpc, zk>>

\* compute_ec_shares and MpcKeyExchange::assign.  A conversion shares the x coordinate
\* of the sum of the two parties' multiples of the server's key.
Secret == Val("x", <<Val("mul", <<Leaf("server_key"), Leaf("leader")>>),
                     Val("mul", <<Leaf("server_key"), Leaf("follower")>>)>>)
Shared(conversion) == IF conversion \in fault THEN Val(conversion, <<Secret>>) ELSE Secret
Share(addr, conversion) == Asg(addr, Val("share", <<Shared(conversion)>>))

ComputeShares ==
    /\ Both("shares")
    /\ party' = [p \in Parties |->
         LET own == IF p = "leader" THEN <<Share(1, "conversion0"), Share(3, "conversion1")>>
                    ELSE <<Share(2, "conversion0"), Share(4, "conversion1")>>
         IN [Loop(Decode(Commit(Assign(party[p], own), 1..4), <<Eq>>), "ke")
                EXCEPT !.ke = "EqualityCheck"]]
    /\ Still /\ UNCHANGED <<chan, mpc, zk>>

\* while prf.wants_flush() { prf.flush(); vm.execute_all() }
Flush(p) ==
    /\ AtPc(p, "flush")
    /\ \E s \in {party[p]} :
         Step(p, IF WantsFlush(s.prf) THEN Goto(FlushPrf(s), "exec") ELSE Goto(s, s.next))
    /\ Still /\ UNCHANGED <<chan, mpc, zk>>

\* Deap::execute runs the MPC machine alone; proxy mode has only the ZK machine.
Execute ==
    /\ Both("exec")
    /\ party' = [p \in Parties |-> Goto(party[p], "flush")]
    /\ LET committed == [p \in Parties |-> party[p].committed]
       IN IF Proxy THEN zk' = Evaluate(InputsOf(party, committed), {}) /\ UNCHANGED mpc
          ELSE mpc' = Evaluate(InputsOf(party, committed), BadCells) /\ UNCHANGED zk
    /\ Still /\ UNCHANGED chan

\* MpcKeyExchange::finalize
Finalize(s, eq) == IF eq = Zero THEN [s EXCEPT !.ke = "Complete"] ELSE Goto(s, "failed")

KeyExchangeFinalize(p) ==
    /\ AtPc(p, "ke") /\ mpc[Eq] # None
    /\ Step(p, Finalize(Goto(party[p], IF p = "leader" THEN "cf" ELSE "recv"), mpc[Eq]))
    /\ Still /\ UNCHANGED <<chan, mpc, zk>>

\* The verify data is received; in proxy mode the server's hash follows from it.
ClientFinishedVd(p) ==
    /\ AtPc(p, "cf_vd")
    /\ \E vd \in {Decoded(At.cf_vd)} :
         Step(p, IF vd = None THEN Goto(party[p], "failed")
                 ELSE LET s == [party[p] EXCEPT !.cf_vd = vd]
                      IN IF Proxy THEN Loop(SetSfHash(s, SfHash(vd)), "sf_vd")
                         ELSE Goto(s, IF p = "leader" THEN "sf" ELSE "recv"))
    /\ Still /\ UNCHANGED <<chan, mpc, zk>>

ServerFinishedVd(p) ==
    /\ AtPc(p, "sf_vd")
    /\ \E vd \in {Decoded(At.sf_vd)} :
         Step(p, IF vd = None THEN Goto(party[p], "failed")
                 ELSE Goto([party[p] EXCEPT !.sf_vd = vd],
                           IF Proxy THEN "tags" ELSE IF p = "leader" THEN "close" ELSE "recv"))
    /\ Still /\ UNCHANGED <<chan, mpc, zk>>

\* ProxyProver::finalize and ProxyVerifier::finalize, up to the first loop.  A faulty
\* master secret is not the one of the connection.
ProxyMs == IF "ms" \in fault THEN Val("bad", <<Leaf("ms")>>) ELSE Leaf("ms")

ProxyFinalize(p) ==
    /\ AtPc(p, "finalize")
    /\ LET s == [Commit(Assign(party[p], IF p = "leader" THEN <<Asg(At.ms, ProxyMs)>> ELSE <<>>),
                        {At.ms}) EXCEPT !.client_random = Leaf("cr")]
       IN Step(p, Loop(SetCfHash(SetServerRandom(s, Leaf("sr")), CfHash), "cf_vd"))
    /\ Still /\ UNCHANGED <<chan, mpc, zk>>

\* Deap::finalize: the follower's inputs are decoded and become public in the ZK
\* machine, which executes; the follower compares what was decoded before.
ZkInputs ==
    [i \in DOMAIN Cells |->
        IF i \in FollowerInputs THEN mpc[i]
        ELSE InputOf(party, [p \in Parties |-> party[p].zk_committed], i)]

Consistent(outputs, zkOutputs) ==
    \A k \in DOMAIN outputs : mpc[outputs[k]] # None => zkOutputs[outputs[k]] = mpc[outputs[k]]

DeapFinalize ==
    /\ Both("deap")
    /\ zk' = Evaluate(ZkInputs, {})
    /\ party' = [p \in Parties |->
         Goto([party[p] EXCEPT !.zk_committed = @ \cup FollowerInputs],
              IF p = "leader" \/ Consistent(party[p].outputs, zk') THEN "tags" ELSE "failed")]
    /\ Still /\ UNCHANGED <<chan, mpc>>

-----------------------------------------------------------------------------
(* What TLS 1.2 says the keys are: RFC 5246, sections 5, 6.3 and 8.1.       *)

HMAC(secret, msg) == Val("H", <<Val("opad", <<secret>>), Hash(Val("ipad", <<secret>>), msg)>>)

P_hash(secret, seed, n) ==
    LET A[i \in 0..n] == IF i = 0 THEN seed ELSE <<HMAC(secret, A[i - 1])>>
    IN [i \in 1..n |-> HMAC(secret, A[i] \o seed)]

RefMs ==
    IF Proxy THEN Leaf("ms")
    ELSE Val("0..48", P_hash(Secret, <<Leaf("master secret"), Leaf("cr"), Leaf("sr")>>, 2))

RefKeys == P_hash(RefMs, <<Leaf("key expansion"), Leaf("sr"), Leaf("cr")>>, 2)
RefCfVd == Val("0..12", P_hash(RefMs, <<Leaf("client finished"), CfHash>>, 1))
RefSfVd == Val("0..12", P_hash(RefMs, <<Leaf("server finished"), SfHash(RefCfVd)>>, 1))

Reference ==
    [n \in DOMAIN At \ {"inner"} |->
        CASE n = "ms" -> RefMs
          [] n = "cf_vd" -> RefCfVd
          [] n = "sf_vd" -> RefSfVd
          [] n = "mac_key" -> Val("aes", <<Val(KeyRanges.server_write_key, RefKeys)>>)
          [] OTHER -> Val(KeyRanges[n], RefKeys)]

\* A record of the server: its keys are the reference's.
Tag(m) == Val("tag", <<m.mac_key, m.server_write_key, m.server_iv>>)
RecordTag(kind) == IF kind = "right" THEN Tag(Reference) ELSE Val("tag", <<Zero>>)

ZkAt(mem) == [n \in DOMAIN Reference |-> mem[At[n]]]

\* TagProof::verify
TagVerifies(m, kind) == Tag(m) = RecordTag(kind)

\* VerifyDataCheck: the Finished record decrypts to the verify data that was computed.
Decrypts(m, key, iv, vd) ==
    m[key] = Reference[key] /\ m[iv] = Reference[iv] /\ m[vd] = Reference[vd]
VerifyDataChecks(m) ==
    /\ Decrypts(m, "client_write_key", "client_iv", "cf_vd")
    /\ Decrypts(m, "server_write_key", "server_iv", "sf_vd")

\* verify_tags of both, the execution, and the verifier's checks.
VerifyTags ==
    /\ Both("tags")
    /\ tag' \in TagKinds
    /\ \E m \in {ZkAt(zk)} :
         party' = [p \in Parties |-> Goto(party[p],
            IF p = "leader" \/ (TagVerifies(m, tag') /\ (Proxy => VerifyDataChecks(m)))
            THEN "committed" ELSE "failed")]
    /\ UNCHANGED <<mode, fault, chan, mpc, zk>>

\* The other party is gone: what needs it fails.
Joint == {"preprocess", "shares", "exec", "deap", "tags"}
PeerLost(p) ==
    /\ AtPc(Partner(p), "failed")
    /\ party[p].pc \in Joint \/ (AtPc(p, "recv") /\ chan = <<>>)
    /\ Step(p, Goto(party[p], "failed"))
    /\ Still /\ UNCHANGED <<chan, mpc, zk>>

KeysNext ==
    \/ Preprocess \/ ComputeShares \/ Execute \/ DeapFinalize \/ VerifyTags
    \/ LeaderServerRandom \/ LeaderServerKey \/ LeaderClientFinished \/ LeaderServerFinished
    \/ LeaderClose \/ FollowerRecv
    \/ \E p \in Parties :
         \/ Alloc(p) \/ Flush(p) \/ KeyExchangeFinalize(p) \/ ClientFinishedVd(p)
         \/ ServerFinishedVd(p) \/ ProxyFinalize(p) \/ PeerLost(p)

-----------------------------------------------------------------------------

\* Once the key exchange is complete, what the MPC machine holds of the master secret,
\* the session keys and the verify data is what TLS says, in both network modes, even
\* if a share conversion went wrong: the PRF's flush loop fed every hash the right
\* block, and MpcKeyExchange::finalize refused unequal secrets.
KeysCorrect ==
    (fault \subseteq {"conversion0", "conversion1"} /\ party.leader.ke = "Complete") =>
        \A n \in DOMAIN Reference : mpc[At[n]] \in {None, Reference[n]}

\* A verifier that reached Committed has in its ZK machine the keys of the connection,
\* computed with verify data that both saw, and a valid tag, whatever the MPC machine
\* and the conversions did: DEAP's comparison of outputs, the tag proof and, in proxy
\* mode, the verify data checks leave nothing else.
OnlyRightCommitted ==
    AtPc("follower", "committed") =>
        /\ tag = "right"
        /\ ZkAt(zk) = Reference
        /\ party.follower.cf_vd = RefCfVd /\ party.follower.sf_vd = RefSfVd

Ended == \A p \in Parties : party[p].pc \in {"committed", "failed"}
=============================================================================
