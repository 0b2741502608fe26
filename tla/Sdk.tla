-------------------------------- MODULE Sdk ---------------------------------
(***************************************************************************)
(* The SDK over the protocol: the state machines SdkProver and SdkVerifier  *)
(* with the JavaScript bindings that call them, and compute_reveal, which   *)
(* turns the handlers of a plugin into ranges to reveal and to commit to.   *)
(* A range is the set of its positions in the transcript; an optional value *)
(* is a sequence of at most one element.                                    *)
(***************************************************************************)
EXTENDS Integers, Sequences, SequencesExt, FiniteSets

-----------------------------------------------------------------------------
(* Configuration *)

\* SdkProver::new
ValidProverConfig(mode, offer) == mode = "Mpc" => offer.sent > 0 /\ offer.recv > 0

\* The order of Option: nothing is less than everything.
OptionGreater(a, b) == a # <<>> /\ (b = <<>> \/ a[1] > b[1])

\* SdkVerifier::setup that looks at the data limits only.
RejectsData(offer, limits) == offer.sent > limits.sent \/ offer.recv > limits.recv

\* SdkVerifier::setup: the limits of the prover against those of the verifier.
Rejects(offer, limits) ==
    \/ offer.sent > limits.sent
    \/ offer.recv > limits.recv
    \/ OptionGreater(offer.sentRecords, limits.sentRecords)
    \/ OptionGreater(offer.recvRecordsOnline, limits.recvRecordsOnline)

-----------------------------------------------------------------------------
(* The state machines.  A method takes the state, which leaves Error behind, *)
(* and puts the next one in its place when it returns; `call` is the method  *)
(* that is running.                                                          *)

NewProver == [state |-> "Initialized", call |-> "none"]
NewVerifier == [state |-> "Initialized", call |-> "none", socket |-> FALSE]

Call(party, expected, call) ==
    [party EXCEPT !.state = "Error", !.call = IF party.state = expected THEN call ELSE "none"]

\* What the methods of the prover expect and what they leave.
ProverSetup(p) == Call(p, "Initialized", "setup")

\* JsProver::send_request refuses a socket the mode has no use for, or a
\* missing one, before it touches the prover.
ProverSend(p, mode, hasIo) ==
    IF hasIo # (mode = "Mpc") THEN p
    ELSE IF mode = "Mpc" THEN Call(p, "CommitAcceptedMpc", "send")
    ELSE Call(p, "CommitAcceptedProxy", "send")

ProverReveal(p) == Call(p, "Committed", "reveal")

ProverReturns(p, mode) ==
    [state |-> CASE p.call = "setup" -> IF mode = "Mpc" THEN "CommitAcceptedMpc" ELSE "CommitAcceptedProxy"
                 [] p.call = "send" -> "Committed"
                 [] p.call = "reveal" -> "Complete",
     call  |-> "none"]

\* The verifier connects without the prover, then each method is one step of
\* the protocol.
VerifierConnect(v) ==
    [v EXCEPT !.state = IF @ = "Initialized" THEN "Connected" ELSE "Error"]

VerifierSetup(v) == Call(v, "Connected", "setup")

\* set_server_socket looks at the state without taking it.
SetServerSocket(v) == IF v.state = "AcceptedProxy" THEN [v EXCEPT !.socket = TRUE] ELSE v

VerifierRun(v) ==
    IF v.state = "AcceptedProxy" /\ v.socket THEN Call(v, "AcceptedProxy", "run")
    ELSE Call(v, "AcceptedMpc", "run")

VerifierVerify(v) == Call(v, "Committed", "verify")

VerifierReturns(v, mode) ==
    [v EXCEPT !.state = CASE v.call = "setup" -> IF mode = "Mpc" THEN "AcceptedMpc" ELSE "AcceptedProxy"
                          [] v.call = "run" -> "Committed"
                          [] v.call = "verify" -> "Complete",
              !.call = "none"]

\* A call that fails, or whose future is dropped, leaves Error.
Fails(party) == [party EXCEPT !.call = "none"]

\* The steps of the protocol both parties take part in.
Step(call) ==
    CASE call = "setup" -> 1 [] call \in {"send", "run"} -> 2 [] call \in {"reveal", "verify"} -> 3

-----------------------------------------------------------------------------
(* SdkProver::reveal *)

\* The ranges of the request lie in the transcript.
InBounds(request, lens) ==
    \A d \in {"Sent", "Recv"} :
        \A range \in Range(request.reveal[d]) \cup {c.range : c \in Range(request.commit[d])} :
            range \subseteq 1..lens[d]

\* The verifier sees the union of the ranges.
Revealed(request) == [d \in {"Sent", "Recv"} |-> UNION Range(request.reveal[d])]

\* The builder of the commitments keeps them in a hash set.
Commitments(request) ==
    {[dir |-> d, range |-> c.range, alg |-> c.alg] :
        <<d, c>> \in {p \in {"Sent", "Recv"} \X UNION {Range(request.commit[d]) : d \in {"Sent", "Recv"}} :
                        p[2] \in Range(request.commit[p[1]])}}

\* build_reveal_output: the openings of each direction, in the order in which
\* the set was enumerated.
BuildRevealOutput(order) ==
    [d \in {"Sent", "Recv"} |-> SelectSeq(order, LAMBDA c : c.dir = d)]

-----------------------------------------------------------------------------
(* Handlers.  An HTTP message as spansy returns it: the positions of its     *)
(* parts.  A header is its key, what stands between, and its value.          *)

Fail == [ok |-> FALSE, ranges |-> <<>>]
Ok(ranges) == [ok |-> TRUE, ranges |-> ranges]

\* rangeset_to_vec: a set of positions as its ranges, in order.
RangesetToVec(set) ==
    LET starts == SetToSortSeq({x \in set : x - 1 \notin set}, <)
    IN  [i \in 1..Len(starts) |-> {y \in set : y >= starts[i] /\ starts[i]..y \subseteq set}]

HeaderAll(h) == h.key \cup h.rest \cup h.value

\* append_header_ranges with the whole header for a hidden value.
HeaderRangesWhole(h, hideKey, hideValue) ==
    RangesetToVec(IF hideKey THEN h.value ELSE HeaderAll(h))

HeaderRanges(h, hideKey, hideValue) ==
    RangesetToVec(IF hideKey THEN h.value
                  ELSE IF hideValue THEN HeaderAll(h) \ h.value ELSE HeaderAll(h))

\* extract_protocol: the start line without its other parts.
Protocol(msg) ==
    IF msg.kind = "Request" THEN (msg.line \ msg.method) \ msg.target
    ELSE (msg.line \ msg.code) \ msg.reason

\* extract_headers: every header, or every one with the name.
ExtractHeaders(params, msg) ==
    LET hideKey == params # <<>> /\ params[1].hideKey
        hideValue == params # <<>> /\ params[1].hideValue
        named == IF params # <<>> /\ params[1].key # <<>>
                 THEN SelectSeq(msg.headers, LAMBDA h : h.name = params[1].key[1])
                 ELSE msg.headers
    IN  IF hideKey /\ hideValue THEN Fail
        ELSE Ok(FlattenSeq([i \in 1..Len(named) |-> HeaderRanges(named[i], hideKey, hideValue)]))

\* The nodes of a JSON document by path: what kind the parent is, and the
\* positions of the value and, in an object, of the key-value pair.
Pair(node) == node.key \cup node.value

\* extract_kv_ranges
KvRanges(node, hideKey, hideValue) ==
    IF hideKey THEN node.value ELSE IF hideValue THEN Pair(node) \ node.value ELSE Pair(node)

\* extract_json_body: hiding needs the pair in the parent object; of an array
\* element the value is taken whatever is to be hidden.
ExtractJsonBody(params, body) ==
    IF ~body.json \/ params.path = <<>> \/ (params.hideKey /\ params.hideValue) THEN Fail
    ELSE IF params.path[1] \notin DOMAIN body.doc THEN Fail
    ELSE LET node == body.doc[params.path[1]]
         IN  IF node.parent = "object"
             THEN Ok(RangesetToVec(KvRanges(node, params.hideKey, params.hideValue)))
             ELSE Ok(RangesetToVec(node.value))

\* extract_body
ExtractBody(params, msg) ==
    IF msg.body = <<>> THEN Ok(<<>>)
    ELSE IF params # <<>> /\ params[1].content = "json" THEN ExtractJsonBody(params[1], msg.body[1])
    ELSE Ok(RangesetToVec(msg.body[1].all))

\* extract_all; the matches of a regular expression are the library's.
ExtractAll(params, msg) ==
    IF params # <<>> /\ params[1].content = "regex" /\ params[1].regex # <<>>
    THEN IF params[1].regex[1] = "invalid" THEN Fail ELSE Ok(msg.matches)
    ELSE Ok(<<1..msg.len>>)

\* extract_ranges
ExtractRanges(handler, msg) ==
    CASE handler.part = "StartLine" -> Ok(RangesetToVec(msg.line))
      [] handler.part = "Protocol" -> Ok(RangesetToVec(Protocol(msg)))
      [] handler.part = "Method" -> IF msg.kind = "Request" THEN Ok(RangesetToVec(msg.method)) ELSE Fail
      [] handler.part = "RequestTarget" ->
            IF msg.kind = "Request" THEN Ok(RangesetToVec(msg.target)) ELSE Fail
      [] handler.part = "StatusCode" -> IF msg.kind = "Response" THEN Ok(RangesetToVec(msg.code)) ELSE Fail
      [] handler.part = "Headers" -> ExtractHeaders(handler.params, msg)
      [] handler.part = "Body" -> ExtractBody(handler.params, msg)
      [] handler.part = "All" -> ExtractAll(handler.params, msg)

\* compute_reveal, one handler: its ranges go to what is revealed or to what
\* is committed, and are listed with the handler either way.
AddHandler(out, handler, msgs) ==
    LET got == ExtractRanges(handler, msgs[handler.type])
        d == handler.type
        annotated == [i \in 1..Len(got.ranges) |-> [range |-> got.ranges[i], handler |-> handler]]
    IN  IF ~out.ok \/ ~got.ok THEN [out EXCEPT !.ok = FALSE]
        ELSE IF handler.alg # <<>>
        THEN [out EXCEPT
                !.commit[d] = @ \o [i \in 1..Len(got.ranges) |->
                                        [range |-> got.ranges[i], alg |-> handler.alg[1]]],
                !.annotated[d] = @ \o annotated]
        ELSE [out EXCEPT !.reveal[d] = @ \o got.ranges, !.annotated[d] = @ \o annotated]

NoRanges == [Sent |-> <<>>, Recv |-> <<>>]
NothingRevealed == [ok |-> TRUE, reveal |-> NoRanges, commit |-> NoRanges, annotated |-> NoRanges]

\* compute_reveal
ComputeReveal(handlers, msgs) ==
    FoldLeft(LAMBDA out, h : AddHandler(out, h, msgs), NothingRevealed, handlers)

=============================================================================
