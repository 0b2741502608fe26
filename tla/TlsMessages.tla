---------------------------- MODULE TlsMessages ----------------------------
(***************************************************************************)
(* The buffers of the TLS client: MessageDeframer, HandshakeJoiner,        *)
(* MessageFragmenter and ChunkVecBuffer.                                   *)
(*                                                                         *)
(* A byte stream is a sequence of cells.  A handshake message is one to    *)
(* three cells, of which the first holds its type and length.  A record is *)
(* a header cell followed by its payload.                                  *)
(***************************************************************************)
EXTENDS Integers, Sequences, SequencesExt

CONSTANTS
    MaxPayload,         \* OpaqueMessage::MAX_PAYLOAD, in cells
    MaxFrag,            \* MessageFragmenter.max_frag, in cells
    BufferLimit         \* DEFAULT_BUFFER_LIMIT, in cells

ASSUME TlsMessagesAssumption ==
    MaxPayload \in Nat \ {0} /\ MaxFrag \in Nat \ {0} /\ BufferLimit \in Nat

-----------------------------------------------------------------------------
(* Messages and records *)

\* A message: its type, what is wrong with its content (is), the extensions of a
\* ServerHello and the verify data of a Finished message.
Msg(t) == [typ |-> t, is |-> "ok", ext |-> {}, vd |-> <<>>]

Size(m) ==
    CASE m.typ = "ClientHello" -> 3
      [] m.typ \in {"ServerHello", "Certificate", "ServerFinished", "Oversized", "Garbage"} -> 2
      [] OTHER -> 1

\* The cells of a message, with the protection they are sent under.
Bytes(m, enc) == [i \in 1..Size(m) |-> [m |-> m, i |-> i, enc |-> enc]]

Record(typ, enc, body) == [typ |-> typ, enc |-> enc, body |-> body]

\* OpaqueMessage::encode
Encode(r) == <<[typ |-> r.typ, enc |-> r.enc, len |-> Len(r.body)]>> \o r.body

\* The headers and the payload cells of a stream of whole records and a tail.
Headers(s) == SelectSeq(s, LAMBDA x : "len" \in DOMAIN x)
Payloads(s) == SelectSeq(s, LAMBDA x : "len" \notin DOMAIN x)

-----------------------------------------------------------------------------
(* MessageDeframer *)

\* OpaqueMessage::read
IllegalHeader(h) ==
    h.typ = "Unknown" \/ h.len >= MaxPayload \/ (h.len = 0 /\ h.typ # "ApplicationData")

\* What is left in the fixed-size buffer.
Space(buf) == MaxPayload + 1 - Len(buf)

\* MessageDeframer::read takes the frames off its buffer until it holds only a
\* part of one, or what cannot become one.
Deframe(d, b) ==
    LET buf == Append(d.buf, b)
        h == buf[1]
    IN CASE d.desynced -> [d EXCEPT !.buf = buf]
         [] ~d.desynced /\ IllegalHeader(h) -> [d EXCEPT !.buf = buf, !.desynced = TRUE]
         [] ~d.desynced /\ ~IllegalHeader(h) /\ Len(buf) = h.len + 1 ->
              [d EXCEPT !.buf = <<>>, !.frames = Append(@, Record(h.typ, h.enc, Tail(buf)))]
         [] OTHER -> [d EXCEPT !.buf = buf]

DeframeAll(d, bytes) == FoldLeft(Deframe, d, bytes)

-----------------------------------------------------------------------------
(* HandshakeJoiner *)

\* HandshakeJoiner::take_message: the length in the header decides where a message
\* ends.  It is refused if it is too long or its content cannot be parsed.
Join(j, b) ==
    LET buf == Append(j.buf, b)
        m == buf[1].m
    IN CASE j.bad -> j
         [] ~j.bad /\ m.typ = "Oversized" -> [j EXCEPT !.bad = TRUE]
         [] ~j.bad /\ m.typ # "Oversized" /\ Len(buf) = Size(m) ->
              IF m.typ # "Garbage" /\ \A i \in 1..Len(buf) : buf[i].m = m /\ buf[i].i = i
              THEN [j EXCEPT !.buf = <<>>, !.msgs = Append(@, m)]
              ELSE [j EXCEPT !.bad = TRUE]
         [] OTHER -> [j EXCEPT !.buf = buf]

TakeMessage(buf, body) ==
    FoldLeft(Join, [buf |-> buf, msgs |-> <<>>, bad |-> FALSE], body)

-----------------------------------------------------------------------------
(* MessageFragmenter *)

\* MessageFragmenter::fragment
Fragment(body) ==
    IF Len(body) <= MaxFrag THEN <<body>>
    ELSE [k \in 1..((Len(body) + MaxFrag - 1) \div MaxFrag) |->
            SubSeq(body, (k - 1) * MaxFrag + 1,
                   IF k * MaxFrag < Len(body) THEN k * MaxFrag ELSE Len(body))]

-----------------------------------------------------------------------------
(* ChunkVecBuffer: a sequence of nonempty chunks. *)

AppendChunk(chunks, bytes) == IF bytes = <<>> THEN chunks ELSE Append(chunks, bytes)

\* apply_limit
ApplyLimit(chunks, n) ==
    LET len == Len(FlattenSeq(chunks))
        space == IF len < BufferLimit THEN BufferLimit - len ELSE 0
    IN IF n < space THEN n ELSE space

ConsumeChunk(acc, chunk) ==
    CASE acc.left # <<>> -> [acc EXCEPT !.left = Append(@, chunk)]
      [] acc.left = <<>> /\ acc.used < Len(chunk) ->
            [used |-> 0, left |-> <<SubSeq(chunk, acc.used + 1, Len(chunk))>>]
      [] OTHER -> [acc EXCEPT !.used = @ - Len(chunk)]

\* consume: drops n bytes, whole chunks and a prefix of the one they end in.
Consume(chunks, n) == FoldLeft(ConsumeChunk, [used |-> n, left |-> <<>>], chunks).left

=============================================================================
