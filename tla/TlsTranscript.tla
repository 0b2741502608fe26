---------------------------- MODULE TlsTranscript ----------------------------
(***************************************************************************)
(* TlsTranscriptBuilder: what proxy mode makes of the recorded TLS traffic *)
(* of the two directions.                                                  *)
(*                                                                         *)
(* A record is [typ, body, hash].  The body of a plaintext handshake       *)
(* record is a piece of the handshake byte stream, in which a message is a *)
(* header, naming its type, and a body, which is what the extraction takes *)
(* from it; pieces may end anywhere.  The body of an application data      *)
(* record is its plaintext, which the two ends of the connection know;     *)
(* hash is what the verify data of an encrypted Finished was made of.      *)
(***************************************************************************)
EXTENDS Naturals, Sequences, SequencesExt

CONSTANT Failed         \* TlsTranscriptError

-----------------------------------------------------------------------------
(* Handshake messages and the byte stream they form. *)

Message(typ, val) == <<typ, val>>

HsRecord(bytes) == [typ |-> "handshake", body |-> bytes, hash |-> <<>>]
CcsRecord == [typ |-> "ccs", body |-> <<>>, hash |-> <<>>]
FinishedRecord(hash) == [typ |-> "handshake", body |-> <<>>, hash |-> hash]
AppRecord(data) == [typ |-> "data", body |-> <<data>>, hash |-> <<>>]
AlertRecord == [typ |-> "alert", body |-> <<>>, hash |-> <<>>]
\* A record whose sender broke off.
PartialRecord == [typ |-> "partial", body |-> <<>>, hash |-> <<>>]

\* parse_raw_records: the stream must end with a complete record.
ParseRawRecords(frames) ==
    IF \E i \in DOMAIN frames : frames[i].typ = "partial" THEN Failed ELSE frames

CcsAt(frames) == SelectInSeq(frames, LAMBDA f : f.typ = "ccs")

\* collect_handshake_bytes_pre_ccs
CollectHandshakeBytesPreCcs(frames) ==
    LET pre == IF CcsAt(frames) = 0 THEN frames ELSE SubSeq(frames, 1, CcsAt(frames) - 1)
        bytes[n \in 0..Len(pre)] ==
          IF n = 0 THEN <<>>
          ELSE IF pre[n].typ = "handshake" THEN bytes[n - 1] \o pre[n].body ELSE bytes[n - 1]
    IN bytes[Len(pre)]

\* scan_handshake_messages: type and end of every message.
ScanHandshakeMessages(bytes) ==
    IF Len(bytes) % 2 = 1 THEN Failed
    ELSE [i \in 1..Len(bytes) \div 2 |-> [typ |-> bytes[2 * i - 1], end |-> 2 * i]]

\* parse_handshake_stream: the messages themselves.
ParseHandshakeStream(bytes) ==
    IF Len(bytes) % 2 = 1 THEN Failed
    ELSE [i \in 1..Len(bytes) \div 2 |-> [typ |-> bytes[2 * i - 1], val |-> bytes[2 * i]]]

Find(msgs, typ) == SelectInSeq(msgs, LAMBDA m : m.typ = typ)
Has(msgs, typ) == Find(msgs, typ) # 0

-----------------------------------------------------------------------------
(* compute_handshake_hashes and TlsTranscript::sf_hash. *)

Slice(bytes, from, to) == SubSeq(bytes, from + 1, to)

HashesComputable(sent, recv) ==
    /\ sent # <<>> /\ sent[1].typ = "ClientHello"
    /\ Has(sent, "ClientKeyExchange")
    /\ Has(recv, "ServerHello") /\ Has(recv, "ServerHelloDone")

\* Faulty: one direction after the other.
CfHashByDirection(sb, rb, sent, recv) ==
    sb \o Slice(rb, 0, recv[Find(recv, "ServerHelloDone")].end)

CfHash(sb, rb, sent, recv) ==
    Slice(sb, 0, sent[1].end)
        \o Slice(rb, 0, recv[Find(recv, "ServerHelloDone")].end)
        \o Slice(sb, sent[1].end, Len(sb))

SessionHash(sb, rb, sent) ==
    Slice(sb, 0, sent[1].end) \o rb
        \o Slice(sb, sent[1].end, sent[Find(sent, "ClientKeyExchange")].end)

\* The reconstructed Client Finished goes before what the server sent last.
SfHash(sb, rb, sent, recv, cf) ==
    Slice(sb, 0, sent[1].end)
        \o Slice(rb, 0, recv[Find(recv, "ServerHelloDone")].end)
        \o Slice(sb, sent[1].end, Len(sb))
        \o Message("Finished", cf)
        \o Slice(rb, recv[Find(recv, "ServerHelloDone")].end, Len(rb))

-----------------------------------------------------------------------------
(* extract_handshake *)

RsaAlgorithms == {"RSA_PKCS1_SHA256", "RSA_PSS_SHA256", "ED25519"}

\* map_signature_scheme: the curve of an ECDSA signature is the certificate's.
MapSignatureScheme(scheme, curve) ==
    IF scheme \in RsaAlgorithms THEN <<scheme, "none">>
    ELSE IF curve \in {"p256", "p384"} THEN <<scheme, curve>> ELSE Failed

Extractable(sent, recv) ==
    /\ Has(recv, "ServerHello") /\ Has(sent, "ClientHello")
    /\ Has(recv, "Certificate") /\ Has(recv, "ServerKeyExchange")
    /\ MapSignatureScheme(recv[Find(recv, "ServerKeyExchange")].val,
                          recv[Find(recv, "Certificate")].val) # Failed

ExtractHandshake(sent, recv) ==
    [ server_random |-> recv[Find(recv, "ServerHello")].val,
      client_random |-> sent[Find(sent, "ClientHello")].val,
      certs |-> recv[Find(recv, "Certificate")].val,
      alg |-> MapSignatureScheme(recv[Find(recv, "ServerKeyExchange")].val,
                                 recv[Find(recv, "Certificate")].val) ]

-----------------------------------------------------------------------------
(* Records and their plaintext. *)

AppCount(frames) == Len(SelectSeq(frames, LAMBDA f : f.typ = "data"))

\* parse_records succeeds: there is a Finished after the ChangeCipherSpec, and
\* plaintext for every application data record when plaintext is given.
RecordsParse(frames, app) ==
    /\ CcsAt(frames) # 0 /\ CcsAt(frames) < Len(frames)
    /\ frames[CcsAt(frames) + 1].typ = "handshake"
    /\ app # Failed => AppCount(frames) <= Len(app)

\* The Finished has sequence number 0; the next plaintext belongs to the next
\* application data record.
ParseRecords(frames, app) ==
    LET tail == SubSeq(frames, CcsAt(frames) + 1, Len(frames))
    IN [i \in DOMAIN tail |->
           [ seq |-> i - 1, typ |-> tail[i].typ, record |-> tail[i],
             plaintext |-> IF app = Failed \/ tail[i].typ # "data" THEN <<>>
                           ELSE <<app[AppCount(SubSeq(tail, 1, i))]>> ]]

\* validate_finished_record and validate_seq.
ValidRecords(records) ==
    /\ records[1].typ = "handshake" /\ records[1].seq = 0
    /\ \A i \in 1..Len(records) - 1 : records[i].seq < records[i + 1].seq

-----------------------------------------------------------------------------
\* The transcript of the two byte streams, once every part of it parses.
Assemble(sent, recv, appSent, appRecv, sb, rb) ==
    [ sent |-> ParseRecords(sent, appSent),
      recv |-> ParseRecords(recv, appRecv),
      handshake |-> ExtractHandshake(ParseHandshakeStream(sb), ParseHandshakeStream(rb)),
      cf_hash |-> CfHash(sb, rb, ScanHandshakeMessages(sb), ScanHandshakeMessages(rb)),
      session_hash |-> SessionHash(sb, rb, ScanHandshakeMessages(sb)),
      sf_hash |-> SfHash(sb, rb, ScanHandshakeMessages(sb), ScanHandshakeMessages(rb), "cf") ]

HandshakeParses(sb, rb) ==
    /\ ScanHandshakeMessages(sb) # Failed /\ ScanHandshakeMessages(rb) # Failed
    /\ Extractable(ParseHandshakeStream(sb), ParseHandshakeStream(rb))
    /\ HashesComputable(ScanHandshakeMessages(sb), ScanHandshakeMessages(rb))

BuildFrom(sent, recv, appSent, appRecv, sb, rb) ==
    IF /\ ParseRawRecords(sent) # Failed /\ ParseRawRecords(recv) # Failed
       /\ HandshakeParses(sb, rb)
       /\ RecordsParse(sent, appSent) /\ RecordsParse(recv, appRecv)
       /\ ValidRecords(ParseRecords(sent, appSent)) /\ ValidRecords(ParseRecords(recv, appRecv))
    THEN Assemble(sent, recv, appSent, appRecv, sb, rb)
    ELSE Failed

\* TlsTranscriptBuilder::build from traffic; appSent and appRecv are Failed for the
\* verifier, which has no plaintext.  (The one-element sets name what is computed
\* once.)
BuildTranscript(sent, recv, appSent, appRecv) ==
    CHOOSE t \in { BuildFrom(sent, recv, appSent, appRecv, sb, rb) :
                     sb \in {CollectHandshakeBytesPreCcs(sent)},
                     rb \in {CollectHandshakeBytesPreCcs(recv)} } : TRUE

\* TlsTranscript::to_transcript: the plaintext of the application data records.
ToTranscript(records) == FlattenSeq([i \in DOMAIN records |-> records[i].plaintext])
=============================================================================
