----------------------------- MODULE Algorithms -----------------------------
(***************************************************************************)
(* Drives the sequential parts of the program through sequences of calls:   *)
(* the codecs of the handshake messages, the two-party arithmetic, the      *)
(* partial transcript and the SDK.  A behaviour is one job, of one of these *)
(* kinds:                                                                   *)
(*   codec       a message is written, perhaps changed on its way, and read *)
(*   ghash       both parties set up their shares of the powers of H        *)
(*   aead        one party's keystream and tag masks are handed to records  *)
(*   points      two points are added                                       *)
(*   map         allocations of two virtual machines are related            *)
(*   transcript  a verifier collects authenticated data                     *)
(*   handlers    a plugin's handlers are applied to an HTTP exchange        *)
(*   sdk         applications call the methods of both SDK objects          *)
(***************************************************************************)
EXTENDS HandshakeCodec, Primitives, PartialTranscript, Sdk

CONSTANTS
    DamageBytes, MaxDamage,     \* what bytes are replaced by, and how often
    Masks,                      \* shares, and masks of shares, of field elements
    Texts,                      \* bytes records are made of
    MaxAllocRecords,            \* records the aead is allocated for
    MaxAllocLen,                \* bytes the aead is allocated for
    MaxUses,                    \* records taken from the aead
    PrimeMasks,                 \* shares the conversions choose
    MapEnd, MaxAllocs,          \* the memory and its allocations
    Fills,                      \* values given to bytes without authentication
    MaxHandlers                 \* handlers of a plugin

VARIABLE job

Parties == {"leader", "follower"}

-----------------------------------------------------------------------------
(* Codec *)

CodecInit ==
    \E k \in Kinds : \E m \in Samples(k) :
        job = [alg |-> "codec", kind |-> k, msg |-> m, wire |-> Encode(Formats[k], m),
               damage |-> 0, signed |-> EncodingForBinderSigning(k, m)]

\* The binder computed over `signed` is as long as the one it replaces.
FillBinder ==
    /\ job.alg = "codec"
    /\ job.damage = 0
    /\ PskIsLast(job.kind, job.msg)
    /\ \E b \in DamageBytes : \E m \in {SetPskBinder(job.msg, <<b>>)} :
          job' = [job EXCEPT !.msg = m, !.wire = Encode(Formats[job.kind], m)]

\* Bytes that were not written by this encoder.
Damaged(wire) ==
    /\ job.damage < MaxDamage
    /\ job' = [job EXCEPT !.wire = wire, !.damage = @ + 1]

DamageByte ==
    /\ job.alg = "codec"
    /\ \E i \in 1..Len(job.wire), b \in DamageBytes : Damaged([job.wire EXCEPT ![i] = b])

Truncate ==
    /\ job.alg = "codec"
    /\ \E n \in 0..Len(job.wire) - 1 : Damaged(SubSeq(job.wire, 1, n))

Follow ==
    /\ job.alg = "codec"
    /\ \E b \in DamageBytes : Damaged(Append(job.wire, b))

-----------------------------------------------------------------------------
(* GHASH *)

\* GHASH keys, as blocks.
Keys == {<<{0}, {1, 2}>>, <<{1, 2}, {}>>, <<{}, {0, 1}>>}

\* The key of GHASH decoded into shares.
GhashInit ==
    \E key \in Keys, otpL \in Masks, otpF \in Masks :
        job = [alg |-> "ghash", stage |-> "Init", key |-> key,
               share |-> OneTimePadShared(BitsOf(key), otpL, otpF),
               shares |-> [p \in Parties |-> <<>>]]

\* A block with the given bits.
BlockOf(e) == <<{i - 3 : i \in {j \in e : j > 2}}, {i \in e : i < 3}>>

GhashKeys ==
    /\ job.alg = "ghash" /\ job.stage = "Init"
    /\ \E set \in {[p \in Parties |->
                        GhashSetKey([stage |-> "Init", shares |-> <<>>], BlockOf(job.share[p]))]} :
          job' = [job EXCEPT !.stage = set.leader.stage,
                             !.shares = [p \in Parties |-> set[p].shares]]

GhashReady ==
    /\ job.alg = "ghash" /\ job.stage = "SetKey"
    /\ \E mask \in Masks \ {{}}, oddMask \in Masks :
       \E shares \in {GhashSetup([p \in Parties |-> job.shares[p][1]], mask, oddMask)} :
          job' = [job EXCEPT !.stage = "Ready", !.shares = shares]

-----------------------------------------------------------------------------
(* Keystream *)

AeadInit ==
    job = [alg |-> "aead", aead |-> NewAead(NewAes), uses |-> <<>>, input |-> <<>>,
           records |-> 0, tags |-> 0]

AeadKey ==
    /\ job.alg = "aead" /\ job.aead.stage = "Init"
    /\ job' = [job EXCEPT !.aead.aes = SetAesKey(@)]

AeadIv ==
    /\ job.alg = "aead" /\ job.aead.stage = "Init"
    /\ job' = [job EXCEPT !.aead.aes = SetAesIv(@)]

AeadAlloc ==
    /\ job.alg = "aead" /\ job.aead.stage = "Init"
    /\ \E records \in 0..MaxAllocRecords, len \in 0..MaxAllocLen :
          job' = [job EXCEPT !.aead = AllocAead(@, records, len)]

AeadSetup ==
    /\ job.alg = "aead" /\ job.aead.stage \in {"Init", "Setup"}
    /\ job' = [job EXCEPT !.aead = SetupAead(@)]

\* Each record has a nonce of its own, the number of the record.
AfterOutcome(out, records, tags) ==
    job' = [job EXCEPT !.aead = out.aead, !.uses = @ \o out.uses, !.input = @ \o out.input,
                       !.records = @ + records, !.tags = @ + tags]

AeadApply ==
    /\ job.alg = "aead" /\ job.records < MaxUses
    /\ \E len \in 0..MaxAllocLen :
       \E out \in {ApplyKeystream(job.aead, job.records, len)} : AfterOutcome(out, 1, 0)

AeadTake ==
    /\ job.alg = "aead" /\ job.records < MaxUses
    /\ \E len \in 0..MaxAllocLen :
       \E out \in {TakeKeystream(job.aead, job.records, len)} : AfterOutcome(out, 1, 0)

\* The tag of the oldest record that has none.
AeadTag ==
    /\ job.alg = "aead" /\ job.tags < job.records
    /\ \E out \in {ComputeTag(job.aead, job.tags)} : AfterOutcome(out, 0, 1)

-----------------------------------------------------------------------------
(* Points *)

PointsInit ==
    \E p \in Points, q \in Points :
        p[1] # q[1] /\ job = [alg |-> "points", p |-> p, q |-> q, x |-> <<>>]

\* The multiplicative shares of a difference that is not zero are not zero.
AddPoints ==
    /\ job.alg = "points" /\ job.x = <<>>
    /\ \E ry \in PrimeMasks, rx \in PrimeMasks, rc \in PrimeMasks :
          job' = [job EXCEPT !.x = <<DeriveXCoordShares(job.p, job.q, ry, rx, rc)>>]

-----------------------------------------------------------------------------
(* Memory map *)

MapInit == job = [alg |-> "map", map |-> <<>>]

Slices == {r \in (0..MapEnd) \X (0..MapEnd) : r[1] < r[2]}

\* Both machines allocate; the other one has allocations of its own between.
MapAlloc ==
    /\ job.alg = "map" /\ Len(job.map) < MaxAllocs
    /\ \E mpc \in Slices, zk \in Slices :
          /\ CanInsert(job.map, mpc, zk)
          /\ job.map # <<>> => Last(job.map).zk[2] <= zk[1]
          /\ job' = [job EXCEPT !.map = Append(@, [mpc |-> mpc, zk |-> zk])]

-----------------------------------------------------------------------------
(* Partial transcript *)

\* The application data of the connection; every byte can be told apart.
Truth == [sent |-> <<11, 12, 13>>, received |-> <<21, 22>>]

Idx(d) == SUBSET (1..Len(Truth[d]))

TranscriptInit ==
    job = [alg |-> "transcript",
           pt |-> NewPartial([d \in Directions |-> Len(Truth[d])])]

Collect(pt) == job' = [job EXCEPT !.pt = pt]

\* Authenticated data arrives as a partial transcript whose other bytes have
\* been filled, or as a subsequence.
AddTranscript ==
    /\ job.alg = "transcript"
    /\ \E s \in Idx("sent"), r \in Idx("received"), v \in Fills :
          Collect(UnionTranscript(job.pt,
              SetUnauthed(ToPartial(Truth, [sent |-> s, received |-> r]), v)))

AddSubsequence ==
    /\ job.alg = "transcript"
    /\ \E d \in Directions : \E idx \in Idx(d) :
          /\ ContainsIdx(job.pt, d, idx)
          /\ Collect(UnionSubsequence(job.pt, d, Get(Truth, d, idx)[1]))

FillUnauthed ==
    /\ job.alg = "transcript"
    /\ \E v \in Fills : Collect(SetUnauthed(job.pt, v))

FillUnauthedRange ==
    /\ job.alg = "transcript"
    /\ \E v \in Fills, d \in Directions :
       \E first \in 1..Len(Truth[d]), last \in 0..Len(Truth[d]) :
          Collect(SetUnauthedRange(job.pt, v, d, first..last))

\* Sent to another party and read there.
TransferPartial ==
    /\ job.alg = "transcript"
    /\ ValidCompressed(Compress(job.pt))
    /\ Collect(Decompress(Compress(job.pt)))

-----------------------------------------------------------------------------
(* Handlers *)

\* A GET request with two headers and no body, and a response with the body
\* {"a": .., "b": [..]} in two chunks.
Exchange ==
    [Sent |-> [kind |-> "Request", len |-> 12, line |-> 1..4, method |-> {1}, target |-> {3},
               headers |-> <<[name |-> "h", key |-> {5}, rest |-> {6, 8}, value |-> {7}],
                             [name |-> "k", key |-> {9}, rest |-> {10, 12}, value |-> {11}]>>,
               body |-> <<>>, matches |-> <<{2}, {7, 8}>>],
     Recv |-> [kind |-> "Response", len |-> 14, line |-> 1..3, code |-> {2}, reason |-> {3},
               headers |-> <<[name |-> "h", key |-> {4}, rest |-> {5, 7}, value |-> {6}]>>,
               body |-> <<[all |-> 8..14 \ {11}, json |-> TRUE,
                           doc |-> [root |-> [parent |-> "none", key |-> {}, value |-> 8..14 \ {11}],
                                    a |-> [parent |-> "object", key |-> {8}, value |-> {9}],
                                    b |-> [parent |-> "object", key |-> {10}, value |-> {12, 13}],
                                    b0 |-> [parent |-> "array", key |-> {}, value |-> {13}]]]>>,
               matches |-> <<>>]]

Params(key, hideKey, hideValue, content, path, regex) ==
    [key |-> key, hideKey |-> hideKey, hideValue |-> hideValue, content |-> content,
     path |-> path, regex |-> regex]

ParamsOf(part) ==
    CASE part = "Headers" ->
            {<<>>} \cup {<<Params(k, hk, hv, "none", <<>>, <<>>)>> :
                            k \in {<<>>, <<"h">>}, hk \in BOOLEAN, hv \in BOOLEAN}
      [] part = "Body" ->
            {<<>>, <<Params(<<>>, FALSE, TRUE, "none", <<>>, <<>>)>>} \cup
            {<<Params(<<>>, hk, hv, "json", path, <<>>)>> :
                hk \in BOOLEAN, hv \in BOOLEAN,
                path \in {<<>>, <<"root">>, <<"a">>, <<"b0">>, <<"missing">>}}
      [] part = "All" ->
            {<<>>} \cup {<<Params(<<>>, FALSE, FALSE, "regex", <<>>, re)>> :
                            re \in {<<>>, <<"valid">>, <<"invalid">>}}
      [] OTHER -> {<<>>}

Handlers ==
    UNION {{[type |-> t, part |-> part, alg |-> alg, params |-> params] :
                t \in {"Sent", "Recv"}, alg \in {<<>>, <<"BLAKE3">>}, params \in ParamsOf(part)} :
           part \in {"StartLine", "Protocol", "Method", "RequestTarget", "StatusCode",
                     "Headers", "Body", "All"}}

HandlersInit == job = [alg |-> "handlers", handlers |-> <<>>, out |-> NothingRevealed]

NextHandler ==
    /\ job.alg = "handlers" /\ Len(job.handlers) < MaxHandlers
    /\ \E h \in Handlers : \E hs \in {Append(job.handlers, h)} :
          job' = [job EXCEPT !.handlers = hs, !.out = ComputeReveal(hs, Exchange)]

-----------------------------------------------------------------------------
(* The SDK objects of a prover and a verifier *)

\* What the application asks to reveal: some handlers applied to the exchange,
\* and a range that is not in the transcript.
Plugin(type, part, alg) == [type |-> type, part |-> part, alg |-> alg, params |-> <<>>]

Requests ==
    {ComputeReveal(hs, Exchange) : hs \in
        {<<>>,
         <<Plugin("Sent", "StartLine", <<>>), Plugin("Recv", "StatusCode", <<"SHA256">>)>>,
         <<Plugin("Sent", "Headers", <<"BLAKE3">>), Plugin("Recv", "Body", <<"BLAKE3">>)>>}}
    \cup {[NothingRevealed EXCEPT !.reveal.Recv = <<{14, 15}>>]}

Settings(sent, sentRecords, recvRecordsOnline) ==
    [sent |-> sent, recv |-> 1, sentRecords |-> sentRecords, recvRecordsOnline |-> recvRecordsOnline]

SdkInit ==
    \E mode \in {"Mpc", "Proxy"}, sent \in 0..2, ps \in {<<>>, <<2>>}, pr \in {<<>>, <<1>>},
       vs \in {<<>>, <<1>>}, vr \in {<<>>, <<1>>} :
        /\ mode = "Proxy" => sent = 1 /\ ps = <<>> /\ pr = <<>> /\ vs = <<>> /\ vr = <<>>
        /\ ValidProverConfig(mode, Settings(sent, ps, pr))
        /\ job = [alg |-> "sdk", mode |-> mode, offer |-> Settings(sent, ps, pr),
                  limits |-> Settings(1, vs, vr), p |-> NewProver, v |-> NewVerifier, joint |-> 0,
                  request |-> NothingRevealed, out |-> NoRanges,
                  seen |-> [revealed |-> Revealed(NothingRevealed), commitments |-> {}]]

Lens == [d \in {"Sent", "Recv"} |-> Exchange[d].len]

SdkProverCalls ==
    /\ job.alg = "sdk" /\ job.p.call = "none" /\ job.p.state # "Error"
    /\ \/ job' = [job EXCEPT !.p = ProverSetup(@)]
       \/ \E hasIo \in BOOLEAN : job' = [job EXCEPT !.p = ProverSend(@, job.mode, hasIo)]
       \/ \E r \in Requests :
             job' = [job EXCEPT
                !.p = IF InBounds(r, Lens) THEN ProverReveal(@)
                      ELSE Fails(ProverReveal(@)),
                !.request = IF job.p.state = "Committed" THEN r ELSE @]

SdkVerifierCalls ==
    /\ job.alg = "sdk" /\ job.v.call = "none" /\ job.v.state # "Error"
    /\ \E v \in {VerifierConnect(job.v), VerifierSetup(job.v), SetServerSocket(job.v),
                  VerifierRun(job.v), VerifierVerify(job.v)} :
          job' = [job EXCEPT !.v = v]

\* Both are in the methods of the next step of the protocol.  A prover whose
\* limits are rejected does not get there.
SdkJoint ==
    /\ job.alg = "sdk" /\ job.p.call # "none" /\ job.v.call # "none"
    /\ Step(job.p.call) = job.joint + 1 /\ Step(job.v.call) = job.joint + 1
    /\ IF job.joint = 0 /\ job.mode = "Mpc" /\ Rejects(job.offer, job.limits)
       THEN job' = [job EXCEPT !.p = Fails(@), !.v = Fails(@)]
       ELSE job' = [job EXCEPT !.joint = @ + 1,
                               !.seen = IF job.joint = 2
                                        THEN [revealed |-> Revealed(job.request),
                                              commitments |-> Commitments(job.request)]
                                        ELSE @]

SdkProverReturns ==
    /\ job.alg = "sdk" /\ job.p.call # "none" /\ Step(job.p.call) <= job.joint
    /\ \E order \in IF job.p.call = "reveal" THEN SetToSeqs(Commitments(job.request)) ELSE {<<>>} :
          job' = [job EXCEPT !.p = ProverReturns(@, job.mode), !.out = BuildRevealOutput(order)]

SdkVerifierReturns ==
    /\ job.alg = "sdk" /\ job.v.call # "none" /\ Step(job.v.call) <= job.joint
    /\ job' = [job EXCEPT !.v = VerifierReturns(@, job.mode)]

\* The connection fails, or the application drops the future.
SdkFails ==
    /\ job.alg = "sdk"
    /\ \/ job.p.call # "none" /\ job' = [job EXCEPT !.p = Fails(@)]
       \/ job.v.call # "none" /\ job' = [job EXCEPT !.v = Fails(@)]

-----------------------------------------------------------------------------

Init ==
    \/ CodecInit \/ GhashInit \/ AeadInit \/ PointsInit \/ MapInit \/ TranscriptInit
    \/ HandlersInit \/ SdkInit

Next ==
    \/ FillBinder \/ DamageByte \/ Truncate \/ Follow
    \/ GhashKeys \/ GhashReady
    \/ AeadKey \/ AeadIv \/ AeadAlloc \/ AeadSetup \/ AeadApply \/ AeadTake \/ AeadTag
    \/ AddPoints
    \/ MapAlloc
    \/ AddTranscript \/ AddSubsequence \/ FillUnauthed \/ FillUnauthedRange \/ TransferPartial
    \/ NextHandler
    \/ SdkProverCalls \/ SdkVerifierCalls \/ SdkJoint \/ SdkProverReturns \/ SdkVerifierReturns
    \/ SdkFails

Spec == Init /\ [][Next]_job

-----------------------------------------------------------------------------
(* Properties *)

\* What is read is what was there: whatever the bytes, a message that is
\* accepted is written again as exactly the bytes it was read from, so that
\* the handshake hash of the decoded message is that of the received one.
\* Every length, every nested reader and every `any_left` check takes part
\* (codec.rs, HandshakeMessagePayload::read_version and the extensions).
Canonical ==
    job.alg = "codec" =>
        \A r \in {ReadAll(job.kind, job.wire)} :
            r.ok => Encode(Formats[job.kind], r.val) = job.wire

\* Reading an undamaged encoding gives back the message that was written, and
\* no byte more or less is a message: the reader stops where the writer did.
\* A TLS 1.3 chain converted to certificates survives the older format too, and
\* a hello whose binder is filled in still begins with the bytes the binder was
\* computed over (get_encoding_for_binder_signing, set_psk_binder).
RoundTrip ==
    job.alg = "codec" /\ job.damage = 0 =>
        /\ ReadAll(job.kind, job.wire) = Some(job.msg, <<>>)
        /\ ~ReadAll(job.kind, Front(job.wire)).ok
        /\ job.kind = "Handshake13" /\ IsType(job.kind, job.msg, HandshakeType.Certificate) =>
              Read(CertificatePayload, Encode(CertificatePayload, Convert(job.msg)))
                = Some(Convert(job.msg), <<>>)
        /\ PskIsLast(job.kind, job.msg) =>
              job.wire = job.signed \o Encode(PresharedKeyBinders, Binders(job.msg))

\* Writing and reading are inverse to each other: on every message written, and on
\* every sequence of bytes accepted (codec.rs and handshake.rs).
CodecSound == Canonical /\ RoundTrip

\* A message the client accepts says one thing: what `find_extension` finds
\* does not depend on the order the extensions stand in, and the end-entity's
\* OCSP response and SCTs are those of the first entry (has_duplicate_extension
\* and its callers in the client's states).
QueriesUnambiguous ==
    job.alg = "codec" =>
        \A r \in {ReadAll(job.kind, job.wire)} :
            r.ok /\ ~Refused(job.kind, r.val) =>
                \A exts \in Range(ExtensionLists(job.kind, r.val)) :
                    \A j \in 1..Len(exts) :
                        FindExtension(exts, TypeOf(exts[j])) = <<BodyOf(exts[j])>>

\* The tag the leader assembles from both shares is the tag of AES-GCM, for
\* every record up to the longest: the additive shares of each power of H sum
\* to that power, the last block meets the first power, and the powers suffice;
\* the leader accepts a record with this tag and with no other
\* (ghash.rs, MAX_POWER; compute.rs and verify.rs).
TagIsGcm ==
    job.alg = "ghash" /\ job.stage = "Ready" =>
        \A aadLen \in 0..BlockLen, len \in 0..MaxRecord, t \in Texts, j0 \in Masks, otp \in Masks :
            \A aad \in {[i \in 1..aadLen |-> {i - 1}]},
               text \in {[i \in 1..len |-> IF i % 3 = 1 THEN t ELSE {i % 3}]},
               mask \in {OneTimePadShared(j0, otp, {})} :
                \A share \in {[p \in Parties |-> TagShare(mask[p], job.shares[p], aad, text)]} :
                    /\ share.leader.ok /\ share.follower.ok
                    /\ \A tag \in {Xor(j0, GhashReference(ToField(job.key), aad, text))} :
                          /\ Xor(share.leader.tag, share.follower.tag) = tag
                          /\ VerifyTags(<<share.leader.tag>>, <<share.follower.tag>>, <<tag>>)
                          /\ ~VerifyTags(<<share.leader.tag>>, <<share.follower.tag>>,
                                         <<Xor(tag, {0})>>)

\* Keystream is used once: whatever the records take, in whatever order, no
\* cell of keystream or input is handed out twice, no nonce and counter are
\* assigned twice (the mask of the tag included), the blocks of a record count
\* up from START_CTR in the order of their cells, and one key schedule serves
\* all of it (Keystream::consume and assign, apply_keystream, take_keystream,
\* compute_tags, Aes128).
KeystreamOnce ==
    job.alg = "aead" =>
        /\ \A i, j \in 1..Len(job.uses) : i # j =>
              /\ <<job.uses[i].kind, job.uses[i].cell>> # <<job.uses[j].kind, job.uses[j].cell>>
              /\ <<job.uses[i].nonce, job.uses[i].ctr>> # <<job.uses[j].nonce, job.uses[j].ctr>>
        /\ \A i, j \in 1..Len(job.input) : i # j => job.input[i] # job.input[j]
        /\ \A i \in 1..Len(job.uses) : job.uses[i].kind = "keystream" =>
              \/ job.uses[i].ctr = START_CTR
              \/ \E j \in 1..Len(job.uses) :
                    /\ job.uses[j].kind = "keystream" /\ job.uses[j].nonce = job.uses[i].nonce
                    /\ job.uses[j].ctr = job.uses[i].ctr - 1
                    /\ job.uses[j].cell = job.uses[i].cell - 1
        /\ job.aead.aes.schedules <= 1
        /\ job.aead.stage = "Ready" => job.aead.aes.key /\ job.aead.aes.iv

\* The x-coordinates shared by the two parties sum to that of the sum of the
\* points, whatever shares the conversions chose: it is that of the third point
\* in which the line through both meets the curve (derive_x_coord_share).
SharesSumToPoint ==
    job.alg = "points" /\ job.x # <<>> =>
        \E r \in Points :
            /\ r[1] = (job.x[1].leader + job.x[1].follower) % Prime
            /\ OnLine(job.p, job.q, r)
            /\ r[1] \in {job.p[1], job.q[1]} => Tangent(job.p, job.q, r[1])

\* A slice is translated exactly when one allocation holds all of it, and then
\* byte by byte to the bytes that were allocated together with it
\* (MemoryMap::try_get).
SlicesTranslate ==
    job.alg = "map" =>
        \A slice \in Slices : \A got \in {TryGet(job.map, slice)} :
            /\ got # <<>> <=> \E i \in 1..Len(job.map) :
                    job.map[i].mpc[1] <= slice[1] /\ slice[2] <= job.map[i].mpc[2]
            /\ got # <<>> =>
                    /\ got[1][2] - got[1][1] = slice[2] - slice[1]
                    /\ \E i \in 1..Len(job.map) :
                          /\ slice[1] \in job.map[i].mpc[1]..job.map[i].mpc[2] - 1
                          /\ slice[1] - job.map[i].mpc[1] = got[1][1] - job.map[i].zk[1]

\* What is marked authenticated is the transcript: after any sequence of
\* unions, fills and transfers the bytes at authenticated positions are those of
\* the connection, and a transcript that says it is complete is the whole of it
\* (union_transcript, union_subsequence, set_unauthed, set_unauthed_range, the
\* compressed form).
AuthedIsTruth ==
    job.alg = "transcript" =>
        /\ \A d \in Directions : AuthedData(job.pt, d) = Select(Truth[d], job.pt.authed[d])
        /\ IsComplete(job.pt) => job.pt.data = Truth
        /\ ValidCompressed(Compress(job.pt))

\* Handlers do what they say: a byte is revealed only if a REVEAL handler's
\* part covers it, what HASH handlers select is committed to range by range in
\* the order of the handlers, every such range is reported with its handler,
\* and the value (key) of a header or object field under `hideValue`
\* (`hideKey`) is not among them (compute_reveal, extract_*).
HandlersHonoured ==
    job.alg = "handlers" /\ job.out.ok =>
        \A d \in {"Sent", "Recv"} :
            LET listed == job.out.annotated[d]
                hash == SelectSeq(listed, LAMBDA a : a.handler.alg # <<>>)
                plain == SelectSeq(listed, LAMBDA a : a.handler.alg = <<>>)
            IN  /\ job.out.commit[d] = [i \in 1..Len(hash) |->
                        [range |-> hash[i].range, alg |-> hash[i].handler.alg[1]]]
                /\ job.out.reveal[d] = [i \in 1..Len(plain) |-> plain[i].range]
                /\ \A a \in Range(listed) :
                      /\ a.range \subseteq 1..Exchange[d].len
                      /\ a.handler \in Range(job.handlers) /\ a.handler.type = d
                      /\ a.handler.part = "Headers" /\ a.handler.params # <<>> =>
                            \A h \in Range(Exchange[d].headers) :
                                /\ a.handler.params[1].hideValue => a.range \cap h.value = {}
                                /\ a.handler.params[1].hideKey => a.range \cap h.key = {}
                                /\ a.range \cap HeaderAll(h) # {} =>
                                      a.handler.params[1].key \in {<<>>, <<h.name>>}

\* An SDK object is complete only after the whole protocol: whatever methods the
\* applications call, in whatever order, with futures dropped or connections
\* failing, a prover or verifier that is Complete has been through setup,
\* connection and disclosure together with its peer, the openings the prover
\* returns are of the commitments the verifier has seen, every range a handler
\* selected was revealed or committed to, and no connection is
\* made under limits that the verifier's configuration sets lower
\* (State::take, SdkVerifier::setup, build_reveal_output).
SdkOutcome ==
    job.alg = "sdk" =>
        /\ job.p.state = "Complete" \/ job.v.state = "Complete" => job.joint = 3
        /\ job.p.state = "Committed" \/ job.v.state = "Committed" => job.joint >= 2
        /\ job.p.state = "Complete" =>
              Range(job.out.Sent) \cup Range(job.out.Recv) = job.seen.commitments
        /\ job.v.state = "Complete" =>
              \A d \in {"Sent", "Recv"} : \A a \in Range(job.request.annotated[d]) :
                  IF a.handler.alg = <<>> THEN a.range \subseteq job.seen.revealed[d]
                  ELSE \E c \in job.seen.commitments : c.dir = d /\ c.range = a.range
        /\ job.joint > 0 /\ job.mode = "Mpc" =>
              /\ job.offer.sent <= job.limits.sent /\ job.offer.recv <= job.limits.recv
              /\ job.offer.sentRecords # <<>> /\ job.limits.sentRecords # <<>> =>
                    job.offer.sentRecords[1] <= job.limits.sentRecords[1]
=============================================================================
