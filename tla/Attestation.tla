---------------------------- MODULE Attestation ----------------------------
(***************************************************************************)
(* Attestations (crates/attestation): the prover asks the notary to attest  *)
(* to a connection, the notary builds and signs the attestation, the prover *)
(* validates it, and later presents it to a third party with an identity    *)
(* proof and a transcript proof made from the secrets it kept.              *)
(*                                                                         *)
(* Two connections to one server, attested by one notary: "old" is done,    *)
(* with its attestation and its secrets in the prover's hands, and "new"    *)
(* goes through every step. The parts of the two can be mixed up: in the    *)
(* answer of the notary, in the proofs a presentation is built from, and in *)
(* the body of the presentation. Hashes, signatures and Merkle trees are    *)
(* ideal: the value is the tuple of what was hashed or signed.              *)
(***************************************************************************)
EXTENDS TranscriptProof

CONSTANTS
    None, Failure,      \* model values
    MaxRequested,         \* bound on the commitments of the new connection
    MaxReveals          \* bound on the reveal calls for a proof

VARIABLES
    env,                \* what the notary and the third party are configured with
    commits,            \* commitments of the new connection
    request,            \* the Request of the new connection, None or Failure
    builder,            \* the notary's AttestationBuilder<Sign>, None or Failure
    attested,           \* per connection: its Attestation, or None
    validated,          \* the connection whose attestation the request accepted
    proofs,             \* what the presentation is built from
    verdict             \* the third party's result, with what was presented

attestVars == <<env, commits, request, builder, attested, validated, proofs, verdict>>

Sessions == {"old", "new"}
Other(s) == IF s = "old" THEN "new" ELSE "old"

-----------------------------------------------------------------------------
\* The two connections. The server changed its certificate between them.

TranscriptOf(s) == IF s = "old" THEN [sent |-> <<1, 1>>, recv |-> <<1, 2>>]
                                ELSE [sent |-> <<1, 2>>, recv |-> <<1, 1>>]

LengthOf(s) == [d \in Dirs |-> Len(TranscriptOf(s)[d])]

ConnectionInfo(s) == [time |-> IF s = "old" THEN 1 ELSE 2, length |-> LengthOf(s)]

EphemKey(s) == <<"key", s>>

\* The certificate chain, the server's signature and the binding it signs.
HandshakeData(s) ==
    [certs |-> <<[name |-> "server", from |-> ConnectionInfo(s).time,
                  to |-> ConnectionInfo(s).time]>>,
     binding |-> EphemKey(s), sig |-> <<"server", EphemKey(s)>>]

\* HandshakeData::verify: the ephemeral key, the certificate at the time of
\* the connection and for the name, the signature of the key exchange.
HandshakeVerifies(hd, time, key, name) ==
    /\ key = hd.binding
    /\ hd.certs # <<>>
    /\ time \in hd.certs[1].from .. hd.certs[1].to
    /\ hd.certs[1].name = name
    /\ hd.sig = <<hd.certs[1].name, key>>

\* ServerCertOpening::new draws a blinder.
Opening(s) == [data |-> HandshakeData(s), blinder |-> <<"blinder", s>>]

\* hash_separated: the domain of the type is hashed before the data.
HashSeparated(alg, domain, data) == <<alg, domain, data>>

CertCommitment(alg, opening) ==
    [alg |-> alg, value |-> HashSeparated(alg, "ServerCertOpening", opening)]

-----------------------------------------------------------------------------
\* Signatures (signing.rs).

\* KeyAlgId and SignatureAlgId: two of the three algorithms sign with a K256 key.
KeyAlg(sigAlg) == IF sigAlg = "SECP256R1" THEN "P256" ELSE "K256"

\* SignerProvider: the notary has one key for each signer.
VerifyingKey(sigAlg) == [alg |-> KeyAlg(sigAlg), data |-> <<"notary", sigAlg>>]

\* The bytes r || s of a signature, and those of v if there are any.
SignatureData(digest, key, msg, v) == [rs |-> <<digest, key.data, msg>>, v |-> v]

SignK256(msg) == SignatureData("sha256", VerifyingKey("SECP256K1"), msg, <<>>)

SignP256(msg) == SignatureData("sha256", VerifyingKey("SECP256R1"), msg, <<>>)

\* The Ethereum signer hashes with Keccak and appends the recovery id + 27. An
\* id above 1 is an error.
SignEth(msg, recid) ==
    SignatureData("keccak256", VerifyingKey("SECP256K1ETH"), msg, <<recid + 27>>)

SignatureOf(sigAlg, msg, recid) ==
    [alg |-> sigAlg,
     data |-> CASE sigAlg = "SECP256K1" -> SignK256(msg)
                [] sigAlg = "SECP256R1" -> SignP256(msg)
                [] sigAlg = "SECP256K1ETH" -> SignEth(msg, recid)]

\* The verifiers check the kind of the key, the length and the signature; the
\* Ethereum one ignores v.
VerifiesK256(key, msg, data) ==
    key.alg = "K256" /\ data.v = <<>> /\ data.rs = <<"sha256", key.data, msg>>

VerifiesP256(key, msg, data) ==
    key.alg = "P256" /\ data.v = <<>> /\ data.rs = <<"sha256", key.data, msg>>

VerifiesEth(key, msg, data) ==
    key.alg = "K256" /\ Len(data.v) = 1 /\ data.rs = <<"keccak256", key.data, msg>>

\* SignatureVerifierProvider::get and verify.
SignatureVerifies(sig, key, msg) ==
    CASE sig.alg = "SECP256K1" -> VerifiesK256(key, msg, sig.data)
      [] sig.alg = "SECP256R1" -> VerifiesP256(key, msg, sig.data)
      [] sig.alg = "SECP256K1ETH" -> VerifiesEth(key, msg, sig.data)

-----------------------------------------------------------------------------
\* The body of an attestation (lib.rs): every field has an id and its data.

Field(id, data) == [id |-> id, data |-> data]

Fields(first, list) == [k \in DOMAIN list |-> Field(first + k - 1, list[k])]

\* FieldId::next numbers the fields in the order of the struct.
MakeBody(key, info, ephem, cert, exts, hashes) ==
    [verifying_key |-> Field(0, key),
     connection_info |-> Field(1, info),
     server_ephemeral_key |-> Field(2, ephem),
     cert_commitment |-> Field(3, cert),
     extensions |-> Fields(4, exts),
     transcript_commitments |-> Fields(4 + Len(exts), hashes)]

DataOf(fields) == {fields[k].data : k \in DOMAIN fields}

HashField(alg, domain, field) ==
    [id |-> field.id, hash |-> HashSeparated(alg, domain, field.data)]

HashEach(alg, domain, fields) ==
    [k \in DOMAIN fields |-> HashField(alg, domain, fields[k])]

\* Mutant of HashFields: the hash of the ephemeral key is that of the field
\* before it.
HashFieldsTwice(alg, body) ==
    SortSeq(<<HashField(alg, "VerifyingKey", body.verifying_key),
              HashField(alg, "ConnectionInfo", body.connection_info),
              HashField(alg, "ServerEphemKey",
                        Field(body.server_ephemeral_key.id, body.connection_info.data)),
              HashField(alg, "ServerCertCommitment", body.cert_commitment)>>
            \o HashEach(alg, "Extension", body.extensions)
            \o HashEach(alg, "TranscriptCommitment", body.transcript_commitments),
            LAMBDA f, g : f.id < g.id)

\* Body::hash_fields: sorted by id.
HashFields(alg, body) ==
    SortSeq(<<HashField(alg, "VerifyingKey", body.verifying_key),
              HashField(alg, "ConnectionInfo", body.connection_info),
              HashField(alg, "ServerEphemKey", body.server_ephemeral_key),
              HashField(alg, "ServerCertCommitment", body.cert_commitment)>>
            \o HashEach(alg, "Extension", body.extensions)
            \o HashEach(alg, "TranscriptCommitment", body.transcript_commitments),
            LAMBDA f, g : f.id < g.id)

Leaves(fields) == [k \in DOMAIN fields |-> fields[k].hash]

\* Body::root through MerkleTree::insert and root.
BodyRoot(alg, body) == [alg |-> alg, value |-> Leaves(HashFields(alg, body))]

\* MerkleTree::proof for all fields; MerkleProof::verify refuses duplicates,
\* and rs_merkle anything but the leaves of the tree at their places.
MerkleProof(body) == [leaf_count |-> Len(HashFields("", body))]

MerkleVerifies(proof, root, fields) ==
    /\ \A j, k \in DOMAIN fields : fields[j].id = fields[k].id => j = k
    /\ Len(fields) = proof.leaf_count
    /\ \A k \in DOMAIN fields : fields[k].id = k - 1
    /\ Leaves(fields) = root.value

-----------------------------------------------------------------------------
\* Requests and attestations as values.

RequestFor(s, cfg) ==
    [signature_alg |-> cfg.sig, hash_alg |-> cfg.hash,
     cert_commitment |-> CertCommitment(cfg.hash, Opening(s)), extensions |-> cfg.exts]

\* AttestationBuilder<Sign>::build, after its checks.
MakeAttestation(s, b, recid) ==
    LET body == MakeBody(VerifyingKey(b.signature_alg), b.connection_info,
                         b.server_ephemeral_key, b.cert_commitment, b.extensions,
                         SetToSeq(b.transcript_commitments))
        header == [id |-> <<"uid", s>>, version |-> 0, root |-> BodyRoot(b.hash_alg, body)]
    IN  [signature |-> SignatureOf(b.signature_alg, header, recid), header |-> header, body |-> body]

DefaultConfig == [sig |-> "SECP256K1", hash |-> "BLAKE3", exts |-> <<>>]

\* Requests the prover may make: the default, or one that differs in a point.
\* CUSTOM is an algorithm that was added with set_algorithm.
RequestConfigs ==
    {DefaultConfig}
    \cup {[DefaultConfig EXCEPT !.sig = a] : a \in {"SECP256R1", "SECP256K1ETH"}}
    \cup {[DefaultConfig EXCEPT !.hash = a] : a \in {"SHA256", "CUSTOM"}}
    \cup {[DefaultConfig EXCEPT !.exts = <<"ext">>]}

StandardHashes == {"SHA256", "BLAKE3", "KECCAK256"}

DefaultEnv ==
    [sigs |-> {"SECP256K1", "SECP256R1", "SECP256K1ETH"},  \* supported_signature_algs
     hashes |-> StandardHashes \cup {"CUSTOM"},            \* supported_hash_algs
     disallow |-> TRUE,                                    \* the default extension_validator
     signers |-> {"SECP256K1", "SECP256R1", "SECP256K1ETH"},
     provider |-> StandardHashes \cup {"CUSTOM"},          \* of the notary
     third |-> StandardHashes \cup {"CUSTOM"}]             \* of the third party

Envs ==
    {DefaultEnv,
     [DefaultEnv EXCEPT !.sigs = {"SECP256K1"}],
     [DefaultEnv EXCEPT !.hashes = StandardHashes],
     [DefaultEnv EXCEPT !.disallow = FALSE],
     [DefaultEnv EXCEPT !.signers = {"SECP256K1"}],
     [DefaultEnv EXCEPT !.provider = StandardHashes],
     [DefaultEnv EXCEPT !.third = StandardHashes]}

SignBuilder(req) ==
    [signature_alg |-> req.signature_alg, hash_alg |-> req.hash_alg,
     cert_commitment |-> req.cert_commitment, extensions |-> req.extensions,
     connection_info |-> None, server_ephemeral_key |-> None,
     transcript_commitments |-> {}]

\* The commitments of the old connection.
OldCommits == {[direction |-> "recv", idx |-> {0, 1}, alg |-> "BLAKE3"]}

CommitsOf(s) == IF s = "old" THEN OldCommits ELSE commits

Secrets(s) == SecretsOf(CommitsOf(s), s)

Commitments(s) == CommitmentsOf(Secrets(s), TranscriptOf(s))

OldAttestation ==
    MakeAttestation("old",
        [SignBuilder(RequestFor("old", DefaultConfig)) EXCEPT
            !.connection_info = ConnectionInfo("old"),
            !.server_ephemeral_key = EphemKey("old"),
            !.transcript_commitments = CommitmentsOf(SecretsOf(OldCommits, "old"),
                                                     TranscriptOf("old"))], 0)

NoProofs == [of |-> None, identity |-> None, transcript |-> None, reveals |-> 0]

AttestInit ==
    /\ env \in Envs
    /\ commits = {}
    /\ request = None
    /\ builder = None
    /\ attested = [s \in Sessions |-> IF s = "old" THEN OldAttestation ELSE None]
    /\ validated = None
    /\ proofs = NoProofs
    /\ verdict = None

-----------------------------------------------------------------------------
\* The prover: TranscriptCommitConfigBuilder::commit_with_kind. An index out
\* of bounds is refused and leaves the builder as it was.
Commit(dir, idx, alg) ==
    /\ request = None
    /\ Cardinality(commits) < MaxRequested
    /\ CommitAllowed(TranscriptOf("new"), dir, idx)
    /\ commits' = CommitWithKind(commits, dir, idx, alg)
    /\ UNCHANGED <<env, request, builder, attested, validated, proofs, verdict>>

\* RequestBuilder::build. complete: the server name, the handshake data and
\* the transcript were all set.
BuildRequest(cfg, complete) ==
    /\ request = None
    /\ request' = IF complete THEN RequestFor("new", cfg) ELSE Failure
    /\ UNCHANGED <<env, commits, builder, attested, validated, proofs, verdict>>

\* The notary: AttestationBuilder<Accept>::accept_request.
Accepts(req) ==
    /\ req.signature_alg \in env.sigs
    /\ req.hash_alg \in env.hashes
    /\ env.disallow => req.extensions = <<>>

AcceptRequest ==
    /\ request \notin {None, Failure}
    /\ builder = None
    /\ builder' = IF Accepts(request) THEN SignBuilder(request) ELSE Failure
    /\ UNCHANGED <<env, commits, request, attested, validated, proofs, verdict>>

Signing == builder \notin {None, Failure} /\ attested["new"] = None

\* The setters, in any order and any number of times.
SetConnectionInfo ==
    /\ Signing
    /\ builder' = [builder EXCEPT !.connection_info = ConnectionInfo("new")]
    /\ UNCHANGED <<env, commits, request, attested, validated, proofs, verdict>>

SetServerEphemeralKey ==
    /\ Signing
    /\ builder' = [builder EXCEPT !.server_ephemeral_key = EphemKey("new")]
    /\ UNCHANGED <<env, commits, request, attested, validated, proofs, verdict>>

AddExtension ==
    /\ Signing
    /\ "notary" \notin ToSet(builder.extensions)
    /\ builder' = [builder EXCEPT !.extensions = Append(@, "notary")]
    /\ UNCHANGED <<env, commits, request, attested, validated, proofs, verdict>>

SetTranscriptCommitments ==
    /\ Signing
    /\ builder' = [builder EXCEPT !.transcript_commitments = Commitments("new")]
    /\ UNCHANGED <<env, commits, request, attested, validated, proofs, verdict>>

\* The provider has the hasher and the signer, and the two fields are set.
Buildable ==
    /\ HasHash(env.provider, builder.hash_alg)
    /\ builder.signature_alg \in env.signers
    /\ builder.connection_info # None
    /\ builder.server_ephemeral_key # None

\* recid: the recovery id of the signature, which is always 0 or 1 but for a
\* negligible part of the signatures.
SignFails(recid) == builder.signature_alg = "SECP256K1ETH" /\ recid > 1

BuildAttestation(recid) ==
    /\ Signing
    /\ Buildable
    /\ ~SignFails(recid)
    /\ attested' = [attested EXCEPT !["new"] = MakeAttestation("new", builder, recid)]
    /\ UNCHANGED <<env, commits, request, builder, validated, proofs, verdict>>

\* build fails if a check or the signer does.
BuildFails(recid) ==
    /\ Signing
    /\ ~Buildable \/ SignFails(recid)
    /\ builder' = Failure
    /\ UNCHANGED <<env, commits, request, attested, validated, proofs, verdict>>

\* Request::validate. The prover has the verifiers of all three algorithms.
Validates(req, a) ==
    /\ a.signature.alg = req.signature_alg
    /\ a.header.root.alg = req.hash_alg
    /\ a.body.cert_commitment.data = req.cert_commitment
    /\ ToSet(req.extensions) \subseteq DataOf(a.body.extensions)
    /\ SignatureVerifies(a.signature, a.body.verifying_key.data, a.header)

\* The prover validates the answer, whichever attestation it is.
Validate(s) ==
    /\ request \notin {None, Failure}
    /\ validated = None
    /\ proofs = NoProofs /\ verdict = None
    /\ attested[s] # None
    /\ Validates(request, attested[s])
    /\ validated' = s
    /\ UNCHANGED <<env, commits, request, builder, attested, proofs, verdict>>

-----------------------------------------------------------------------------
\* The presentation, made when the answer to the request is known: an
\* attestation the request accepts, or a refusal.
Presenting ==
    /\ verdict = None
    /\ validated # None \/ builder = Failure \/ request = Failure

\* Secrets::identity_proof and transcript_proof_builder.
IdentityProof(s) ==
    /\ Presenting
    /\ proofs.identity = None
    /\ s = "new" => request \notin {None, Failure}
    /\ proofs' = [proofs EXCEPT !.identity = s]
    /\ UNCHANGED <<env, commits, request, builder, attested, validated, verdict>>

StartTranscriptProof(s, kinds) ==
    /\ Presenting
    /\ proofs.transcript = None
    /\ s = "new" => request \notin {None, Failure}
    /\ proofs' = [proofs EXCEPT !.of = s,
                    !.transcript = SetKinds(ProofBuilder(TranscriptOf(s), Secrets(s)), kinds)]
    /\ UNCHANGED <<env, commits, request, builder, attested, validated, verdict>>

\* reveal_inner refuses what is out of bounds or not committed to.
RevealRanges(dir, idx) ==
    /\ Presenting
    /\ proofs.transcript # None
    /\ proofs.reveals < MaxReveals
    /\ RevealAllowed(proofs.transcript, dir, idx)
    /\ proofs' = [proofs EXCEPT !.transcript = Reveal(@, dir, idx), !.reveals = @ + 1]
    /\ UNCHANGED <<env, commits, request, builder, attested, validated, verdict>>

\* AttestationProof::new and PresentationBuilder::build.
MakePresentation(a) ==
    [signature |-> a.signature, header |-> a.header, body |-> a.body,
     proof |-> MerkleProof(a.body),
     identity |-> IF proofs.identity = None THEN None
                  ELSE [name |-> "server", opening |-> Opening(proofs.identity)],
     transcript |-> IF proofs.transcript = None THEN None
                    ELSE BuildProof(proofs.transcript)]

\* BodyProof::verify_with_provider and AttestationProof::verify.
VerifyAttestation(p, provider) ==
    IF ~HasHash(provider, p.header.root.alg) THEN "provider"
    ELSE IF ~MerkleVerifies(p.proof, p.header.root, HashFields(p.header.root.alg, p.body))
    THEN "body"
    ELSE IF ~SignatureVerifies(p.signature, p.body.verifying_key.data, p.header)
    THEN "signature"
    ELSE "ok"

\* ServerIdentityProof::verify_with_provider.
VerifyIdentity(p, provider) ==
    LET commitment == p.body.cert_commitment.data
    IN  IF p.identity = None THEN "ok"
        ELSE IF ~HasHash(provider, commitment.alg) THEN "provider"
        ELSE IF CertCommitment(commitment.alg, p.identity.opening).value # commitment.value
        THEN "commitment"
        ELSE IF ~HandshakeVerifies(p.identity.opening.data, p.body.connection_info.data.time,
                                   p.body.server_ephemeral_key.data, p.identity.name)
        THEN "certificate"
        ELSE "ok"

VerifyTranscript(p, provider) ==
    IF p.transcript = None THEN "ok"
    ELSE VerifyProof(p.transcript, provider, p.body.connection_info.data.length,
                     DataOf(p.body.transcript_commitments))

\* Presentation::verify.
VerifyPresentation(p, provider) ==
    IF VerifyAttestation(p, provider) # "ok" THEN "attestation"
    ELSE IF VerifyIdentity(p, provider) # "ok" THEN "identity"
    ELSE IF VerifyTranscript(p, provider) # "ok" THEN "transcript"
    ELSE "ok"

BodyFields == {"verifying_key", "connection_info", "server_ephemeral_key",
               "cert_commitment", "extensions", "transcript_commitments"}

\* The third party verifies the presentation of connection s: as it was built,
\* or with a field of the body taken from the other attestation.
Present(s, mixed) ==
    /\ Presenting
    /\ attested[s] # None
    /\ mixed # None => attested[Other(s)] # None /\ proofs.reveals < MaxReveals
    /\ proofs.transcript # None => BuildAllowed(proofs.transcript)
    /\ LET built == MakePresentation(attested[s])
           p == IF mixed = None THEN built
                ELSE [built EXCEPT !.body[mixed] = attested[Other(s)].body[mixed]]
       IN  verdict' = [result |-> VerifyPresentation(p, env.third), of |-> s, mixed |-> mixed, shown |-> p]
    /\ UNCHANGED <<env, commits, request, builder, attested, validated, proofs>>

\* To bound the instance, the commitments vary only where everything else is the
\* default: otherwise there are none or those of the old connection.
AttestNext ==
    \/ \E call \in {<<"sent", {0}, "BLAKE3">>, <<"recv", {0, 1}, "BLAKE3">>,
                    <<"recv", {0}, "SHA256">>, <<"recv", {1, 2}, "SHA256">>} :
         /\ env = DefaultEnv \/ call = <<"recv", {0, 1}, "BLAKE3">>
         /\ Commit(call[1], call[2], call[3])
    \/ \E cfg \in RequestConfigs, complete \in BOOLEAN :
         /\ cfg = DefaultConfig \/ commits \subseteq OldCommits
         /\ BuildRequest(cfg, complete)
    \/ AcceptRequest
    \/ SetConnectionInfo
    \/ SetServerEphemeralKey
    \/ AddExtension
    \/ SetTranscriptCommitments
    \/ \E recid \in 0..2 : BuildAttestation(recid) \/ BuildFails(recid)
    \/ \E s \in Sessions : Validate(s) \/ IdentityProof(s)
    \/ \E s \in Sessions, kinds \in {<<>>, <<"BLAKE3", "BLAKE3">>} :
         StartTranscriptProof(s, kinds)
    \/ \E dir \in Dirs, idx \in {{0}, {0, 1}, {1, 2}} : RevealRanges(dir, idx)
    \/ \E s \in Sessions, mixed \in BodyFields \cup {None} : Present(s, mixed)

-----------------------------------------------------------------------------
\* The attestation a request accepts was made for this request, also if the
\* notary's answers to two requests to the same server are swapped: the
\* blinded commitment to the certificate tells them apart (Request::validate).
ValidatedIsOwn ==
    validated # None =>
        /\ validated = "new"
        /\ attested["new"].body.cert_commitment.data = request.cert_commitment
        /\ ToSet(request.extensions) \subseteq DataOf(attested["new"].body.extensions)

\* What Presentation::verify accepts is about one connection: the body is the
\* one the notary signed for it, the identity is the one of its server, and
\* every byte shown as authenticated is the byte of its transcript, in a range
\* it committed to.
AcceptedIsAttested ==
    (verdict # None /\ verdict.result = "ok") =>
        LET s == verdict.of
            p == verdict.shown
        IN  /\ p.body = attested[s].body
            /\ p.identity # None => p.identity.opening = Opening(s)
            /\ p.transcript # None =>
                 \A d \in Dirs : \A i \in p.transcript.transcript.authed[d] :
                    /\ p.transcript.transcript.bytes[d][i + 1] = TranscriptOf(s)[d][i + 1]
                    /\ \E c \in CommitsOf(s) : c.direction = d /\ i \in c.idx

\* What either end accepts is the notary's word about this connection:
\* Request::validate and Presentation::verify take nothing else.
AcceptedIsOwn == ValidatedIsOwn /\ AcceptedIsAttested

\* A presentation built of the attestation and the proofs of one connection
\* verifies, whatever the order of the calls that built them, if the notary set
\* the transcript commitments and the third party has the hash algorithms.
HonestAccepted ==
    (verdict # None /\ verdict.mixed = None) =>
        LET s == verdict.of
            p == verdict.shown
            algs == {attested[s].header.root.alg}
                    \cup (IF p.transcript = None THEN {} ELSE {t.alg : t \in p.transcript.secrets})
        IN  (/\ p.identity # None => proofs.identity = s
             /\ p.transcript # None =>
                  proofs.of = s /\ DataOf(p.body.transcript_commitments) = Commitments(s)
             /\ algs \subseteq env.third)
            => verdict.result = "ok"
=============================================================================
