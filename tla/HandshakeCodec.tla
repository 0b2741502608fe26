--------------------------- MODULE HandshakeCodec ---------------------------
(***************************************************************************)
(* The codec of the TLS messages (crates/tls/core/src/msgs): how a message  *)
(* becomes bytes and how bytes become a message.                            *)
(*                                                                          *)
(* Every type that implements `Codec` in the source is a FORMAT here: a     *)
(* term that says which fields the type has, in which order, and how each   *)
(* is delimited.  Encode and Read interpret a format the way the type's     *)
(* `encode` and `read` do.  A decoded value is a tree: a leaf holds bytes   *)
(* (an integer, an enum, an opaque payload), a node holds the values of a   *)
(* struct, of a list, or a tag and what it selects.                         *)
(*                                                                          *)
(* Algorithms drives these operators over encodings, damaged ones included. *)
(***************************************************************************)
EXTENDS Integers, Sequences, SequencesExt, FiniteSets, TLC

CONSTANTS
    RandomLen,      \* bytes of a Random (32 in the code)
    MaxSessionId,   \* bytes a SessionID may have (32)
    MaxCertBytes    \* bytes a list of certificates may have (0x10000)

ASSUME CodecConstants ==
    /\ RandomLen \in 1..32 /\ MaxSessionId \in 0..32 /\ MaxCertBytes \in 0..65536

-----------------------------------------------------------------------------
(* Integers and the reader *)

\* Big-endian bytes of `n` in `w` bytes: the conversion to the width of the
\* field drops what does not fit.
RECURSIVE BigEndian(_, _)
BigEndian(n, w) ==
    IF w = 0 THEN <<>> ELSE Append(BigEndian(n \div 256, w - 1), n % 256)

RECURSIVE Number(_)
Number(b) == IF b = <<>> THEN 0 ELSE 256 * Number(Front(b)) + Last(b)

Leaf(b) == [bytes |-> b, items |-> <<>>]
Node(s) == [bytes |-> <<>>, items |-> s]

\* What a `read` returns: Some(value) with the reader advanced, or None.
Some(v, rest) == [ok |-> TRUE, val |-> v, rest |-> rest]
NoneRead == [ok |-> FALSE, val |-> Leaf(<<>>), rest |-> <<>>]

\* Reader::take: None when fewer than `n` bytes are left.
Take(b, n) ==
    IF Len(b) < n THEN NoneRead
    ELSE Some(Leaf(SubSeq(b, 1, n)), SubSeq(b, n + 1, Len(b)))

\* A length of `w` bytes, then a sub-reader of that many bytes; `max` is the
\* most the length may say.
Sub(b, w, max) ==
    LET len == Take(b, w)
        n == Number(len.val.bytes)
    IN  IF ~len.ok \/ n > max THEN NoneRead ELSE Take(len.rest, n)

-----------------------------------------------------------------------------
(* The formats *)

NoLimit == 16777216

Fixed(n) == [k |-> "fixed", n |-> n]
U8 == Fixed(1)
U16 == Fixed(2)
U32 == Fixed(4)
\* Payload: everything that is left.
Payload == [k |-> "rest"]
PayloadOf(w, max) == [k |-> "payload", w |-> w, max |-> max]
PayloadU8 == PayloadOf(1, NoLimit)
PayloadU16 == PayloadOf(2, NoLimit)
PayloadU24 == PayloadOf(3, NoLimit)
\* encode_vec_* and read_vec_*: the bytes of the items behind their length.
VecOf(w, item, max) == [k |-> "vec", w |-> w, item |-> item, max |-> max]
VecU8(item) == VecOf(1, item, NoLimit)
VecU16(item) == VecOf(2, item, NoLimit)
VecU24Limited(item) == VecOf(3, item, MaxCertBytes)
Struct(fields) == [k |-> "struct", fields |-> fields]
\* A value that is always written and must be found when read.
Exactly(b) == [k |-> "exactly", bytes |-> b]
\* A list that must not be empty when read; a list left out when it is empty.
NonEmpty(f) == [k |-> "nonempty", of |-> f]
Optional(f) == [k |-> "optional", of |-> f]
\* A payload that must be a DNS name.
DnsPayload == [k |-> "dns"]
\* Never legal on the wire.
Illegal == [k |-> "illegal"]
\* A tag of `n` bytes and the format it selects.  With w > 0 the selected
\* value stands behind a length of `w` bytes and must use all of it.
Switch(n, w, arms, other) ==
    [k |-> "switch", n |-> n, w |-> w, arms |-> arms, other |-> other]

Arm(f, tag) == IF tag \in DOMAIN f.arms THEN f.arms[tag] ELSE f.other

\* pki_types::DnsName: letters and single dots between them.
DnsName(b) ==
    /\ b # <<>> /\ Head(b) # 46
    /\ \A i \in 1..Len(b) : b[i] \in 97..122 \/ (b[i] = 46 /\ (i = 1 \/ b[i - 1] # 46))

-----------------------------------------------------------------------------
(* Writing and reading a format *)

RECURSIVE Encode(_, _)

Prefixed(b, w) == BigEndian(Len(b), w) \o b

EncodeItems(f, items) ==
    FlattenSeq([i \in 1..Len(items) |-> Encode(f, items[i])])

EncodeSwitch(f, v) ==
    LET tag == v.items[1].bytes
        body == Encode(Arm(f, tag), v.items[2])
    IN  tag \o IF f.w = 0 THEN body ELSE Prefixed(body, f.w)

Encode(f, v) ==
    CASE f.k \in {"fixed", "rest"} -> v.bytes
      [] f.k = "payload"           -> Prefixed(v.bytes, f.w)
      [] f.k = "dns"               -> Prefixed(v.bytes, 2)
      [] f.k = "vec"               -> Prefixed(EncodeItems(f.item, v.items), f.w)
      [] f.k = "struct"            ->
            FlattenSeq([i \in 1..Len(f.fields) |-> Encode(f.fields[i], v.items[i])])
      [] f.k = "exactly"           -> f.bytes
      [] f.k = "nonempty"          -> Encode(f.of, v)
      [] f.k = "optional"          -> IF v.items = <<>> THEN <<>> ELSE Encode(f.of, v)
      [] f.k = "illegal"           -> <<>>
      [] f.k = "switch"            -> EncodeSwitch(f, v)

RECURSIVE Read(_, _)
RECURSIVE ReadItems(_, _)
RECURSIVE ReadFields(_, _)

\* `while sub.any_left() { ret.push(T::read(&mut sub)?) }`
ReadItems(f, b) ==
    IF b = <<>> THEN Some(Node(<<>>), <<>>)
    ELSE LET first == Read(f, b)
             others == ReadItems(f, first.rest)
         IN  IF ~first.ok \/ ~others.ok THEN NoneRead
             ELSE Some(Node(<<first.val>> \o others.val.items), <<>>)

ReadFields(fields, b) ==
    IF fields = <<>> THEN Some(Node(<<>>), b)
    ELSE LET first == Read(Head(fields), b)
             others == ReadFields(Tail(fields), first.rest)
         IN  IF ~first.ok \/ ~others.ok THEN NoneRead
             ELSE Some(Node(<<first.val>> \o others.val.items), others.rest)

ReadVec(f, b) ==
    LET sub == Sub(b, f.w, f.max)
        items == ReadItems(f.item, sub.val.bytes)
    IN  IF sub.ok /\ items.ok THEN Some(items.val, sub.rest) ELSE NoneRead

\* Behind a length of its own, a selected value must leave nothing over.
ReadSwitchKeepingRest(f, b) ==
    LET tag == Take(b, f.n)
        sub == IF f.w = 0 THEN Some(Leaf(tag.rest), <<>>) ELSE Sub(tag.rest, f.w, NoLimit)
        body == Read(Arm(f, tag.val.bytes), sub.val.bytes)
    IN  IF ~tag.ok \/ ~sub.ok \/ ~body.ok THEN NoneRead
        ELSE Some(Node(<<tag.val, body.val>>), body.rest \o sub.rest)

ReadSwitch(f, b) ==
    LET tag == Take(b, f.n)
        sub == IF f.w = 0 THEN Some(Leaf(tag.rest), <<>>) ELSE Sub(tag.rest, f.w, NoLimit)
        body == Read(Arm(f, tag.val.bytes), sub.val.bytes)
    IN  IF ~tag.ok \/ ~sub.ok \/ ~body.ok THEN NoneRead
        ELSE IF f.w # 0 /\ body.rest # <<>> THEN NoneRead
        ELSE Some(Node(<<tag.val, body.val>>), body.rest \o sub.rest)

Read(f, b) ==
    CASE f.k = "fixed"    -> Take(b, f.n)
      [] f.k = "rest"     -> Some(Leaf(b), <<>>)
      [] f.k = "payload"  -> Sub(b, f.w, f.max)
      [] f.k = "dns"      ->
            LET raw == Sub(b, 2, NoLimit)
            IN  IF raw.ok /\ DnsName(raw.val.bytes) THEN raw ELSE NoneRead
      [] f.k = "vec"      -> ReadVec(f, b)
      [] f.k = "struct"   -> ReadFields(f.fields, b)
      [] f.k = "exactly"  ->
            LET r == Take(b, Len(f.bytes))
            IN  IF r.ok /\ r.val.bytes = f.bytes THEN r ELSE NoneRead
      [] f.k = "nonempty" ->
            LET r == Read(f.of, b)
            IN  IF r.ok /\ r.val.items # <<>> THEN r ELSE NoneRead
      [] f.k = "optional" -> IF b = <<>> THEN Some(Node(<<>>), <<>>) ELSE Read(f.of, b)
      [] f.k = "illegal"  -> NoneRead
      [] f.k = "switch"   -> ReadSwitch(f, b)

-----------------------------------------------------------------------------
(* enums.rs.  An enum is its number: a value without a name is kept as      *)
(* Unknown(x), so reading and writing never change it.                      *)

Tag16(n) == BigEndian(n, 2)

HandshakeType ==
    [HelloRequest |-> 0, ClientHello |-> 1, ServerHello |-> 2, NewSessionTicket |-> 4,
     EndOfEarlyData |-> 5, HelloRetryRequest |-> 6, EncryptedExtensions |-> 8,
     Certificate |-> 11, ServerKeyExchange |-> 12, CertificateRequest |-> 13,
     ServerHelloDone |-> 14, CertificateVerify |-> 15, ClientKeyExchange |-> 16,
     Finished |-> 20, CertificateStatus |-> 22, KeyUpdate |-> 24, MessageHash |-> 254]

ExtensionType ==
    [ServerName |-> 0, StatusRequest |-> 5, EllipticCurves |-> 10, ECPointFormats |-> 11,
     SignatureAlgorithms |-> 13, ALProtocolNegotiation |-> 16, SCT |-> 18,
     ExtendedMasterSecret |-> 23, SessionTicket |-> 35, PreSharedKey |-> 41,
     EarlyData |-> 42, SupportedVersions |-> 43, Cookie |-> 44,
     PSKKeyExchangeModes |-> 45, CertificateAuthorities |-> 47, KeyShare |-> 51,
     TransportParameters |-> 57, RenegotiationInfo |-> 65281,
     TransportParametersDraft |-> 65445]

ProtocolVersion == U16
CipherSuite == U16
Compression == U8
NamedGroup == U16
ECPointFormat == U8
SignatureScheme == U16
ClientCertificateType == U8
PSKKeyExchangeMode == U8
KeyUpdateRequest == U8
AlertLevel == U8
AlertDescription == U8
CertificateStatusTypeOCSP == <<1>>
CompressionNull == <<0>>
ECCurveTypeNamedCurve == <<3>>
ServerNameTypeHostName == <<0>>

-----------------------------------------------------------------------------
(* handshake.rs: the parts of the messages *)

Random == Fixed(RandomLen)
\* Any fixed value will do: it only has to be recognised.
HELLO_RETRY_REQUEST_RANDOM == [i \in 1..RandomLen |-> 207]
SessionID == PayloadOf(1, MaxSessionId)

\* A server name of an unknown type takes everything that is left of the list.
ServerName == Switch(1, 0, ServerNameTypeHostName :> DnsPayload, Payload)
ServerNameRequest == VecU16(ServerName)

VecU16OfPayloadU8 == VecU16(PayloadU8)
VecU16OfPayloadU16 == VecU16(PayloadU16)
ECPointFormatList == VecU8(ECPointFormat)
NamedGroups == VecU16(NamedGroup)
SupportedSignatureSchemes == VecU16(SignatureScheme)
ProtocolNameList == VecU16OfPayloadU8
SCTList == VecU16OfPayloadU16
KeyShareEntry == Struct(<<NamedGroup, PayloadU16>>)
PresharedKeyIdentity == Struct(<<PayloadU16, U32>>)
PresharedKeyBinders == VecU16OfPayloadU8
PresharedKeyOffer == Struct(<<VecU16(PresharedKeyIdentity), PresharedKeyBinders>>)

\* The type is written by the OCSP request and read by its parent.
CertificateStatusRequest ==
    Switch(1, 0,
           CertificateStatusTypeOCSP :> Struct(<<VecU16OfPayloadU16, PayloadU16>>),
           Payload)

CertificateStatus == Struct(<<Exactly(CertificateStatusTypeOCSP), PayloadU24>>)

\* The parameters of ECDHE; only named curves.
ServerECDHParams == Struct(<<Exactly(ECCurveTypeNamedCurve), NamedGroup, PayloadU8>>)
DigitallySignedStruct == Struct(<<SignatureScheme, PayloadU16>>)
ECDHEServerKeyExchange == Struct(<<ServerECDHParams, DigitallySignedStruct>>)

-----------------------------------------------------------------------------
(* The extensions of each message: a type, a length and a body that is used *)
(* up.  Types without an arm are kept as Unknown(payload).                  *)

Extension(arms) == Switch(2, 2, arms, Payload)

\* The body of an acknowledgement is empty.
Empty == Struct(<<>>)

\* SessionTicket is a request when its body is empty and an offer otherwise.
\* ExtendedMasterSecret, SCT and EarlyData fall to Unknown(payload) unless
\* their body is empty.  All four keep whatever body they have.
ClientExtension ==
    Extension(
        Tag16(ExtensionType.ECPointFormats) :> ECPointFormatList
     @@ Tag16(ExtensionType.EllipticCurves) :> NamedGroups
     @@ Tag16(ExtensionType.SignatureAlgorithms) :> SupportedSignatureSchemes
     @@ Tag16(ExtensionType.ServerName) :> ServerNameRequest
     @@ Tag16(ExtensionType.ALProtocolNegotiation) :> ProtocolNameList
     @@ Tag16(ExtensionType.SupportedVersions) :> VecU8(ProtocolVersion)
     @@ Tag16(ExtensionType.KeyShare) :> VecU16(KeyShareEntry)
     @@ Tag16(ExtensionType.PSKKeyExchangeModes) :> VecU8(PSKKeyExchangeMode)
     @@ Tag16(ExtensionType.PreSharedKey) :> PresharedKeyOffer
     @@ Tag16(ExtensionType.Cookie) :> PayloadU16
     @@ Tag16(ExtensionType.StatusRequest) :> CertificateStatusRequest)

ServerExtension ==
    Extension(
        Tag16(ExtensionType.ECPointFormats) :> ECPointFormatList
     @@ Tag16(ExtensionType.ServerName) :> Empty
     @@ Tag16(ExtensionType.SessionTicket) :> Empty
     @@ Tag16(ExtensionType.StatusRequest) :> Empty
     @@ Tag16(ExtensionType.ExtendedMasterSecret) :> Empty
     @@ Tag16(ExtensionType.EarlyData) :> Empty
     @@ Tag16(ExtensionType.RenegotiationInfo) :> PayloadU8
     @@ Tag16(ExtensionType.ALProtocolNegotiation) :> ProtocolNameList
     @@ Tag16(ExtensionType.KeyShare) :> KeyShareEntry
     @@ Tag16(ExtensionType.PreSharedKey) :> U16
     @@ Tag16(ExtensionType.SCT) :> SCTList
     @@ Tag16(ExtensionType.SupportedVersions) :> ProtocolVersion)

HelloRetryExtension ==
    Extension(
        Tag16(ExtensionType.KeyShare) :> NamedGroup
     @@ Tag16(ExtensionType.Cookie) :> PayloadU16
     @@ Tag16(ExtensionType.SupportedVersions) :> ProtocolVersion)

CertificateExtension ==
    Extension(
        Tag16(ExtensionType.StatusRequest) :> CertificateStatus
     @@ Tag16(ExtensionType.SCT) :> SCTList)

CertReqExtension ==
    Extension(
        Tag16(ExtensionType.SignatureAlgorithms) :> NonEmpty(SupportedSignatureSchemes)
     @@ Tag16(ExtensionType.CertificateAuthorities) :> VecU16OfPayloadU16)

NewSessionTicketExtension == Extension(Tag16(ExtensionType.EarlyData) :> U32)

-----------------------------------------------------------------------------
(* The messages *)

\* Without extensions the list is left out, and a hello without any is
\* refused.
ClientHelloPayload ==
    Struct(<<ProtocolVersion, Random, SessionID, VecU16(CipherSuite), VecU8(Compression),
             NonEmpty(Optional(VecU16(ClientExtension)))>>)

\* The two messages that follow a version and a random.
ServerHelloPayload ==
    Struct(<<SessionID, CipherSuite, Compression, VecU16(ServerExtension)>>)
HelloRetryRequest ==
    Struct(<<SessionID, CipherSuite, Exactly(CompressionNull), VecU16(HelloRetryExtension)>>)
AnyServerHello ==
    Struct(<<ProtocolVersion,
             Switch(RandomLen, 0, HELLO_RETRY_REQUEST_RANDOM :> HelloRetryRequest,
                    ServerHelloPayload)>>)

CertificatePayload == VecU24Limited(PayloadU24)
CertificateEntry == Struct(<<PayloadU24, VecU16(CertificateExtension)>>)
CertificatePayloadTLS13 == Struct(<<PayloadU8, VecU24Limited(CertificateEntry)>>)
CertificateRequestPayload ==
    Struct(<<VecU8(ClientCertificateType), NonEmpty(SupportedSignatureSchemes),
             VecU16OfPayloadU16>>)
CertificateRequestPayloadTLS13 == Struct(<<PayloadU8, VecU16(CertReqExtension)>>)
NewSessionTicketPayload == Struct(<<U32, PayloadU16>>)
NewSessionTicketPayloadTLS13 ==
    Struct(<<U32, U32, PayloadU8, PayloadU16, VecU16(NewSessionTicketExtension)>>)
EncryptedExtensions == VecU16(ServerExtension)

\* HandshakeMessagePayload::read_version: a type, a length and a payload that
\* is used up.  The payload of three types depends on the version.  Opaque
\* and unknown types have no arm.
HandshakeMessagePayload(tls13) ==
    Switch(1, 3,
        <<HandshakeType.ClientHello>> :> ClientHelloPayload
     @@ <<HandshakeType.ServerHello>> :> AnyServerHello
     @@ <<HandshakeType.Certificate>> :>
            (IF tls13 THEN CertificatePayloadTLS13 ELSE CertificatePayload)
     @@ <<HandshakeType.CertificateRequest>> :>
            (IF tls13 THEN CertificateRequestPayloadTLS13 ELSE CertificateRequestPayload)
     @@ <<HandshakeType.NewSessionTicket>> :>
            (IF tls13 THEN NewSessionTicketPayloadTLS13 ELSE NewSessionTicketPayload)
     @@ <<HandshakeType.ServerHelloDone>> :> Empty
     @@ <<HandshakeType.EndOfEarlyData>> :> Empty
     @@ <<HandshakeType.CertificateVerify>> :> DigitallySignedStruct
     @@ <<HandshakeType.EncryptedExtensions>> :> EncryptedExtensions
     @@ <<HandshakeType.KeyUpdate>> :> KeyUpdateRequest
     @@ <<HandshakeType.CertificateStatus>> :> CertificateStatus
     @@ <<HandshakeType.MessageHash>> :> Illegal
     @@ <<HandshakeType.HelloRetryRequest>> :> Illegal,
        Payload)

AlertMessagePayload == Struct(<<AlertLevel, AlertDescription>>)
ChangeCipherSpecPayload == Exactly(<<1>>)

\* MessagePayload::new by content type, and what the client makes of the
\* opaque ServerKeyExchange and ClientKeyExchange once it knows the key
\* exchange algorithm.
Kinds == {"Handshake12", "Handshake13", "Alert", "ChangeCipherSpec", "ECDHE"}

Formats ==
    [kind \in Kinds |->
        CASE kind = "Handshake12"      -> HandshakeMessagePayload(FALSE)
          [] kind = "Handshake13"      -> HandshakeMessagePayload(TRUE)
          [] kind = "Alert"            -> AlertMessagePayload
          [] kind = "ChangeCipherSpec" -> ChangeCipherSpecPayload
          [] kind = "ECDHE"            -> ECDHEServerKeyExchange]

\* A payload is accepted only when nothing of it is left.
ReadAll(kind, b) ==
    LET r == Read(Formats[kind], b)
    IN  IF r.ok /\ r.rest = <<>> THEN r ELSE NoneRead

-----------------------------------------------------------------------------
(* What the client asks of a message it has read *)

TypeOf(ext) == ext.items[1].bytes
BodyOf(ext) == ext.items[2]

\* has_duplicate_extension, of every list of extensions, of the key shares and
\* of the server names.
HasDuplicateAdjacent(exts) ==
    \E i \in 1..Len(exts) - 1 : TypeOf(exts[i]) = TypeOf(exts[i + 1])

HasDuplicateExtension(exts) ==
    \E i, j \in 1..Len(exts) : i < j /\ TypeOf(exts[i]) = TypeOf(exts[j])

\* find_extension: the first of the type, if there is one; the getters take
\* its body.
FindExtension(exts, typ) ==
    LET found == SelectSeq(exts, LAMBDA e : TypeOf(e) = typ)
    IN  IF found = <<>> THEN <<>> ELSE <<BodyOf(Head(found))>>

IsType(kind, m, typ) ==
    kind \in {"Handshake12", "Handshake13"} /\ TypeOf(m) = <<typ>>

\* The type a ServerHello is given once its random is known.
IsHelloRetry(kind, m) ==
    /\ IsType(kind, m, HandshakeType.ServerHello)
    /\ TypeOf(BodyOf(m).items[2]) = HELLO_RETRY_REQUEST_RANDOM

\* The entries of a TLS 1.3 certificate message, and `convert`.
Entries(m) == BodyOf(m).items[2].items
Convert(m) == Node([i \in 1..Len(Entries(m)) |-> Entries(m)[i].items[1]])

\* The lists of extensions the client looks for duplicates in.
ExtensionLists(kind, m) ==
    CASE IsType(kind, m, HandshakeType.ServerHello) ->
            <<BodyOf(BodyOf(m).items[2]).items[4].items>>
      [] IsType(kind, m, HandshakeType.EncryptedExtensions) -> <<BodyOf(m).items>>
      [] kind = "Handshake13" /\ IsType(kind, m, HandshakeType.Certificate) ->
            [i \in 1..Len(Entries(m)) |-> Entries(m)[i].items[2].items]
      [] kind = "Handshake13" /\ IsType(kind, m, HandshakeType.NewSessionTicket) ->
            <<BodyOf(m).items[5].items>>
      [] OTHER -> <<>>

HasOnly(exts, types) == \A i \in 1..Len(exts) : TypeOf(exts[i]) \in types

\* What the client's states refuse: duplicates, and unknown extensions in a
\* retry request and in any entry of a chain.
RetryRefused(exts) ==
    HasDuplicateExtension(exts) \/ ~HasOnly(exts, DOMAIN HelloRetryExtension.arms)

EntryRefused(exts) ==
    HasDuplicateExtension(exts) \/ ~HasOnly(exts, DOMAIN CertificateExtension.arms)

TicketRefused(exts) == HasDuplicateExtension(exts)

Refused(kind, m) ==
    \E i \in DOMAIN ExtensionLists(kind, m) :
        LET exts == ExtensionLists(kind, m)[i]
        IN  CASE IsHelloRetry(kind, m) -> RetryRefused(exts)
              [] IsType(kind, m, HandshakeType.Certificate) -> EntryRefused(exts)
              [] IsType(kind, m, HandshakeType.NewSessionTicket) -> TicketRefused(exts)
              [] OTHER -> HasDuplicateExtension(exts)

-----------------------------------------------------------------------------
(* Pre-shared keys *)

LastExtension(m) == Last(BodyOf(m).items[6].items)

\* check_psk_ext_is_last
PskIsLast(kind, m) ==
    /\ IsType(kind, m, HandshakeType.ClientHello)
    /\ BodyOf(m).items[6].items # <<>>
    /\ TypeOf(LastExtension(m)) = Tag16(ExtensionType.PreSharedKey)

Binders(m) == BodyOf(LastExtension(m)).items[2]

\* set_psk_binder: the first binder of the offer that ends the hello.
SetPskBinder(m, binder) ==
    LET exts == BodyOf(m).items[6].items
    IN  [m EXCEPT !.items[2].items[6].items[Len(exts)].items[2].items[2].items[1] =
            Leaf(binder)]

\* get_encoding_for_binder_signing: the encoding without the encoded binders
\* of an offer that ends it.
EncodingForBinderSigning(kind, m) ==
    LET all == Encode(Formats[kind], m)
        binders == IF PskIsLast(kind, m) THEN Encode(PresharedKeyBinders, Binders(m)) ELSE <<>>
    IN  SubSeq(all, 1, Len(all) - Len(binders))

-----------------------------------------------------------------------------
(* Messages to encode: at least one of every format, lists of none, one and *)
(* two items, and extensions in both orders.                                *)

Ext(n, body) == Node(<<Leaf(Tag16(n)), body>>)
Msg(n, body) == Node(<<Leaf(<<n>>), body>>)
Two == Leaf(<<3, 3>>)
Four == Leaf(<<0, 0, 1, 0>>)
Some1 == Leaf(<<1>>)
None1 == Leaf(<<>>)
Rnd == Leaf([i \in 1..RandomLen |-> 1])

\* make_sni: the trailing dot of the name is cut off.
HostName(name) ==
    Node(<<Leaf(ServerNameTypeHostName),
           Leaf(IF Last(name) = 46 THEN Front(name) ELSE name)>>)
Sni(name) == Ext(ExtensionType.ServerName, Node(<<HostName(name)>>))

Psk == Ext(ExtensionType.PreSharedKey,
           Node(<<Node(<<Node(<<Some1, Four>>)>>), Node(<<Leaf(<<0>>)>>)>>))

ClientExtensions ==
    { Sni(<<97, 46>>),
      Ext(ExtensionType.ServerName, Node(<<HostName(<<97>>), Msg(2, None1)>>)),
      Ext(ExtensionType.ECPointFormats, Node(<<Leaf(<<0>>)>>)),
      Ext(ExtensionType.EllipticCurves, Node(<<Two, Two>>)),
      Ext(ExtensionType.SignatureAlgorithms, Node(<<Two>>)),
      Ext(ExtensionType.ALProtocolNegotiation, Node(<<Some1, None1>>)),
      Ext(ExtensionType.SupportedVersions, Node(<<Two>>)),
      Ext(ExtensionType.KeyShare, Node(<<Node(<<Two, Some1>>)>>)),
      Ext(ExtensionType.PSKKeyExchangeModes, Node(<<Some1>>)),
      Ext(ExtensionType.Cookie, Some1),
      Ext(ExtensionType.StatusRequest, Node(<<Some1, Node(<<Node(<<>>), None1>>)>>)),
      Ext(ExtensionType.SessionTicket, None1), Ext(ExtensionType.SessionTicket, Some1),
      Ext(ExtensionType.ExtendedMasterSecret, None1), Ext(ExtensionType.EarlyData, None1),
      Ext(ExtensionType.TransportParameters, Some1), Psk }

ClientHello(exts) ==
    Msg(HandshakeType.ClientHello,
        Node(<<Two, Rnd, None1, Node(<<Two>>), Node(<<Leaf(<<0>>)>>), Node(exts)>>))

ServerExtensions ==
    { Ext(ExtensionType.ServerName, Node(<<>>)),
      Ext(ExtensionType.ECPointFormats, Node(<<Leaf(<<0>>)>>)),
      Ext(ExtensionType.RenegotiationInfo, None1),
      Ext(ExtensionType.ALProtocolNegotiation, Node(<<Some1>>)),
      Ext(ExtensionType.KeyShare, Node(<<Two, Some1>>)),
      Ext(ExtensionType.PreSharedKey, Two),
      Ext(ExtensionType.SCT, Node(<<Some1>>)),
      Ext(ExtensionType.SupportedVersions, Two), Ext(1, Some1) }

ServerHello(exts) ==
    Msg(HandshakeType.ServerHello,
        Node(<<Two, Node(<<Rnd, Node(<<Some1, Two, Leaf(<<0>>), Node(exts)>>)>>)>>))
HelloRetry(exts) ==
    Msg(HandshakeType.ServerHello,
        Node(<<Two, Node(<<Leaf(HELLO_RETRY_REQUEST_RANDOM),
                           Node(<<None1, Two, Leaf(<<0>>), Node(exts)>>)>>)>>))

RetryExtensions ==
    {Ext(ExtensionType.KeyShare, Two), Ext(ExtensionType.Cookie, Some1), Ext(1, None1)}
CertExtensions ==
    {Ext(ExtensionType.StatusRequest, Node(<<Some1, Some1>>)),
     Ext(ExtensionType.SCT, Node(<<Some1>>)), Ext(1, None1)}

\* No extension, one, two of them, and one again after another.
Lists(exts) ==
    {<<>>} \cup {<<e>> : e \in exts} \cup {<<e, f>> : e, f \in exts}
    \cup {<<e, f, e>> : e, f \in exts}
ShortLists(exts) == {<<e>> : e \in exts} \cup {<<e, Psk>> : e \in exts}

Opaque12 ==
    {Msg(t, p) : t \in {HandshakeType.HelloRequest, HandshakeType.ServerKeyExchange,
                        HandshakeType.ClientKeyExchange, HandshakeType.Finished, 3},
                 p \in {None1, Some1}}

Samples(kind) ==
    CASE kind = "Handshake12" ->
            {ClientHello(l) : l \in ShortLists(ClientExtensions)}
            \cup {ServerHello(l) : l \in Lists(ServerExtensions)}
            \cup Opaque12
            \cup {Msg(HandshakeType.ServerHelloDone, Node(<<>>)),
                  Msg(HandshakeType.Certificate, Node(<<Some1, Leaf(<<1, 2>>)>>)),
                  Msg(HandshakeType.Certificate, Node(<<>>)),
                  Msg(HandshakeType.CertificateRequest,
                      Node(<<Node(<<Some1>>), Node(<<Two>>), Node(<<Some1>>)>>)),
                  Msg(HandshakeType.CertificateVerify, Node(<<Two, Some1>>)),
                  Msg(HandshakeType.NewSessionTicket, Node(<<Four, Some1>>)),
                  Msg(HandshakeType.CertificateStatus, Node(<<Some1, Some1>>))}
      [] kind = "Handshake13" ->
            {HelloRetry(l) : l \in Lists(RetryExtensions)}
            \cup {Msg(HandshakeType.EncryptedExtensions, Node(l)) : l \in Lists(ServerExtensions)}
            \cup {Msg(HandshakeType.Certificate,
                      Node(<<None1, Node(<<Node(<<Some1, Node(l)>>)>>)>>)) :
                     l \in Lists(CertExtensions)}
            \cup {Msg(HandshakeType.CertificateRequest, Node(<<None1, Node(l)>>)) :
                     l \in Lists({Ext(ExtensionType.SignatureAlgorithms, Node(<<Two>>)),
                                  Ext(ExtensionType.CertificateAuthorities, Node(<<Some1>>))})}
            \cup {Msg(HandshakeType.NewSessionTicket,
                      Node(<<Four, Four, Some1, Some1, Node(l)>>)) :
                     l \in Lists({Ext(ExtensionType.EarlyData, Four), Ext(1, Some1)})}
            \cup {Msg(HandshakeType.EndOfEarlyData, Node(<<>>)),
                  Msg(HandshakeType.KeyUpdate, Leaf(<<0>>))}
      [] kind = "Alert" -> {Node(<<Leaf(<<2>>), Leaf(<<40>>)>>)}
      [] kind = "ChangeCipherSpec" -> {Some1}
      [] kind = "ECDHE" ->
            {Node(<<Node(<<Leaf(ECCurveTypeNamedCurve), Two, p>>), Node(<<Two, p>>)>>) :
                p \in {None1, Some1}}

=============================================================================
