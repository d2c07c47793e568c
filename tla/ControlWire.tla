---------------------------- MODULE ControlWire ----------------------------
(***************************************************************************)
(* The control messages of sunburst-core/src/proto/control.rs on the wire: *)
(* what encode writes, what decode makes of it, and the envelope that lets *)
(* two builds of different ages talk.  encode and decode are two lists of  *)
(* fields kept alike by hand; so they are here.                            *)
(*                                                                         *)
(* The sender is of this build, of an older one (no display_hdr) or of a   *)
(* later one (new kinds, and a field after the last).  A message may also  *)
(* reach the decoder cut short.  Values are small numbers, strings of few  *)
(* bytes, and optional parts there or not.                                 *)
(***************************************************************************)
EXTENDS Wire, FiniteSets

CONSTANTS
    ChunkMax,   \* ART_CHUNK_MAX and CURSOR_CHUNK_MAX (1024 in the code)
    Numbers,    \* bound: what the fields hold
    Strings,    \* bound: the strings sent
    MaxCut      \* bound: bytes missing at the end

VARIABLES
    sender,     \* "older", "this" or "later"
    message,    \* [kind, m]: the message written
    wire,       \* what encode made of it
    got         \* [kind, m] as decoded; the kind may be "unhandled" or an error

vars == <<sender, message, wire, got>>

-----------------------------------------------------------------------------
(* What encode writes.                                                     *)

Codecs == {0, 1, 2}
Formats == {0, 1, 2}
QuirkFlags == <<"ref_invalidation", "intra_refresh", "slice_output", "startcodes">>
ConfigFlags == <<"hdr", "intra_refresh", "ref_invalidation", "audio">>
BuildFlags == <<"full_range", "hdr">>

PutMastering == <<U(2, "rx"), U(2, "ry"), U(2, "gx"), U(2, "gy"), U(2, "bx"), U(2, "by"),
    U(2, "wx"), U(2, "wy"), U(4, "max"), U(4, "min"), U(2, "cll"), U(2, "fall")>>
PutArt == <<Raw(16, "digest"), U(4, "len"), Enum("format", Formats)>>
PutAudio == <<U(4, "sample_rate"), U(1, "channels"), U(2, "frame_samples")>>

PutPairRequest == <<Str("name"), Str("model"), Str("abi"), Bits("quirks", QuirkFlags),
    U(4, "max_bitrate_hint"), Raw(16, "client_nonce")>>
PutHello == <<U(4, "client_id"), Str("name"), Str("abi"), U(4, "width"), U(4, "height"),
    U(4, "refresh_mhz"), Raw(16, "client_nonce"), I(8, "clock_offset_ns"), U(1, "codecs"),
    Prefer("prefer_codec", Codecs), U(4, "max_bitrate_kbps")>>
PutHelloNow == PutHello \o <<Trailing("display_hdr")>>

ClientPut == [
    Hello |-> PutHelloNow,
    DecoderQuirks |-> <<Bits("quirks", QuirkFlags), U(4, "max_bitrate_hint")>>,
    RequestIdr |-> <<>>,
    Resize |-> <<U(4, "width"), U(4, "height"), U(4, "refresh_mhz")>>,
    PadConnected |-> <<U(1, "pad_index"), U(1, "pad_type"), U(2, "capabilities")>>,
    PadDisconnected |-> <<U(1, "pad_index")>>,
    Bye |-> <<>>,
    PairRequest |-> PutPairRequest,
    PairConfirm |-> <<U(4, "request_id"), Raw(16, "tag")>>,
    ListApps |-> <<>>,
    LaunchApp |-> <<U(4, "app_id")>>,
    ArtRequest |-> <<U(4, "app_id"), Raw(16, "digest")>>,
    KeepAlive |-> <<>> ]

PutSessionConfig == <<U(4, "session_id"), Enum("codec", Codecs), U(2, "width"), U(2, "height"),
    U(4, "fps_mhz"), U(4, "bitrate_kbps"), Bits("flags", ConfigFlags), U(1, "slices"),
    Raw(16, "server_nonce"), U(8, "qpc_freq_hz"), I(8, "server_ns"), U(4, "hello_delay_ns"),
    If("flags", "hdr", PutMastering), If("flags", "audio", PutAudio), U(2, "pointer_gain_milli")>>
PutCodecPrivate == <<Enum("codec", Codecs), Data(2, "data", 65535), U(2, "width"), U(2, "height"),
    U(2, "first_frame"), U(1, "primaries"), U(1, "transfer"), U(1, "matrix"),
    Bits("flags", BuildFlags), U(1, "bit_depth"), If("flags", "hdr", PutMastering)>>
PutCursorShape == <<U(4, "shape_id"), U(2, "width"), U(2, "height"), U(2, "hotspot_x"),
    U(2, "hotspot_y"), U(1, "format"), U(4, "total_len"), U(4, "offset"), Data(2, "data", ChunkMax)>>
PutAppList == <<U(2, "total"), U(2, "start"), Each(2, "apps",
    <<U(4, "id"), Str("name"), Bits("has", <<"art">>), If("has", "art", PutArt)>>)>>
PutArtChunk == <<U(4, "app_id"), Raw(16, "digest"), Enum("format", Formats), U(4, "total_len"),
    U(4, "offset"), Data(2, "data", ChunkMax)>>

ServerPut == [
    SessionConfig |-> PutSessionConfig,
    CodecPrivate |-> PutCodecPrivate,
    CursorShape |-> PutCursorShape,
    CursorPosition |-> <<U(2, "x"), U(2, "y"), Bool("visible"), U(4, "input_seq")>>,
    SecureDesktop |-> <<Bool("active")>>,
    Bye |-> <<>>,
    PairChallenge |-> <<U(4, "request_id"), Raw(16, "server_nonce")>>,
    AppList |-> PutAppList,
    ArtChunk |-> PutArtChunk,
    LaunchResult |-> <<U(4, "app_id"), Bool("ok"), Clip("message")>>,
    PairResult |-> <<U(4, "request_id"), Enum("status", {0, 1, 2}), U(1, "remaining"), Raw(16, "tag")>> ]

-----------------------------------------------------------------------------
(* What decode reads.                                                      *)

GetMastering == <<U(2, "rx"), U(2, "ry"), U(2, "gx"), U(2, "gy"), U(2, "bx"), U(2, "by"),
    U(2, "wx"), U(2, "wy"), U(4, "max"), U(4, "min"), U(2, "cll"), U(2, "fall")>>
GetArt == <<Raw(16, "digest"), U(4, "len"), Enum("format", Formats)>>
GetAudio == <<U(4, "sample_rate"), U(1, "channels"), U(2, "frame_samples")>>

GetPairRequest == <<Str("name"), Str("model"), Str("abi"), Bits("quirks", QuirkFlags),
    U(4, "max_bitrate_hint"), Raw(16, "client_nonce")>>
GetHelloInsisting == <<U(4, "client_id"), Str("name"), Str("abi"), U(4, "width"), U(4, "height"),
    U(4, "refresh_mhz"), Raw(16, "client_nonce"), I(8, "clock_offset_ns"), U(1, "codecs"),
    Prefer("prefer_codec", Codecs), U(4, "max_bitrate_kbps"), Bool("display_hdr")>>
GetHello == <<U(4, "client_id"), Str("name"), Str("abi"), U(4, "width"), U(4, "height"),
    U(4, "refresh_mhz"), Raw(16, "client_nonce"), I(8, "clock_offset_ns"), U(1, "codecs"),
    Prefer("prefer_codec", Codecs), U(4, "max_bitrate_kbps"), Trailing("display_hdr")>>

ClientGet == [
    Hello |-> GetHello,
    DecoderQuirks |-> <<Bits("quirks", QuirkFlags), U(4, "max_bitrate_hint")>>,
    RequestIdr |-> <<>>,
    Resize |-> <<U(4, "width"), U(4, "height"), U(4, "refresh_mhz")>>,
    PadConnected |-> <<U(1, "pad_index"), U(1, "pad_type"), U(2, "capabilities")>>,
    PadDisconnected |-> <<U(1, "pad_index")>>,
    Bye |-> <<>>,
    PairRequest |-> GetPairRequest,
    PairConfirm |-> <<U(4, "request_id"), Raw(16, "tag")>>,
    ListApps |-> <<>>,
    LaunchApp |-> <<U(4, "app_id")>>,
    ArtRequest |-> <<U(4, "app_id"), Raw(16, "digest")>>,
    KeepAlive |-> <<>> ]

GetSessionConfig == <<U(4, "session_id"), Enum("codec", Codecs), U(2, "width"), U(2, "height"),
    U(4, "fps_mhz"), U(4, "bitrate_kbps"), Bits("flags", ConfigFlags), U(1, "slices"),
    Raw(16, "server_nonce"), U(8, "qpc_freq_hz"), I(8, "server_ns"), U(4, "hello_delay_ns"),
    If("flags", "hdr", GetMastering), If("flags", "audio", GetAudio), U(2, "pointer_gain_milli")>>
GetCodecPrivate == <<Enum("codec", Codecs), Data(2, "data", 65535), U(2, "width"), U(2, "height"),
    U(2, "first_frame"), U(1, "primaries"), U(1, "transfer"), U(1, "matrix"),
    Bits("flags", BuildFlags), U(1, "bit_depth"), If("flags", "hdr", GetMastering)>>
GetCursorShape == <<U(4, "shape_id"), U(2, "width"), U(2, "height"), U(2, "hotspot_x"),
    U(2, "hotspot_y"), U(1, "format"), U(4, "total_len"), U(4, "offset"), Data(2, "data", ChunkMax)>>
GetAppList == <<U(2, "total"), U(2, "start"), Each(2, "apps",
    <<U(4, "id"), Str("name"), Bits("has", <<"art">>), If("has", "art", GetArt)>>)>>
GetArtChunk == <<U(4, "app_id"), Raw(16, "digest"), Enum("format", Formats), U(4, "total_len"),
    U(4, "offset"), Data(2, "data", ChunkMax)>>

ServerGet == [
    SessionConfig |-> GetSessionConfig,
    CodecPrivate |-> GetCodecPrivate,
    CursorShape |-> GetCursorShape,
    CursorPosition |-> <<U(2, "x"), U(2, "y"), Bool("visible"), U(4, "input_seq")>>,
    SecureDesktop |-> <<Bool("active")>>,
    Bye |-> <<>>,
    PairChallenge |-> <<U(4, "request_id"), Raw(16, "server_nonce")>>,
    AppList |-> GetAppList,
    ArtChunk |-> GetArtChunk,
    LaunchResult |-> <<U(4, "app_id"), Bool("ok"), Clip("message")>>,
    PairResult |-> <<U(4, "request_id"), Enum("status", {0, 1, 2}), U(1, "remaining"), Raw(16, "tag")>> ]

-----------------------------------------------------------------------------
(* The envelope.                                                           *)

ClientMessage == <<"Hello", "DecoderQuirks", "RequestIdr", "Resize", "PadConnected",
    "PadDisconnected", "Bye", "PairRequest", "PairConfirm", "ListApps", "LaunchApp",
    "ArtRequest", "KeepAlive">>
ServerMessage == <<"SessionConfig", "CodecPrivate", "CursorShape", "CursorPosition",
    "SecureDesktop", "Bye", "PairChallenge", "AppList", "ArtChunk", "LaunchResult", "PairResult">>

Kinds(to) == IF to = "server" THEN ClientMessage ELSE ServerMessage
PutOf(to) == IF to = "server" THEN ClientPut ELSE ServerPut
GetOf(to) == IF to = "server" THEN ClientGet ELSE ServerGet

NoLayout == <<>>
LayoutOf(to, kind) ==
    IF sender = "older" /\ kind = "Hello" THEN PutHello
    ELSE PutOf(to)[kind] \o (IF sender = "later" THEN <<U(2, "later")>> ELSE NoLayout)

Envelope(code, body) == IF IsOverlong(body) THEN Overlong ELSE <<code>> \o LE(Len(body), 2) \o body

ENVELOPE_LEN == 3

\* What comes of bytes that make no message.
Nothing(why) == [kind |-> why, m |-> <<>>]

\* decode: the kind, the payload the envelope names, and the fields; bytes after
\* the last field are left alone.
Decoded(to, bytes) ==
    LET len == UnsignedOf(SubSeq(bytes, 2, 3))
        kind == Kinds(to)[bytes[1] + 1]
        r == Decode(SubSeq(bytes, 4, 3 + len), GetOf(to)[kind])
    IN  IF Len(bytes) < ENVELOPE_LEN THEN Nothing("truncated")
        ELSE IF Len(bytes) < ENVELOPE_LEN + len THEN Nothing("length")
        ELSE IF bytes[1] >= Len(Kinds(to)) THEN Nothing("unhandled")
        ELSE IF r.err # "none" THEN Nothing(r.err)
        ELSE [kind |-> kind, m |-> r.m]

-----------------------------------------------------------------------------

\* What a field may hold.
Bytes16 == {[i \in 1 .. 16 |-> b] : b \in {0, 7}}
BytesUpTo(n) == {[i \in 1 .. k |-> i] : k \in {0, 1, n, n + 1}}

Values(d) ==
    CASE d.t = "unsigned" -> IF d.n = 1 THEN {0, 255} ELSE Numbers
      [] d.t = "signed" -> {-1} \cup Numbers
      [] d.t = "raw" -> Bytes16
      [] d.t \in {"bool", "trailing"} -> BOOLEAN
      [] d.t = "bits" -> SUBSET {d.names[i] : i \in DOMAIN d.names}
      [] d.t = "enum" -> d.known
      [] d.t = "prefer" -> d.known \cup {255}
      [] d.t \in {"string", "clip"} -> Strings
      [] d.t = "data" -> BytesUpTo(ChunkMax)
      [] d.t = "each" -> {<<>>}

\* The messages that differ in one field from a plain one, all groups in or out.
Plain(d) == CASE d.t = "raw" -> [i \in 1 .. 16 |-> 0]
              [] d.t \in {"bool", "trailing"} -> FALSE
              [] d.t \in {"string", "clip", "data", "each"} -> <<>>
              [] d.t = "bits" -> {}
              [] OTHER -> 0

Own(layout) == {layout[i] : i \in {j \in DOMAIN layout : layout[j].t # "if"}}
Groups(layout) == {layout[i] : i \in {j \in DOMAIN layout : layout[j].t = "if"}}
NamesOf(layout) == {d.f : d \in Own(layout)}
FieldOf(layout, f) == CHOOSE d \in Own(layout) : d.f = f

\* The names the layout gives a message, its groups included.
Shaped(layout, m) ==
    LET there == {g \in Groups(layout) : Present(m, g)}
        names == DOMAIN m \cup UNION {NamesOf(g.fields) : g \in there}
    IN  [f \in names |-> IF f \in DOMAIN m THEN m[f]
                         ELSE IF f \in {"max", "min"} THEN 65536 ELSE 9]

MessagesOf(layout) ==
    IF Own(layout) = {} THEN {<<>>}
    ELSE {Shaped(layout, [f \in NamesOf(layout) |->
              IF f = d.f THEN v
              ELSE IF f = e.f /\ FieldOf(layout, f).t = "bits" THEN w
              ELSE Plain(FieldOf(layout, f))]) :
            <<d, v, e, w>> \in UNION {
                {<<a, x, b, y>> : x \in Values(a), y \in IF b.t = "bits" THEN Values(b) ELSE {{}}} :
                a \in Own(layout), b \in Own(layout)}}

App(id, name, art) == IF art THEN
      [id |-> id, name |-> name, has |-> {"art"}, digest |-> [i \in 1 .. 16 |-> id],
       len |-> 65536, format |-> 1]
    ELSE [id |-> id, name |-> name, has |-> {}]
Lists == {[total |-> 3, start |-> s, apps |-> apps] :
    s \in {0, 1},
    apps \in {<<>>} \cup {<<App(1, n, a), App(258, p, b)>> :
                          n \in Strings, p \in Strings, a \in BOOLEAN, b \in BOOLEAN}}

Init ==
    /\ sender \in {"older", "this", "later"}
    /\ message = [to |-> "none"] /\ wire = <<>> /\ got = Nothing("none")

\* A message is encoded.  A later build may also send kinds this one has not.
Write(to, i) ==
    /\ message.to = "none"
    /\ LET kind == Kinds(to)[i]
           layout == LayoutOf(to, kind)
       IN  \E m \in IF kind = "AppList" /\ sender = "this" THEN Lists ELSE MessagesOf(layout) :
            /\ message' = [to |-> to, kind |-> kind, m |-> m]
            /\ wire' = Envelope(i - 1, Encode(m, layout))
    /\ UNCHANGED <<sender, got>>

WriteNewKind(to) ==
    /\ message.to = "none" /\ sender = "later"
    /\ message' = [to |-> to, kind |-> "new", m |-> <<>>]
    /\ wire' = Envelope(Len(Kinds(to)), <<1, 2, 3>>)
    /\ UNCHANGED <<sender, got>>

ReadWhole ==
    /\ message.to # "none" /\ got = Nothing("none") /\ ~IsOverlong(wire)
    /\ got' = Decoded(message.to, wire)
    /\ UNCHANGED <<sender, message, wire>>

\* The payload ends early, and the envelope with it or not.
ReadCut(n, says) ==
    /\ message.to # "none" /\ got = Nothing("none") /\ ~IsOverlong(wire)
    /\ n < Len(wire) /\ Len(wire) - n <= MaxCut /\ message.kind # "new"
    /\ says => n >= ENVELOPE_LEN
    /\ wire' = IF says THEN <<wire[1]>> \o LE(n - 3, 2) \o SubSeq(wire, 4, n) ELSE SubSeq(wire, 1, n)
    /\ got' = Decoded(message.to, wire')
    /\ UNCHANGED <<sender, message>>

Next ==
    \/ \E to \in {"server", "client"} :
        \/ \E i \in 1 .. Len(Kinds(to)) : Write(to, i)
        \/ WriteNewKind(to)
    \/ ReadWhole
    \/ \E n \in 0 .. Len(wire), says \in BOOLEAN : ReadCut(n, says)

Spec == Init /\ [][Next]_vars

-----------------------------------------------------------------------------

\* What the decoder of this build should have of the message: it has no later
\* fields, display_hdr is true of those who do not say, and the text of a
\* launch's result is as much of it as fits.
Meant ==
    LET names == IF message.kind = "Hello"
                 THEN (DOMAIN message.m \cup {"display_hdr"}) \ {"later"}
                 ELSE DOMAIN message.m \ {"later"}
    IN  [f \in names |->
            IF f \notin DOMAIN message.m THEN TRUE
            ELSE IF message.kind = "LaunchResult" /\ f = "message" THEN ClipOf(message.m[f])
            ELSE message.m[f]]

\* Each message is read as it was written, by whatever build; a new kind is
\* stepped over; and one cut short is an error and not another message, but
\* for the Hello that ends where an older build's does.
ReadAsWritten ==
    got.kind # "none" =>
        IF message.kind = "new" THEN got.kind = "unhandled"
        ELSE IF Len(wire) = 3 + Len(Encode(message.m, LayoutOf(message.to, message.kind)))
          THEN got = [kind |-> message.kind, m |-> Meant]
        ELSE \/ got.kind \in {"truncated", "length"}
             \/ sender = "later" /\ got.m = Meant
             \/ message.kind = "Hello" /\ got.kind = "Hello"
                  /\ \A f \in DOMAIN message.m \ {"display_hdr", "later"} : got.m[f] = message.m[f]

=============================================================================
