---------------------------- MODULE DatagramWire ----------------------------
(***************************************************************************)
(* The datagrams of sunburst-core/src/proto on the wire: the header        *)
(* (header.rs), the bodies of input.rs, nack.rs, feedback.rs, rumble.rs    *)
(* and padoutput.rs, each with its encode and its decode, and the tag of   *)
(* auth.rs over all of them.  What a decoder refuses it answers None to,   *)
(* whatever the reason.                                                    *)
(*                                                                         *)
(* A datagram reaches the decoder whole, cut short, or under the key of    *)
(* another session.  The tag is MAC_LEN bytes only its key and its bytes   *)
(* make.                                                                   *)
(***************************************************************************)
EXTENDS Wire, TLC

CONSTANTS
    MaxTrigger,   \* MAX_TRIGGER_EFFECT: bytes of an effect (11 in the code)
    MaxMissing,   \* NACK_MAX_MISSING: indices of a NACK (591 in the code)
    Numbers,      \* bound: what the fields hold
    MaxCut        \* bound: bytes missing at the end

VARIABLES
    packet,  \* [type, m]: the packet sent, and its fields
    wire,    \* its bytes: header and body
    tag,     \* the tag after them: the key, and the bytes it was made over
    got      \* what the receiver made of it, once it looked

vars == <<packet, wire, tag, got>>

-----------------------------------------------------------------------------
(* header.rs.                                                              *)

PacketType == <<"Video", "Audio", "Input", "Control", "Nack", "Feedback", "Rumble",
                "PadOutput", "AudioIn">>
Flags == <<"keyframe", "last_packet", "unit_boundary", "intra_refresh">>
HEADER_LEN == 12

PutHeader == <<U(1, "type"), Bits("flags", Flags), U(2, "frame_id"), U(4, "qpc_timestamp"),
               U(2, "pkt_idx"), U(2, "pkt_count")>>
GetHeader == <<Enum("type", 0 .. 8), Bits("flags", Flags), U(2, "frame_id"), U(4, "qpc_timestamp"),
               U(2, "pkt_idx"), U(2, "pkt_count")>>

-----------------------------------------------------------------------------
(* input.rs: the sequence number, the kind and its body.                   *)

Presence == <<"imu", "touchpad", "battery">>
BatteryFlags == <<"charging", "full", "mic_muted", "headphones">>

PutImu == <<I(2, "pitch"), I(2, "yaw"), I(2, "roll"), I(2, "ax"), I(2, "ay"), I(2, "az"), U(4, "sensor")>>
PutTouchpad == <<Finger("finger0"), Finger("finger1")>>
PutBattery == <<U(1, "level"), Bits("battery", BatteryFlags)>>
PutGamepad == <<U(1, "pad_index"), Bits("present", Presence), U(4, "buttons"), I(2, "lx"), I(2, "ly"),
    I(2, "rx"), I(2, "ry"), U(1, "lt"), U(1, "rt"),
    If("present", "imu", PutImu), If("present", "touchpad", PutTouchpad),
    If("present", "battery", PutBattery)>>
PutKey == <<U(2, "vk"), U(1, "modifiers")>>
PutMove == <<U(1, "mode"), IfIs("mode", 0, <<I(2, "dx"), I(2, "dy")>>), IfIs("mode", 1, <<U(2, "x"), U(2, "y")>>)>>
PutButton == <<U(1, "button"), Bool("down")>>
PutWheel == <<I(2, "delta"), Bool("horizontal")>>

PutInput(kind) == <<U(4, "input_seq"), U(1, "kind")>> \o
    <<PutGamepad, PutKey, PutKey, PutMove, PutButton, PutWheel>>[kind + 1]

GetImu == <<I(2, "pitch"), I(2, "yaw"), I(2, "roll"), I(2, "ax"), I(2, "ay"), I(2, "az"), U(4, "sensor")>>
GetTouchpad == <<Finger("finger0"), Finger("finger1")>>
GetBattery == <<U(1, "level"), Bits("battery", BatteryFlags)>>
GetGamepadTouchFirst == <<Pad("pad_index"), Bits("present", Presence), U(4, "buttons"), I(2, "lx"),
    I(2, "ly"), I(2, "rx"), I(2, "ry"), U(1, "lt"), U(1, "rt"),
    If("present", "touchpad", GetTouchpad), If("present", "imu", GetImu),
    If("present", "battery", GetBattery)>>
GetGamepad == <<Pad("pad_index"), Bits("present", Presence), U(4, "buttons"), I(2, "lx"), I(2, "ly"),
    I(2, "rx"), I(2, "ry"), U(1, "lt"), U(1, "rt"),
    If("present", "imu", GetImu), If("present", "touchpad", GetTouchpad),
    If("present", "battery", GetBattery)>>
GetKey == <<U(2, "vk"), U(1, "modifiers")>>
GetMove == <<Enum("mode", {0, 1}), IfIs("mode", 0, <<I(2, "dx"), I(2, "dy")>>),
             IfIs("mode", 1, <<U(2, "x"), U(2, "y")>>)>>
GetButton == <<Enum("button", 0 .. 4), Bool("down")>>
GetWheel == <<I(2, "delta"), Bool("horizontal")>>

GetInput(body) == <<U(4, "input_seq"), Enum("kind", 0 .. 5)>> \o
    (IF Len(body) < 5 \/ body[5] > 5 THEN <<>>
     ELSE <<GetGamepad, GetKey, GetKey, GetMove, GetButton, GetWheel>>[body[5] + 1])

-----------------------------------------------------------------------------
(* The other bodies.                                                       *)

PutNack == <<Each(2, "missing", <<U(2, "idx")>>)>>
GetNack == <<Each(2, "missing", <<U(2, "idx")>>)>>

PutFeedback == <<U(4, "recv_timestamp"), U(4, "frames_received"), U(4, "frames_dropped"),
    U(2, "jitter_buffer_ms"), U(2, "decode_p99_us"), I(4, "owd_gradient")>>
GetFeedback == <<U(4, "recv_timestamp"), U(4, "frames_received"), U(4, "frames_dropped"),
    U(2, "jitter_buffer_ms"), U(2, "decode_p99_us"), I(4, "owd_gradient")>>

PutRumble == <<U(1, "pad_index"), U(2, "motor_low"), U(2, "motor_high"), U(2, "trigger_left"),
    U(2, "trigger_right"), U(1, "seq")>>
GetRumble == <<Pad("pad_index"), U(2, "motor_low"), U(2, "motor_high"), U(2, "trigger_left"),
    U(2, "trigger_right"), U(1, "seq")>>

PutPadOutput == <<U(1, "pad_index"), U(1, "seq"), U(2, "motor_low"), U(2, "motor_high"),
    U(1, "r"), U(1, "g"), U(1, "b"), U(1, "player_led"), Bits("flags", <<"mic_muted">>),
    Data(1, "left_trigger", MaxTrigger), Data(1, "right_trigger", MaxTrigger)>>
GetPadOutput == <<Pad("pad_index"), U(1, "seq"), U(2, "motor_low"), U(2, "motor_high"),
    U(1, "r"), U(1, "g"), U(1, "b"), U(1, "player_led"), Bits("flags", <<"mic_muted">>),
    Data(1, "left_trigger", MaxTrigger), Data(1, "right_trigger", MaxTrigger)>>

PutOf(type, m) == CASE type = "Input" -> PutInput(m.kind) [] type = "Nack" -> PutNack
                    [] type = "Feedback" -> PutFeedback [] type = "Rumble" -> PutRumble
                    [] type = "PadOutput" -> PutPadOutput [] OTHER -> <<>>

\* How what is left of the datagram is read, by its type.
GetOf(type, body) == CASE type = "Input" -> GetInput(body) [] type = "Nack" -> GetNack
                       [] type = "Feedback" -> GetFeedback [] type = "Rumble" -> GetRumble
                       [] type = "PadOutput" -> GetPadOutput [] OTHER -> <<>>

-----------------------------------------------------------------------------
(* auth.rs, and the decode of a datagram.                                  *)

NoTag == [key |-> "none", over |-> <<>>]

\* sign_packet: the tag goes after the bytes it is over; media has none.
Sign(type, bytes) == IF type \in {"Video", "Audio", "AudioIn"} THEN NoTag
                     ELSE [key |-> "mine", over |-> bytes]

\* verify_packet: of all but the last MAC_LEN bytes.
Verify(bytes, t) == t.key = "mine" /\ t.over = bytes

None == [type |-> "none", head |-> <<>>, m |-> <<>>]

\* The datagram taken, its header read.
Opened(head, bytes, t) ==
    LET type == PacketType[head.m.type + 1]
        rest == SubSeq(bytes, HEADER_LEN + 1, Len(bytes))
        body == Decode(rest, GetOf(type, rest))
    IN  IF head.err # "none" THEN None
        ELSE IF type \notin {"Video", "Audio", "AudioIn"} /\ ~Verify(bytes, t) THEN None
        ELSE IF body.err # "none" THEN None
        ELSE [type |-> type, head |-> head.m, m |-> body.m]

\* What may come of the bytes: one thing.
Received(bytes, t) == {Opened(head, bytes, t) : head \in {Decode(bytes, GetHeader)}}

-----------------------------------------------------------------------------

Gamepad(pad, present, v) == [f \in {"pad_index", "present", "buttons", "lx", "ly", "rx", "ry", "lt", "rt"}
        \cup (IF "imu" \in present THEN {"pitch", "yaw", "roll", "ax", "ay", "az", "sensor"} ELSE {})
        \cup (IF "touchpad" \in present THEN {"finger0", "finger1"} ELSE {})
        \cup (IF "battery" \in present THEN {"level", "battery"} ELSE {}) |->
    CASE f = "pad_index" -> pad [] f = "present" -> present
      [] f = "finger0" -> [active |-> TRUE, id |-> 127, x |-> v, y |-> 0]
      [] f = "finger1" -> [active |-> FALSE, id |-> 1, x |-> 0, y |-> v]
      [] f = "battery" -> {"full", "headphones"}
      [] f \in {"lt", "rt", "level"} -> 255
      [] f \in {"lx", "ry", "yaw", "az"} -> -v
      [] OTHER -> v]

Events(v) ==
    {[kind |-> 0] @@ Gamepad(p, s, v) : p \in 0 .. MaxPads, s \in SUBSET {"imu", "touchpad", "battery"}}
    \cup [kind : {1, 2}, vk : {v}, modifiers : {0, 15}]
    \cup [kind : {3}, mode : {0}, dx : {v, -v}, dy : {-v}] \cup [kind : {3}, mode : {1}, x : {v}, y : {65535}]
    \cup [kind : {4}, button : 0 .. 4, down : BOOLEAN] \cup [kind : {5}, delta : {v, -v}, horizontal : BOOLEAN]

Effects == {[i \in 1 .. n |-> 200 + i] : n \in 0 .. MaxTrigger}

Bodies(type, v) ==
    CASE type = "Input" -> {[input_seq |-> v] @@ e : e \in Events(v)}
      [] type = "Nack" -> {[missing |-> [i \in 1 .. n |-> [idx |-> v + i]]] : n \in 0 .. MaxMissing}
      [] type = "Feedback" -> {[recv_timestamp |-> 16777216, frames_received |-> v, frames_dropped |-> 1,
                                jitter_buffer_ms |-> v, decode_p99_us |-> 65535, owd_gradient |-> g] : g \in {v, -v}}
      [] type = "Rumble" -> [pad_index : 0 .. MaxPads, motor_low : {v}, motor_high : {65535},
                             trigger_left : {0}, trigger_right : {v + 1}, seq : {255}]
      [] type = "PadOutput" -> [pad_index : {0, MaxPads}, seq : {255}, motor_low : {v}, motor_high : {65535},
                                r : {255}, g : {1}, b : {0}, player_led : {31}, flags : SUBSET {"mic_muted"},
                                left_trigger : Effects, right_trigger : Effects]
      [] OTHER -> {<<>>}

Init ==
    /\ packet = None /\ wire = <<>> /\ tag = NoTag /\ got = [type |-> "waiting"]

Send(i) ==
    /\ packet = None
    /\ \E v \in Numbers, flags \in {{}, {"keyframe", "unit_boundary"}} :
       \E m \in Bodies(PacketType[i], v) :
        LET head == [type |-> i - 1, flags |-> flags, frame_id |-> 65535, qpc_timestamp |-> 70000,
                     pkt_idx |-> v, pkt_count |-> v + 1]
            bytes == Encode(head, PutHeader) \o Encode(m, PutOf(PacketType[i], m))
        IN  /\ packet' = [type |-> PacketType[i], head |-> head, m |-> m]
            /\ wire' = bytes
            /\ tag' = Sign(PacketType[i], bytes)
    /\ UNCHANGED got

Arrive ==
    /\ packet # None /\ got.type = "waiting"
    /\ got' \in Received(wire, tag)
    /\ UNCHANGED <<packet, wire, tag>>

\* A body cut short, its last bytes taken for the tag if it is signed.
ArriveCut(n) ==
    /\ packet # None /\ got.type = "waiting" /\ n <= Len(wire)
    /\ wire' = SubSeq(wire, 1, Len(wire) - n)
    /\ got' \in Received(wire', tag)
    /\ UNCHANGED <<packet, tag>>

\* It is of the session before, whose key another peer has.
ArriveFromAnother ==
    /\ packet # None /\ got.type = "waiting" /\ tag # NoTag
    /\ tag' = [tag EXCEPT !.key = "another"]
    /\ got' \in Received(wire, tag')
    /\ UNCHANGED <<packet, wire>>

Next ==
    \/ \E i \in DOMAIN PacketType : Send(i)
    \/ Arrive
    \/ \E n \in 1 .. MaxCut : ArriveCut(n)
    \/ ArriveFromAnother

Spec == Init /\ [][Next]_vars

-----------------------------------------------------------------------------

\* Whatever arrives is read as the packet that was sent, with nothing of it
\* missing and every optional part where it was, or is not taken at all; and
\* what arrives whole under the right key is taken, unless it names a pad there
\* is not.
ReadAsSent ==
    /\ got.type \notin {"waiting", "none"} => got = packet
    /\ got.type = "none" /\ tag.key # "another" =>
        \/ Len(wire) < HEADER_LEN + Len(Encode(packet.m, PutOf(packet.type, packet.m)))
        \/ packet.m.pad_index >= MaxPads

=============================================================================
