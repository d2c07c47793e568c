------------------------------ MODULE MCClient ------------------------------
(***************************************************************************)
(* What the TV and the server exchange beside the picture, for TLC: keys,  *)
(* mouse and pointer, what a pad reports, and the forms all of it has on   *)
(* the wire; with the two other parts that write and read back, the AV1    *)
(* headers and the table of latencies.  (A pad's effects, device and       *)
(* headset are in MCServices, sound is in MCMedia.)  One run checks them   *)
(* side by side: a behaviour is a behaviour of one part, and the parts     *)
(* take turns with the same variables, numbered.                           *)
(***************************************************************************)
EXTENDS Integers, Sequences

VARIABLES
    part,
    v1, v2, v3, v4, v5, v6, v7, v8, v9, v10, v11, v12, v13, v14, v15, v16,
    v17, v18, v19, v20, v21, v22

vars == <<part, v1, v2, v3, v4, v5, v6, v7, v8, v9, v10, v11, v12, v13, v14, v15,
            v16, v17, v18, v19, v20, v21, v22>>

\* The variables from the nth on, which no machine with fewer has.
Unused16 == v16 = 0 /\ v17 = 0 /\ v18 = 0 /\ v19 = 0 /\ v20 = 0 /\ v21 = 0 /\ v22 = 0
Unused14 == v14 = 0 /\ v15 = 0 /\ Unused16
Unused10 == v10 = 0 /\ v11 = 0 /\ v12 = 0 /\ v13 = 0 /\ Unused14
Unused5 == v5 = 0 /\ v6 = 0 /\ v7 = 0 /\ v8 = 0 /\ v9 = 0 /\ Unused10
Unused3 == v3 = 0 /\ v4 = 0 /\ Unused5
Rest14 == <<v14, v15, v16, v17, v18, v19, v20, v21, v22>>
Rest10 == <<v10, v11, v12, v13, v14, v15, v16, v17, v18, v19, v20, v21, v22>>
Rest5 == <<v5, v6, v7, v8, v9, Rest10>>
Rest3 == <<v3, v4, Rest5>>

\* Strings short and long, cut inside and outside a character.
Strings == {<<>>, <<65>>, <<65, 195, 128>>, <<65, 66, 195, 128>>}

-----------------------------------------------------------------------------
(* Profiles, pads in the hand and output reports.  Each profile has what   *)
(* one of the repository's has (profiles/*.json): vendor reports in and    *)
(* out with every kind of field, a descriptor without a report id, axes    *)
(* that share triggers, a layout of its own.  The pads are at rest, at the *)
(* ends of their ranges and in between.                                    *)

\* A vendor report in the manner of the DualSense's.
VendorReport == [reportId |-> 1, size |-> 40, fields |-> <<
    [type |-> "uint8-axis", byte |-> 1, semantic |-> "leftStickX"],
    [type |-> "uint8-axis", byte |-> 2, semantic |-> "rightStickY", center |-> 128],
    [type |-> "uint8-trigger", byte |-> 3, semantic |-> "leftTrigger"],
    [type |-> "uint8-rolling", byte |-> 4, semantic |-> "seq", initial |-> 200, stride |-> 30],
    [type |-> "hat-octant", byte |-> 5, bits |-> <<0, 3>>, semantic |-> "hat", neutralValue |-> 8],
    [type |-> "button-mask", byte |-> 5, bits |-> <<4, 7>>, buttons |-> <<"square", "cross", "circle", "triangle">>],
    [type |-> "button-mask", byte |-> 6, bits |-> <<2, 11>>,
        buttons |-> <<"leftbumper", "LT_DIGITAL", "_", "DPAD_UP", "guide", "touchpad", "misc1", "LEFTPAD_TOUCH">>],
    [type |-> "uint8-battery", byte |-> 8, bits |-> <<0, 3>>],
    [type |-> "bitfield", byte |-> 8, bits |-> <<4, 5>>, buttons |-> <<"batteryCharging", "micMuted">>],
    [type |-> "int16-le", byte |-> 9, semantic |-> "gyroPitch"],
    [type |-> "stick12-pair", byte |-> 11, semantic |-> "leftStick"],
    [type |-> "touchpad-finger", byte |-> 14, semantic |-> "touchpadFinger1"],
    [type |-> "int16-axis", byte |-> 18, semantic |-> "leftStickY"],
    [type |-> "uint16-trigger", byte |-> 20, semantic |-> "rightTrigger"],
    [type |-> "uint32-rolling", byte |-> 22, semantic |-> "pkt", stride |-> 1],
    [type |-> "int16-pad-or-stick", byte |-> 26, semantic |-> "leftPadX"],
    [type |-> "uint16-pressure", byte |-> 28, semantic |-> "leftPadPressure"],
    [type |-> "uint32-le", byte |-> 30, semantic |-> "sensorTimestamp"],
    [type |-> "crc32-le", scope |-> [prefix |-> <<161, 49>>, from |-> 0, to |-> 35]]>>]
VendorOutput == [reportId |-> 2, size |-> 16, fields |-> <<
    [type |-> "uint8", byte |-> 1, semantic |-> "flags", initial |-> 16],
    [type |-> "uint8", byte |-> 2, semantic |-> "rumbleLeft"],
    [type |-> "uint8-rolling", byte |-> 3, semantic |-> "tag", stride |-> 16],
    [type |-> "uint8-rolling", byte |-> 4],
    [type |-> "rgb24", bytes |-> <<5, 7>>, semantic |-> "light"],
    [type |-> "bytes-passthrough", bytes |-> <<8, 10>>, semantic |-> "effect"],
    [type |-> "uint8-trigger", byte |-> 11, semantic |-> "pull"],
    [type |-> "crc32-le", bytes |-> <<12, 15>>, scope |-> [prefix |-> <<162>>, from |-> 0, to |-> 11]]>>]
\* An Xbox pad: no report id, sticks, triggers beside padding, buttons, hat.
XboxDesc == <<<<"page", 1>>, <<"usage", 5>>, <<"collection", 1>>,
    <<"min", 0>>, <<"max", 65535>>, <<"size", 16>>, <<"count", 2>>,
    <<"usage", 48>>, <<"usage", 49>>, <<"input", FALSE>>, <<"usage", 51>>, <<"usage", 52>>, <<"input", FALSE>>,
    <<"max", 1023>>, <<"size", 10>>, <<"count", 1>>, <<"usage", 50>>, <<"input", FALSE>>,
    <<"size", 6>>, <<"max", 0>>, <<"input", TRUE>>,
    <<"size", 10>>, <<"max", 1023>>, <<"usage", 53>>, <<"input", FALSE>>, <<"size", 6>>, <<"max", 0>>, <<"input", TRUE>>,
    <<"page", 9>>, <<"umin", 1>>, <<"umax", 12>>, <<"max", 1>>, <<"size", 1>>, <<"count", 12>>, <<"input", FALSE>>,
    <<"page", 65280>>, <<"count", 2>>, <<"usage", 1>>, <<"usage", 2>>, <<"input", FALSE>>,
    <<"count", 2>>, <<"input", TRUE>>,
    <<"page", 1>>, <<"min", 1>>, <<"max", 8>>, <<"size", 4>>, <<"count", 1>>, <<"usage", 57>>, <<"input", FALSE>>,
    <<"min", 0>>, <<"max", 1>>, <<"size", 1>>, <<"usage", 133>>, <<"input", FALSE>>, <<"size", 3>>, <<"input", TRUE>>>>
\* A Sony pad: report id, a vendor report first, Z and Rz as the right stick.
SonyDesc == <<<<"page", 65280>>, <<"id", 9>>, <<"size", 8>>, <<"count", 3>>, <<"usage", 7>>, <<"input", FALSE>>,
    <<"id", 1>>, <<"page", 1>>, <<"min", 0>>, <<"max", 255>>, <<"count", 6>>,
    <<"usage", 48>>, <<"usage", 49>>, <<"usage", 50>>, <<"usage", 53>>, <<"usage", 51>>, <<"usage", 52>>, <<"input", FALSE>>,
    <<"max", 7>>, <<"size", 4>>, <<"count", 1>>, <<"usage", 57>>, <<"input", FALSE>>,
    <<"page", 9>>, <<"umin", 1>>, <<"umax", 12>>, <<"max", 1>>, <<"size", 1>>, <<"count", 12>>, <<"input", FALSE>>>>
\* An Xbox 360 pad: Z carries both triggers, Vx and Vy each of them.
Xbox360Desc == <<<<"page", 1>>, <<"min", 0>>, <<"max", 255>>, <<"size", 8>>, <<"count", 1>>,
    <<"usage", 48>>, <<"input", FALSE>>, <<"usage", 49>>, <<"input", FALSE>>, <<"usage", 50>>, <<"input", FALSE>>,
    <<"usage", 64>>, <<"input", FALSE>>, <<"usage", 65>>, <<"input", FALSE>>,
    <<"page", 9>>, <<"umin", 1>>, <<"umax", 4>>, <<"max", 1>>, <<"size", 1>>, <<"count", 4>>, <<"input", FALSE>>>>
\* A wheel: steering and pedals, laid out by its profile.
WheelDesc == <<<<"page", 1>>, <<"min", -512>>, <<"max", 511>>, <<"size", 10>>, <<"count", 1>>,
    <<"usage", 48>>, <<"input", FALSE>>, <<"size", 6>>, <<"input", TRUE>>, <<"size", 8>>, <<"min", 0>>, <<"max", 255>>,
    <<"usage", 50>>, <<"input", FALSE>>, <<"usage", 53>>, <<"input", FALSE>>, <<"output", 0>>,
    <<"page", 2>>, <<"usage", 198>>, <<"input", FALSE>>>>

Xbox == [vid |-> "microsoft", pid |-> "xbox", armed |-> FALSE, descriptor |-> XboxDesc,
           buttonMap |-> <<0, 1, 3, 2, 4, 5, 6, 7, 8, 9, -1, 12, 13>>]
Xbox360 == [vid |-> "microsoft", pid |-> "xbox 360", armed |-> FALSE, descriptor |-> Xbox360Desc]
Sony == [vid |-> "sony", pid |-> "dualsense", armed |-> FALSE, descriptor |-> SonyDesc,
           extendedReport |-> VendorReport, extendedOutputReport |-> VendorOutput,
           axisMap |-> <<<<50, "rightStickX">>, <<51, "leftTrigger">>, <<52, "rightTrigger">>, <<53, "rightStickY">>>>,
           buttonMap |-> <<1, 2, 0, 3>>, triggerButtons |-> <<6, 7>>]
Armed == [vid |-> "valve", pid |-> "deck", armed |-> TRUE, descriptor |-> <<>>, extendedReport |-> VendorReport]
Broken == [vid |-> "valve", pid |-> "deck", armed |-> TRUE, descriptor |-> <<>>,
             extendedReport |-> [reportId |-> 1, size |-> 4, fields |->
                <<[type |-> "button-mask", byte |-> 1, buttons |-> <<"nosuch">>]>>]]
Switch == [vid |-> "nintendo", pid |-> "switch pro", armed |-> FALSE, descriptor |-> <<>>]
Empty == [vid |-> "misc", pid |-> "none", armed |-> FALSE, descriptor |-> <<>>]
Wheel == [vid |-> "misc", pid |-> "wheel", armed |-> FALSE, descriptor |-> WheelDesc, triggerButtons |-> <<0, 1>>,
            layout |-> [kind |-> "wheel", wheel |-> 304, pedals |-> <<<<"clutch", 710>>, <<"throttle", 306>>, <<"brake", 309>>>>]]
Profiles == {Xbox, Xbox360, Sony, Armed, Broken, Switch, Empty, Wheel}

AtRest == [lx |-> 0, ly |-> 0, rx |-> 0, ry |-> 0, lt |-> 0, rt |-> 0, buttons |-> {},
           imu |-> <<>>, touchpad |-> <<>>, battery |-> <<>>]
Fingers(a, b) == <<<<[active |-> a, x |-> 1919, y |-> 3, id |-> 5], [active |-> b, x |-> 700, y |-> 1079, id |-> 6]>>>>
Pads == {AtRest,
    [AtRest EXCEPT !.lx = 32767, !.ly = -32768, !.lt = 255, !.buttons = {"A", "UP"}],
    [AtRest EXCEPT !.rx = -32768, !.ry = 20000, !.rt = 128, !.buttons = {"GUIDE", "X", "UP", "LEFT"}],
    [AtRest EXCEPT !.lx = 1000, !.buttons = {"UP", "DOWN", "RIGHT", "TOUCHPAD_CLICK", "LEFT_SHOULDER", "SHARE"},
        !.touchpad = Fingers(TRUE, FALSE), !.battery = <<[level |-> 200, charging |-> TRUE, full |-> FALSE, muted |-> FALSE, headphones |-> TRUE]>>],
    [AtRest EXCEPT !.imu = <<[gyroPitch |-> -300, gyroYaw |-> 0, gyroRoll |-> 0, accelX |-> 0, accelY |-> 4096,
                            accelZ |-> -32768, sensorTimestamp |-> 70000]>>,
        !.touchpad = Fingers(FALSE, TRUE), !.buttons = {"Y", "B", "LEFT"}]}
Outputs == {<<>>,
    [rumbleLeft |-> [form |-> "byte", v |-> 77], light |-> [form |-> "bytes", v |-> <<1, 2, 3>>],
     effect |-> [form |-> "bytes", v |-> <<9, 8, 7>>]],
    [flags |-> [form |-> "byte", v |-> 3], tag |-> [form |-> "byte", v |-> 9],
     light |-> [form |-> "u32", v |-> 66051], pull |-> [form |-> "float", v |-> <<1, 2>>]]}

-----------------------------------------------------------------------------
(* The machines.                                                           *)

Hand == INSTANCE InputPath WITH
    Modifier <- {"ctrl"}, Letter <- {"a"}, Extent <- 3, Ring <- 1,
    QueueDepth <- 2, MaxSessions <- 2, MaxEvents <- 2, MaxReports <- 1,
    MaxFaults <- 1, streaming <- v1, sessions <- v2, events <- v3, phys <- v4,
    nextSeq <- v5, drawn <- v6, raw <- v7, wire <- v8, injq <- v9,
    believed <- v10, held <- v11, pointer <- v12, mouseSeq <- v13,
    secure <- v14, sampled <- v15, throttle <- v16, reports <- v17,
    mailbox <- v18, chord <- v19, disturbed <- v20, refused <- v21,
    faults <- v22

Cursor == INSTANCE CursorShape WITH
    Shapes <- {"arrow", "hand"}, Mono <- "beam",
    ChunksOf <- [arrow |-> 2, hand |-> 3], Window <- 2, MaxChanges <- 4,
    MaxFailures <- 1, cursor <- v1, last <- v2, hiddenSent <- v3,
    shapeId <- v4, captured <- v5, pendingOut <- v6, inFlight <- v7, id <- v8,
    of <- v9, got <- v10, drawn <- v11, changes <- v12, failures <- v13

Pad == INSTANCE PadSession WITH
    Profiles <- Profiles, Pads <- Pads, Outputs <- Outputs, MaxFrames <- 3,
    MaxReports <- 2, session <- v1, enc <- v2, pad <- v3, report <- v4,
    gip <- v5, frames <- v6, game <- v7, heard <- v8, reports <- v9

Control == INSTANCE ControlWire WITH
    MaxString <- 3, MaxPads <- 4, ChunkMax <- 2, Numbers <- {258},
    Strings <- Strings, MaxCut <- 4, sender <- v1, message <- v2, wire <- v3,
    got <- v4

Datagram == INSTANCE DatagramWire WITH
    MaxString <- 3, MaxPads <- 2, MaxTrigger <- 2, MaxMissing <- 2,
    Numbers <- {258}, MaxCut <- 6, packet <- v1, wire <- v2, tag <- v3,
    got <- v4

Av1 == INSTANCE Av1Headers WITH
    Width <- {640, 1280, 1920, 3840, 4096, 7680},
    Height <- {64, 480, 1080, 2160, 4320}, Units <- {1, 3, 4, 6, 8, 64},
    Level <- {0, 8, 13, 16, 31}, Points <- {1, 2}, Cut <- {0, 1, 7},
    asked <- v1, answer <- v2

Table == INSTANCE LatencyTable WITH
    Stage <- {0, 1, 2}, Starting <- {0}, Slots <- 1, Intervals <- 2, Bits <- 1,
    MaxOctave <- 3, Percents <- {50}, Gaps <- {1, 7}, MaxFrame <- 2,
    MaxSamples <- 3, MaxRotations <- 2, now <- v1, stamped <- v2,
    published <- v3, slots <- v4, hist <- v5, current <- v6, taken <- v7,
    found <- v8, rotations <- v9

ASSUME Cursor!ShapeBounds
ASSUME Table!TableBounds

-----------------------------------------------------------------------------

MCInit ==
    \/ part = "input" /\ Hand!Init
    \/ part = "cursor" /\ Cursor!Init /\ Unused14
    \/ part = "pad" /\ Pad!Init /\ Unused10
    \/ part = "control" /\ Control!Init /\ Unused5
    \/ part = "datagram" /\ Datagram!Init /\ Unused5
    \/ part = "av1" /\ Av1!Init /\ Unused3
    \/ part = "table" /\ Table!Init /\ Unused10

MCNext ==
    /\ UNCHANGED part
    /\ \/ part = "input" /\ Hand!Next
       \/ part = "cursor" /\ Cursor!Next /\ UNCHANGED Rest14
       \/ part = "pad" /\ Pad!Next /\ UNCHANGED Rest10
       \/ part = "control" /\ Control!Next /\ UNCHANGED Rest5
       \/ part = "datagram" /\ Datagram!Next /\ UNCHANGED Rest5
       \/ part = "av1" /\ Av1!Next /\ UNCHANGED Rest3
       \/ part = "table" /\ Table!Next /\ UNCHANGED Rest10

MCSpec == MCInit /\ [][MCNext]_vars

-----------------------------------------------------------------------------
(* Properties.  Each is said of one part, and defined with its machine.    *)

\* The cursor the TV draws is never behind one the server has told it of, a
\* chord reaches the desktop whole or not at all, and with no more to come the
\* shape drawn is the last one captured (android/cursor_predict.rs,
\* input/inject.rs, server/cursor.rs, endpoint.rs).
PointerAndKeysFollow ==
    /\ part = "input" => Hand!OverlayIsAhead /\ Hand!ChordLandsWhole
    /\ part = "cursor" => Cursor!DrawnIsCaptured

\* What the game sees of a pad, in the generic report and in the vendor's, is
\* what the hand holds, and what it writes reads back as it wrote it
\* (input/pad/codec.rs, report.rs, session.rs).
SeenAsHeld == part = "pad" => Pad!SeenAsHeld /\ Pad!OutputsReadBack

\* A message cut nowhere is read as it was written, and one cut short is refused
\* (core/proto/control.rs, core/proto/input.rs and the other datagrams).  So it is
\* with an AV1 sequence header, whatever optional parts it has, and the grid asked
\* for is one the format allows (encode/encoder.rs, av1.rs); and the table of
\* latencies reports what was recorded of the window, no less and no longer
\* (core/instr/hist.rs).
ReadAsWritten ==
    /\ part = "control" => Control!ReadAsWritten
    /\ part = "datagram" => Datagram!ReadAsSent
    /\ part = "av1" => Av1!GridIsLegal /\ Av1!ParsedAsWritten
    /\ part = "table" => Table!TableTellsTheTruth

\* Said of the pads, and not so: every control is in the field its profile gives it.
ControlsLandInTheirSlots == part = "pad" => Pad!ControlsLandInTheirSlots

=============================================================================
