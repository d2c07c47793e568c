----------------------------- MODULE PadSession -----------------------------
(***************************************************************************)
(* One emulated pad, from the gamepad state of the wire to the bytes its   *)
(* readers get (sunburst-input/src/pad/session.rs, map.rs, gip.rs,         *)
(* switch_pro.rs, profile.rs), through the report codec (spec.rs,          *)
(* program.rs, codec.rs) and the descriptor path (hid.rs, report.rs,       *)
(* layout.rs).  A session takes one of three report paths: the vendor      *)
(* report, the HID descriptor, or the Switch Pro's own packer; an Xbox pad *)
(* also fills the buffer XInput reads.  A game's output reports come back  *)
(* through the codec's decoder.                                            *)
(*                                                                         *)
(* A profile declares a report as a list of fields; compiling resolves     *)
(* defaults and rejects malformed ones, and the codec walks the compiled   *)
(* list, each field putting its value over a few bits of the buffer.       *)
(* Without such a report, a HID report descriptor is parsed into fields,   *)
(* the fields are sorted into the slots of a gamepad, and a frame is built *)
(* by writing every control at its field's bits.                           *)
(*                                                                         *)
(* A declared field is a record with only the members its profile gives.   *)
(* A buffer is a function from byte offsets to 0 .. 255.  A fraction is a  *)
(* pair <<numerator, denominator>>; the code's f32 arithmetic is taken to  *)
(* be exact.  CRC-32 is abstracted to Digest, a sum over what it covers.   *)
(*                                                                         *)
(* A descriptor is a sequence of items <<kind, value>>; the packing of an  *)
(* item into bytes, its sign extension and the skipping of long items are  *)
(* left out.  An axis is a handle page * 256 + usage, and axes is a        *)
(* function from handles to fractions.                                     *)
(***************************************************************************)
EXTENDS Integers, Sequences, FiniteSets, SequencesExt, TLC

CONSTANTS
    Profiles,   \* profiles a pad may be created from
    Pads,       \* gamepad states of the wire
    Outputs,    \* values a game writes into an output report
    MaxFrames,  \* frames submitted
    MaxReports  \* output reports written

VARIABLES
    session,  \* the session: its kind, profile and compiled report
    enc,      \* its rolling counters
    pad,      \* the wire state last submitted, <<>> before
    report,   \* the report buffer
    gip,      \* the XInput buffer, <<>> when the pad has none
    frames,   \* how many frames were submitted
    game,     \* the game: its counters, what it wrote, and the byte lost on the way
    heard,    \* what the session decoded
    reports   \* how many output reports were written

vars == <<session, enc, pad, report, gip, frames, game, heard, reports>>

-----------------------------------------------------------------------------
(* Numbers.                                                                *)

Away(num, den) == IF 2 * (num % den) >= den THEN num \div den + 1 ELSE num \div den
RoundHalfEven(num, den) ==
    LET low == num \div den
        twice == 2 * (num % den)
    IN  IF twice < den \/ (twice = den /\ low % 2 = 0) THEN low ELSE low + 1

Within(v, lo, hi) == IF v < lo THEN lo ELSE IF v > hi THEN hi ELSE v

\* A fraction clamped to [0, 1].
Clamp01(q) == <<Within(q[1], 0, q[2]), q[2]>>

\* scale_unit
Scaled(q, scale) == RoundHalfEven(Clamp01(q)[1] * scale, q[2])

\* The centred full-scale form: (q - 1/2) * 2 * 32767, flipped for a Y axis.
Centred(q, flip) ==
    LET c == 2 * Clamp01(q)[1] - q[2]
    IN  RoundHalfEven((IF flip THEN -c ELSE c) * 32767, q[2])

-----------------------------------------------------------------------------
(* Compiling.                                                              *)

Given(s, member, default) == IF member \in DOMAIN s THEN s[member] ELSE default

Plain == {"a", "b", "x", "y", "leftbumper", "rightbumper", "back", "start", "leftstick",
          "rightstick", "guide", "touchpad", "share", "rightpaddle", "leftpaddle", "misc1",
          "rightpaddle2", "leftpaddle2"}
Special == {"LT_DIGITAL", "RT_DIGITAL", "DPAD_UP", "DPAD_DOWN", "DPAD_LEFT", "DPAD_RIGHT",
            "LEFTPAD_TOUCH", "RIGHTPAD_TOUCH"}
Alias == [cross |-> "a", circle |-> "b", square |-> "x", triangle |-> "y"]

\* button::resolve: "_" is a position with no button, anything else unknown
\* refuses the profile.
Resolve(name) == Given(Alias, name, name)
IsButton(name) == name = "_" \/ Resolve(name) \in Plain \cup Special

IsMalformed(s) ==
    \/ Given(s, "byte", 0) < 0
    \/ s.type = "button-mask" /\ \E i \in DOMAIN Given(s, "buttons", <<>>) : ~IsButton(s.buttons[i])

Compiled(s) ==
    LET byte == Given(s, "byte", -1)
        bytes == Given(s, "bytes", <<-1, -1>>)
        bits == Given(s, "bits", <<0, 7>>)
        sem == Given(s, "semantic", "")
    IN  [op |-> s.type, sem |-> sem, byte |-> byte,
         source |-> IF s.type = "touchpad-finger" /\ sem # "touchpadFinger1"
                    THEN "touchpadFinger0" ELSE sem,
         rlo |-> bytes[1], rhi |-> bytes[2], lo |-> bits[1], hi |-> bits[2],
         hasBits |-> "bits" \in DOMAIN s,
         center |-> Given(s, "center", 128), neutral |-> Given(s, "neutralValue", 8),
         initial |-> Given(s, "initial", 0) % 256, stride |-> Given(s, "stride", 1),
         key |-> IF sem # "" THEN <<"by name", sem>>
                 ELSE <<"by byte", IF byte >= 0 THEN byte ELSE 0>>,
         names |-> IF "buttons" \in DOMAIN s
                   THEN [i \in DOMAIN s.buttons |-> Resolve(s.buttons[i])] ELSE <<>>,
         listed |-> "buttons" \in DOMAIN s,
         dst |-> IF "bytes" \in DOMAIN s THEN bytes[1] ELSE byte,
         scoped |-> "scope" \in DOMAIN s,
         scope |-> Given(s, "scope", [prefix |-> <<>>, from |-> 0, to |-> 0])]

Compiles(spec) == \A i \in DOMAIN spec.fields : ~IsMalformed(spec.fields[i])
Program(spec) ==
    [id |-> spec.reportId, size |-> spec.size,
     fields |-> [i \in DOMAIN spec.fields |-> Compiled(spec.fields[i])]]

-----------------------------------------------------------------------------
(* Pieces: what one field puts in the buffer.                              *)

Piece(byte, lo, hi, v) == [byte |-> byte, lo |-> lo, hi |-> hi, v |-> v]
Bits(byte, lo, hi, v) == <<Piece(byte, lo, hi, v)>>
Whole(byte, v) == Bits(byte, 0, 7, v)
Word(byte, n, v) == [i \in 1 .. n |-> Piece(byte + i - 1, 0, 7, (v \div 256 ^ (i - 1)) % 256)]

Read(buf, byte, lo, hi) == (buf[byte] \div 2 ^ lo) % 2 ^ (hi - lo + 1)

WipesByte(buf, p) == [buf EXCEPT ![p.byte] = (p.v * 2 ^ p.lo) % 256]
Put(buf, p) ==
    LET width == 2 ^ (p.hi - p.lo + 1)
        was == (buf[p.byte] \div 2 ^ p.lo) % width
    IN  [buf EXCEPT ![p.byte] = @ + ((p.v % width) - was) * 2 ^ p.lo]

Length(buf) == Cardinality(DOMAIN buf)
Room(f, n, buf) == f.byte >= 0 /\ f.byte + n - 1 < Length(buf)

\* One bit per position of a list, from the low bit up; what is past the high
\* bit is not looked at.
Mask(f, set) ==
    LET bit(i) == IF f.lo + i - 1 <= f.hi /\ f.names[i] \in set THEN 2 ^ (i - 1) ELSE 0
    IN  FoldLeft(+, 0, [i \in DOMAIN f.names |-> bit(i)])

\* A mask wider than a byte spills into the next ones, a byte at a time.
Spread(f, packed, buf) ==
    LET piece(k) == LET lo == IF f.lo > 8 * k THEN f.lo ELSE 8 * k
                        hi == IF f.hi < 8 * k + 7 THEN f.hi ELSE 8 * k + 7
                    IN  Piece(f.byte + k, lo - 8 * k, hi - 8 * k,
                              (packed * 2 ^ f.lo) \div 2 ^ lo)
        used == {k \in 0 .. f.hi \div 8 : f.lo <= 8 * k + 7 /\ f.byte + k < Length(buf)}
    IN  SetToSeq({piece(k) : k \in used})

\* CRC-32 over a prefix and a range of the buffer itself.
Digest(scope, buf) ==
    LET to == Within(scope.to, 0, Length(buf) - 1)
        covered == scope.prefix \o [i \in 1 .. Within(to - scope.from + 1, 0, 256) |->
                                        buf[scope.from + i - 1]]
    IN  FoldLeft(LAMBDA sum, b : (sum * 31 + b + 1) % 2 ^ 24, 17, covered)

Crc(f, buf) ==
    LET dst == IF f.dst >= 0 THEN f.dst ELSE Length(buf) - 4
    IN  IF f.scoped /\ dst >= 0 /\ dst + 3 < Length(buf)
        THEN Word(dst, 4, Digest(f.scope, buf)) ELSE <<>>

-----------------------------------------------------------------------------
(* Input: a state st to a buffer.                                          *)

Sticks == {"leftStickX", "leftStickY", "rightStickX", "rightStickY"}
Triggers == {"leftTrigger", "rightTrigger"}
Motion == {"gyroPitch", "gyroYaw", "gyroRoll", "accelX", "accelY", "accelZ"}

Stick(f, st) == IF f.source \in Sticks THEN st[f.source] ELSE <<1, 2>>
Trigger(f, st) == IF f.source \in Triggers THEN st[f.source] ELSE <<0, 1>>

AxisByte(f, st) ==
    LET q == Clamp01(Stick(f, st))
    IN  IF f.center = 128 THEN Scaled(q, 255)
        ELSE Within(f.center + RoundHalfEven((2 * q[1] - q[2]) * 127, q[2]), 0, 255)

Stick12(f, st) ==
    LET x == Scaled(IF f.source = "rightStick" THEN st.rightStickX ELSE st.leftStickX, 4095)
        y == Scaled(IF f.source = "rightStick" THEN st.rightStickY ELSE st.leftStickY, 4095)
    IN  Word(f.byte, 3, x + 4096 * y)

Finger(f, st) ==
    LET t == IF f.source = "touchpadFinger1" THEN st.finger1 ELSE st.finger0
    IN  Whole(f.byte, (t.id % 128) + (IF t.active THEN 0 ELSE 128))
            \o Word(f.byte + 1, 3, (t.x % 4096) + 4096 * (t.y % 4096))

\* A Valve trackpad coordinate, which falls back to the stick when it may.
Pad(f, st) ==
    LET left == f.source \in {"leftPadX", "leftPadY"}
        isY == f.source \in {"leftPadY", "rightPadY"}
        t == IF left THEN st.finger0 ELSE st.finger1
        stick == IF left THEN (IF isY THEN st.leftStickY ELSE st.leftStickX)
                         ELSE (IF isY THEN st.rightStickY ELSE st.rightStickX)
    IN  CASE t.active -> Centred(IF isY THEN <<t.y, 1079>> ELSE <<t.x, 1919>>, isY)
          [] ~t.active /\ f.op = "int16-pad-or-stick" -> Centred(stick, isY)
          [] OTHER -> 0

Pressed(f, st) == IF f.source = "rightPadPressure" THEN st.finger1.active ELSE st.finger0.active

Flag(name, st) ==
    CASE name = "batteryCharging" -> st.charging [] name = "batteryFull" -> st.full
      [] name = "micMuted" -> st.muted [] name = "headphonesConnected" -> st.headphones
      [] OTHER -> FALSE

Up == {1, 2, 8}
Down == {4, 5, 6}
West == {6, 7, 8}
East == {2, 3, 4}

Button(name, st) ==
    CASE name = "_" -> FALSE
      [] name = "LT_DIGITAL" -> st.leftTrigger[1] > 0
      [] name = "RT_DIGITAL" -> st.rightTrigger[1] > 0
      [] name = "DPAD_UP" -> st.hat \in Up [] name = "DPAD_DOWN" -> st.hat \in Down
      [] name = "DPAD_LEFT" -> st.hat \in West [] name = "DPAD_RIGHT" -> st.hat \in East
      [] name = "LEFTPAD_TOUCH" -> st.finger0.active
      [] name = "RIGHTPAD_TOUCH" -> st.finger1.active
      [] OTHER -> name \in st.buttons

Octant(f, st) ==
    LET nibble == IF st.hat = 0 THEN f.neutral ELSE st.hat - 1
    IN  IF f.hasBits THEN Bits(f.byte, f.lo, f.hi, nibble) ELSE Whole(f.byte, nibble % 256)

\* The rolling counters outlive the frame: a counter is read, then advanced.
Counter(f, key, rolling) == Given(rolling, key, f.initial)
Advance(f, key, rolling, step, modulus) ==
    LET next == Counter(f, key, rolling) + step
    IN  [k \in DOMAIN rolling \cup {key} |->
            IF k = key THEN (IF modulus = 0 THEN next ELSE next % modulus) ELSE rolling[k]]

\* What one input field puts; rolls holds the 8-bit and the 32-bit counters.
InputPieces(f, st, buf, rolls) ==
    CASE f.op = "uint8-axis" /\ f.byte >= 0 -> Whole(f.byte, AxisByte(f, st))
      [] f.op = "uint8-trigger" /\ f.byte >= 0 -> Whole(f.byte, Scaled(Trigger(f, st), 255))
      [] f.op = "uint8" /\ f.byte >= 0 -> Whole(f.byte, f.initial)
      [] f.op = "uint8-rolling" /\ f.byte >= 0 -> Whole(f.byte, Counter(f, f.key, rolls.r8))
      [] f.op = "hat-octant" /\ f.byte >= 0 -> Octant(f, st)
      [] f.op = "stick12-pair" /\ Room(f, 3, buf) -> Stick12(f, st)
      [] f.op = "int16-le" /\ Room(f, 2, buf) ->
            Word(f.byte, 2, IF f.source \in Motion THEN st[f.source] ELSE 0)
      [] f.op = "int16-axis" /\ Room(f, 2, buf) ->
            Word(f.byte, 2, Centred(Stick(f, st), f.source \in {"leftStickY", "rightStickY"}))
      [] f.op = "uint16-trigger" /\ Room(f, 2, buf) -> Word(f.byte, 2, Scaled(Trigger(f, st), 32767))
      [] f.op = "uint16-pressure" /\ Room(f, 2, buf) ->
            Word(f.byte, 2, IF Pressed(f, st) THEN 32767 ELSE 0)
      [] f.op \in {"int16-pad", "int16-pad-or-stick"} /\ Room(f, 2, buf) -> Word(f.byte, 2, Pad(f, st))
      [] f.op = "uint32-le" /\ Room(f, 4, buf) ->
            Word(f.byte, 4, IF f.source = "sensorTimestamp" THEN st.sensorTimestamp ELSE 0)
      [] f.op = "uint32-rolling" /\ Room(f, 4, buf) -> Word(f.byte, 4, Counter(f, f.key, rolls.r32))
      [] f.op = "touchpad-finger" /\ Room(f, 4, buf) -> Finger(f, st)
      [] f.op = "bitfield" /\ f.listed /\ Room(f, 1, buf) ->
            Bits(f.byte, f.lo, f.hi, Mask(f, {n \in Range(f.names) : Flag(n, st)}))
      [] f.op = "uint8-battery" /\ Room(f, 1, buf) -> Bits(f.byte, f.lo, f.hi, st.battery)
      [] f.op = "button-mask" /\ f.listed /\ f.byte >= 0 ->
            Spread(f, Mask(f, {n \in Range(f.names) : Button(n, st)}), buf)
      [] f.op = "crc32-le" -> Crc(f, buf)
      [] OTHER -> <<>>

Rolled(f, buf, rolls) ==
    CASE f.op = "uint8-rolling" /\ f.byte >= 0 ->
            [rolls EXCEPT !.r8 = Advance(f, f.key, @, f.stride, 256)]
      [] f.op = "uint32-rolling" /\ Room(f, 4, buf) ->
            [rolls EXCEPT !.r32 = Advance(f, f.key, @, IF f.stride > 1 THEN f.stride ELSE 1, 0)]
      [] OTHER -> rolls

Blank(p) == [i \in 0 .. p.size - 1 |-> IF i = 0 THEN p.id ELSE 0]

\* encode_input: the buffer is zeroed, then every field in its order.  A piece
\* past the end of the buffer is an index out of bounds: the code panics.
PutAll(buf, pieces) == FoldLeft(Put, buf, pieces)
InBounds(buf, pieces) == \A i \in DOMAIN pieces : pieces[i].byte \in DOMAIN buf

Encode(p, st, rolls) ==
    FoldLeft(LAMBDA acc, f :
                LET ps == InputPieces(f, st, acc.buf, acc.enc)
                IN  IF acc.panicked \/ ~InBounds(acc.buf, ps) THEN [acc EXCEPT !.panicked = TRUE]
                    ELSE [buf |-> PutAll(acc.buf, ps), enc |-> Rolled(f, acc.buf, acc.enc),
                          panicked |-> FALSE],
             [buf |-> Blank(p), enc |-> rolls, panicked |-> p.size = 0], p.fields)

-----------------------------------------------------------------------------
(* Output: values keyed by semantic to a report, and back.  A value is     *)
(* [form |-> "byte" | "float" | "bytes" | "u32", v |-> ...].               *)

ToByte(x) == IF x.form \in {"byte", "u32"} THEN x.v % 256 ELSE 0
Named(f, values) == f.sem # "" /\ f.sem \in DOMAIN values
OutKey(f) == IF f.sem # "" THEN <<"by name", f.sem>> ELSE <<"output byte", f.byte>>

\* An explicit value stops the counter for that report.
Free8(f, values, buf) == f.op = "uint8-rolling" /\ Room(f, 1, buf) /\ ~Named(f, values)

FloatByte(f, x, scale, base) ==
    IF x.form = "float" THEN Within(base + RoundHalfEven(x.v[1] * scale, x.v[2]), 0, 255) ELSE ToByte(x)

Blob(f, x, buf) ==
    LET span == Within(f.rhi - f.rlo + 1, 0, Within(Length(buf) - f.rlo, 0, 256))
        n == IF Len(x.v) < span THEN Len(x.v) ELSE span
    IN  [i \in 1 .. n |-> Piece(f.rlo + i - 1, 0, 7, x.v[i])]

Colour(f, x) ==
    CASE x.form = "bytes" /\ Len(x.v) >= 3 -> [i \in 1 .. 3 |-> Piece(f.rlo + i - 1, 0, 7, x.v[i])]
      [] x.form = "u32" -> [i \in 1 .. 3 |-> Piece(f.rlo + i - 1, 0, 7, (x.v \div 256 ^ (3 - i)) % 256)]
      [] OTHER -> <<>>

OutputPieces(f, values, buf, rolls) ==
    CASE f.op = "uint8" /\ Room(f, 1, buf) ->
            Whole(f.byte, IF Named(f, values) THEN ToByte(values[f.sem]) ELSE f.initial)
      [] f.op = "uint8-rolling" /\ Room(f, 1, buf) ->
            Whole(f.byte, IF Named(f, values) THEN ToByte(values[f.sem])
                          ELSE Counter(f, OutKey(f), rolls.r8))
      [] f.op = "uint8-axis" /\ f.sem # "" /\ Room(f, 1, buf) ->
            Whole(f.byte, IF Named(f, values) THEN FloatByte(f, values[f.sem], 127, f.center)
                          ELSE f.center)
      [] f.op = "uint8-trigger" /\ Named(f, values) /\ Room(f, 1, buf) ->
            Whole(f.byte, FloatByte(f, values[f.sem], 255, 0))
      [] f.op = "rgb24" /\ f.rlo >= 0 /\ f.rlo + 2 < Length(buf) /\ Named(f, values) ->
            Colour(f, values[f.sem])
      [] f.op = "bytes-passthrough" /\ f.rlo >= 0 /\ Named(f, values) ->
            IF values[f.sem].form = "bytes" THEN Blob(f, values[f.sem], buf) ELSE <<>>
      [] f.op = "crc32-le" -> Crc(f, buf)
      [] OTHER -> <<>>

EncodeOutput(p, values, rolls) ==
    FoldLeft(LAMBDA acc, f :
                [buf |-> PutAll(acc.buf, OutputPieces(f, values, acc.buf, acc.enc)),
                 enc |-> IF Free8(f, values, acc.buf)
                         THEN [acc.enc EXCEPT !.r8 = Advance(f, OutKey(f), @, f.stride, 256)]
                         ELSE acc.enc],
             [buf |-> Blank(p), enc |-> rolls], p.fields)

\* decode: what one field of a report says, "nothing" when it says nothing.
\* Of an axis and a trigger the byte it is computed from is kept.
SliceOpen(buf, lo, hi) == [i \in 1 .. hi - lo |-> buf[lo + i - 1]]
Slice(buf, lo, hi) == [i \in 1 .. hi - lo + 1 |-> buf[lo + i - 1]]
Says(f, buf) ==
    CASE f.op \in {"uint8", "uint8-rolling"} /\ Room(f, 1, buf) -> <<"byte", buf[f.byte]>>
      [] f.op = "uint8-axis" /\ Room(f, 1, buf) -> <<"axis", buf[f.byte] - f.center>>
      [] f.op = "uint8-trigger" /\ Room(f, 1, buf) -> <<"trigger", buf[f.byte]>>
      [] f.op = "hat-octant" /\ Room(f, 1, buf) ->
            LET raw == IF f.hasBits THEN Read(buf, f.byte, f.lo, f.hi) ELSE buf[f.byte]
            IN  <<"hat", IF raw = f.neutral THEN 0 ELSE (raw + 1) % 256>>
      [] f.op = "rgb24" /\ f.rlo >= 0 /\ f.rlo + 2 < Length(buf) -> <<"bytes", Slice(buf, f.rlo, f.rlo + 2)>>
      [] f.op = "bytes-passthrough" /\ f.rlo >= 0 /\ f.rhi >= 0 /\ f.rhi < Length(buf) ->
            <<"bytes", Slice(buf, f.rlo, f.rhi)>>
      [] OTHER -> <<"nothing", 0>>

SealHolds(f, buf) ==
    LET dst == IF f.dst >= 0 THEN f.dst ELSE Length(buf) - 4
    IN  f.op = "crc32-le" /\ f.scoped /\ dst >= 0 /\ dst + 3 < Length(buf)
            => \A i \in 0 .. 3 : buf[dst + i] = (Digest(f.scope, buf) \div 256 ^ i) % 256

\* A later field of the same name replaces what an earlier one said.
Decode(p, buf) ==
    LET said == {i \in DOMAIN p.fields : p.fields[i].sem # "" /\ Says(p.fields[i], buf)[1] # "nothing"}
        last(n) == CHOOSE i \in said : /\ p.fields[i].sem = n
                                       /\ \A j \in said : p.fields[j].sem = n => j <= i
    IN  [values |-> [n \in {p.fields[i].sem : i \in said} |-> Says(p.fields[last(n)], buf)],
         valid |-> \A i \in DOMAIN p.fields : SealHolds(p.fields[i], buf)]

-----------------------------------------------------------------------------
(* Parsing.                                                                *)

Desktop == 1
Simulation == 2
ButtonPage == 9
Consumer == 12
Vendor == 65280

Start == [page |-> 0, usages |-> <<>>, umin |-> 0, umax |-> 0, size |-> 0, count |-> 0,
          min |-> 0, max |-> 0, id |-> 0, order |-> <<>>, fields |-> <<>>, bits |-> <<>>]

Cleared(s) == [s EXCEPT !.usages = <<>>, !.umin = 0, !.umax = 0]

\* The usage of the c-th field of an Input item: from a range, its last one
\* repeated, or from the list, none past its end.
UsageOf(s, c) ==
    IF s.umin # 0 /\ s.umax # 0 THEN (IF s.umin + c > s.umax THEN s.umax ELSE s.umin + c)
    ELSE IF c < Len(s.usages) THEN s.usages[c + 1] ELSE 0

AtZero(s) == 0
AtOffset(s) == Given(s.bits, s.id, 0)

\* An Input item adds its fields to its report, from the report's running
\* offset on.
Input(s, constant) ==
    LET field(c) == [page |-> s.page, usage |-> UsageOf(s, c), off |-> AtOffset(s) + c * s.size,
                     size |-> s.size, min |-> s.min, max |-> s.max, const |-> constant,
                     count |-> s.count]
        added == Given(s.fields, s.id, <<>>) \o [i \in 1 .. s.count |-> field(i - 1)]
        ids == {s.order[i] : i \in DOMAIN s.order} \cup {s.id}
    IN  Cleared([s EXCEPT
            !.order = IF s.id \in DOMAIN s.fields THEN @ ELSE Append(@, s.id),
            !.bits = [r \in ids |-> IF r = s.id THEN AtOffset(s) + s.size * s.count ELSE s.bits[r]],
            !.fields = [r \in ids |-> IF r = s.id THEN added ELSE s.fields[r]]])

Item(s, it) ==
    CASE it[1] = "input" -> Input(s, it[2])
      [] it[1] \in {"output", "feature", "collection"} -> Cleared(s)
      [] it[1] = "usage" -> [s EXCEPT !.usages = Append(@, it[2])]
      [] it[1] = "extended usage" -> [s EXCEPT !.page = it[2][1], !.usages = Append(@, it[2][2])]
      [] it[1] \in {"page", "umin", "umax", "size", "count", "min", "max", "id"} -> [s EXCEPT ![it[1]] = it[2]]
      [] OTHER -> s

\* Which report is the pad's: the one the profile names, else the first with a
\* gamepad field, else the first.
Parseable(fs) == \E i \in DOMAIN fs : ~fs[i].const /\ fs[i].page \in {Desktop, Simulation, ButtonPage}

ChosenId(s, preferred) ==
    LET good == {i \in DOMAIN s.order : Parseable(s.fields[s.order[i]])}
    IN  IF preferred # 0 /\ preferred \in DOMAIN s.fields THEN preferred
        ELSE IF good # {} THEN s.order[CHOOSE i \in good : \A j \in good : i <= j]
        ELSE s.order[1]

Parsed(desc, preferred) ==
    LET s == FoldLeft(Item, Start, desc)
    IN  IF s.order = <<>> THEN [id |-> 0, bits |-> 0, fields |-> <<>>]
        ELSE LET id == ChosenId(s, preferred)
             IN  [id |-> id, bits |-> s.bits[id], fields |-> s.fields[id]]

-----------------------------------------------------------------------------
(* Sorting fields into slots.                                              *)

NoField == [page |-> 0, usage |-> 0, off |-> -1, size |-> 0, min |-> 0, max |-> 0,
            const |-> TRUE, count |-> 0]
IsField(f) == f.off >= 0
Handle(f) == f.page * 256 + f.usage

RightX == <<"rightStickX", "thirdStickX", "fourthStickX">>
RightY == <<"rightStickY", "thirdStickY", "fourthStickY">>
LeftFirst == <<"leftTrigger", "rightTrigger">>
RightFirst == <<"rightTrigger", "leftTrigger">>

Controls == {"leftStickX", "leftStickY", "rightStickX", "rightStickY", "leftTrigger", "rightTrigger"}
Movable == Controls \cup {"thirdStickX", "thirdStickY", "fourthStickX", "fourthStickY"}
Slots == Movable \cup {"combined", "hat", "menu"}

Known(h) == \/ h \in 304 .. 313 \/ h \in 320 .. 326
            \/ h \in {688, 689, 690, 693, 694} \/ h \in 696 .. 699 \/ h \in {702, 703} \/ h \in 707 .. 720

LooksLikeTrigger(f) == f.count = 1 /\ f.min = 0

\* Z and Rz are the right stick of a pad without Rx and Ry, or when either is
\* one of several fields of its item.
StickPair(fs) ==
    LET on(u) == {i \in DOMAIN fs : ~fs[i].const /\ fs[i].page = Desktop /\ fs[i].usage \in u}
    IN  \/ on({51, 52}) = {} /\ on({50}) # {} /\ on({53}) # {}
        \/ \E i \in on({50, 53}) : fs[i].count >= 2

\* The slots a field tries, in order; it takes the first free one.
Tries(f, sticks) ==
    LET trigger == LooksLikeTrigger(f)
        u == f.usage
    IN  CASE f.page = Desktop /\ u = 48 -> <<"leftStickX">>
          [] f.page = Desktop /\ u = 49 -> <<"leftStickY">>
          [] f.page = Desktop /\ u = 50 -> IF trigger \/ ~sticks THEN LeftFirst ELSE RightX
          [] f.page = Desktop /\ u = 53 -> IF trigger \/ ~sticks THEN RightFirst ELSE RightY
          [] f.page = Desktop /\ u \in {51, 54} -> IF trigger THEN LeftFirst ELSE RightX
          [] f.page = Desktop /\ u \in {52, 55} -> IF trigger THEN RightFirst ELSE RightY
          [] f.page = Desktop /\ u = 57 -> <<"hat">>
          [] f.page = Desktop /\ u = 133 -> <<"menu">>
          [] f.page = Simulation /\ u \in {196, 186} -> <<"rightTrigger">>
          [] f.page = Simulation /\ u \in {197, 187} -> <<"leftTrigger">>
          [] OTHER -> <<>>

Claim(slots, f, chain) ==
    LET free == {i \in DOMAIN chain : ~IsField(slots[chain[i]])}
    IN  IF free = {} THEN slots
        ELSE [slots EXCEPT ![chain[CHOOSE i \in free : \A j \in free : i <= j]] = f]

\* Vx and Vy are the separate triggers of a pad whose Z combines them.
Sorted(slots, f, sticks) ==
    CASE f.page = Desktop /\ f.usage = 64 ->
            [slots EXCEPT !.combined = IF IsField(@) THEN @ ELSE slots.leftTrigger, !.leftTrigger = f]
      [] f.page = Desktop /\ f.usage = 65 -> [slots EXCEPT !.rightTrigger = f]
      [] OTHER -> Claim(slots, f, Tries(f, sticks))

\* Vendor bits directly behind the last button go on as buttons.
VendorRun(fs, buttons) ==
    IF buttons = <<>> THEN <<>>
    ELSE FoldLeft(LAMBDA run, f :
                    LET last == IF run = <<>> THEN buttons[Len(buttons)] ELSE run[Len(run)]
                    IN  IF f.page >= Vendor /\ ~f.const /\ f.size = 1 /\ f.off = last.off + last.size
                        THEN Append(run, f) ELSE run,
                  <<>>, fs)

Resolved(parsed) ==
    LET live == SelectSeq(parsed.fields, LAMBDA f : ~f.const)
        sticks == StickPair(parsed.fields)
        buttons == SelectSeq(live, LAMBDA f : f.page \in {ButtonPage, Consumer})
        axes == {i \in DOMAIN live : /\ live[i].page \in {Desktop, Simulation}
                                     /\ Known(Handle(live[i])) /\ Handle(live[i]) # 313}
        first(h) == CHOOSE i \in axes : Handle(live[i]) = h /\ \A j \in axes : Handle(live[j]) = h => i <= j
    IN  [id |-> parsed.id, bits |-> parsed.bits, fields |-> parsed.fields,
         slots |-> FoldLeft(LAMBDA s, f : Sorted(s, f, sticks), [n \in Slots |-> NoField], live),
         buttons |-> buttons, vendor |-> VendorRun(parsed.fields, buttons),
         axes |-> [h \in {Handle(live[i]) : i \in axes} |-> live[first(h)]]]

\* apply_axis_map: a field the map names leaves the slot it was in, then goes
\* where the map says.  The combined trigger is not one of the slots left.
Mapped(b, map) ==
    LET named(u) == {i \in DOMAIN b.fields : ~b.fields[i].const /\ b.fields[i].page = Desktop /\ b.fields[i].usage = u}
        field(u) == b.fields[CHOOSE i \in named(u) : \A j \in named(u) : i <= j]
        moved == {field(u) : u \in {v \in {map[i][1] : i \in DOMAIN map} : named(v) # {}}}
        scrubbed == [n \in Slots |-> IF n \in Movable /\ b.slots[n] \in moved THEN NoField ELSE b.slots[n]]
    IN  [b EXCEPT !.slots = FoldLeft(LAMBDA s, e : IF named(e[1]) = {} \/ e[2] \notin Controls THEN s
                                                   ELSE [s EXCEPT ![e[2]] = field(e[1])],
                                     scrubbed, map)]

\* The handle a trigger's value comes under: where the map puts the role.
Canonical(map, role, default) ==
    LET of == {i \in DOMAIN map : map[i][2] = role}
    IN  IF of = {} THEN default
        ELSE LET u == map[CHOOSE i \in of : \A j \in of : j <= i][1] IN IF u <= 255 THEN u + 256 ELSE u

\* apply_layout: what is not a gamepad says which axis is which control.
\* A layout's members are axis handles; pedals is a sequence of <<role, handle>>.
Pedal(layout, roles) ==
    LET of == {i \in DOMAIN Given(layout, "pedals", <<>>) : layout.pedals[i][1] \in roles}
    IN  IF of = {} THEN 0 ELSE layout.pedals[CHOOSE i \in of : \A j \in of : i <= j][2]

Asked(layout) ==
    LET go(x, y, l, r) == [leftStickX |-> x, leftStickY |-> y, leftTrigger |-> l, rightTrigger |-> r]
        at(member) == Given(layout, member, 0)
        gas == Pedal(layout, {"accelerator", "throttle"})
    IN  CASE layout.kind \in {"joystick", "flight_stick"} ->
                go(at("stickX"), at("stickY"), at("throttle"), at("rudder"))
          [] layout.kind = "hotas" -> go(at("stickX"), at("stickY"), at("throttlePrimary"), at("stickRudder"))
          [] layout.kind = "wheel" -> go(at("wheel"), Pedal(layout, {"clutch"}), gas, Pedal(layout, {"brake"}))
          [] layout.kind = "pedals" -> go(0, 0, gas, Pedal(layout, {"brake"}))
          [] layout.kind \in {"handbrake", "single_axis_accessory"} -> go(0, 0, at("axis"), 0)
          [] OTHER -> go(0, 0, 0, 0)

LaidOut(b, layout) ==
    IF layout.kind \in {"gamepad", "unspecified"} THEN b
    ELSE LET asked == Asked(layout)
             axis(h) == Given(b.axes, h, NoField)
         IN  [b EXCEPT !.slots = [n \in Slots |->
                CASE n \in DOMAIN asked -> axis(asked[n])
                  [] n \in {"rightStickX", "rightStickY", "combined"} -> NoField
                  [] OTHER -> @[n]]]

\* ReportBuilder::parse, then apply_layout.
Builder(p) ==
    LET map == Given(p, "axisMap", <<>>)
        sorted == Resolved(Parsed(p.descriptor, Given(p, "preferred", 0)))
    IN  [base |-> LaidOut(Mapped(sorted, map), Given(p, "layout", [kind |-> "unspecified"])),
         left |-> Canonical(map, "leftTrigger", 306), right |-> Canonical(map, "rightTrigger", 309),
         buttonMap |-> Given(p, "buttonMap", <<>>), triggerButtons |-> Given(p, "triggerButtons", <<>>)]

-----------------------------------------------------------------------------
(* Building a report.                                                      *)

CeilBytes(bits) == (bits + 7) \div 8
Shift(b) == IF b.base.id # 0 THEN 8 ELSE 0
ReportSize(b) == CeilBytes(b.base.bits) + Shift(b) \div 8

WriteBits(buf, off, size, v) ==
    LET byte(k) ==
            LET lo == IF off > 8 * k THEN off ELSE 8 * k
                hi == IF off + size < 8 * k + 8 THEN off + size - 1 ELSE 8 * k + 7
                width == 2 ^ (hi - lo + 1)
                at == 2 ^ (lo - 8 * k)
            IN  IF lo > hi THEN buf[k]
                ELSE buf[k] + (((v \div 2 ^ (lo - off)) % width) - ((buf[k] \div at) % width)) * at
    IN  IF off < 0 \/ size <= 0 THEN buf ELSE [k \in DOMAIN buf |-> byte(k)]

\* A fraction of a field's logical range, cut toward zero and clamped.
Cut(num, den) == IF num >= 0 THEN num \div den ELSE -((-num) \div den)
Raw(f, q) ==
    LET span == f.max - f.min
        c == Clamp01(q)
    IN  IF span = c[2] THEN c[1] + f.min
        ELSE Within(Cut(c[1] * span + f.min * c[2], c[2]), f.min, f.max)

WriteField(b, buf, f, q) ==
    IF IsField(f) THEN WriteBits(buf, f.off + Shift(b), f.size, Raw(f, q)) ELSE buf

\* Every declared axis from the dictionary, its middle or its end otherwise.
Rest(f) == IF f.min < 0 THEN <<1, 2>> ELSE <<0, 1>>
AxisPass(b, buf, axes) ==
    FoldLeft(LAMBDA acc, h : WriteField(b, acc, b.base.axes[h], Given(axes, h, Rest(b.base.axes[h]))),
             buf, SetToSeq(DOMAIN b.base.axes))

\* Both triggers in one axis: half, plus half of right minus left.
Combined(l, r) == <<l[2] * r[2] + r[1] * l[2] - l[1] * r[2], 2 * l[2] * r[2]>>
CombinedPass(b, buf, axes) ==
    LET s == b.base.slots
        value(canonical, f) == IF canonical \in DOMAIN axes THEN axes[canonical]
                               ELSE Given(axes, Handle(f), <<0, 1>>)
        l == value(b.left, s.leftTrigger)
        r == value(b.right, s.rightTrigger)
    IN  IF ~(IsField(s.combined) /\ IsField(s.leftTrigger) /\ IsField(s.rightTrigger)) THEN buf
        ELSE WriteField(b, WriteField(b, WriteField(b, buf, s.combined, Combined(l, r)),
                                      s.leftTrigger, l), s.rightTrigger, r)

\* The neutral position lies outside the hat's logical range.
HatValue(f, hat) ==
    IF hat = 0 THEN (IF f.min = 0 THEN f.max + 1 ELSE 0)
    ELSE f.min + ((hat - 1) * (f.max - f.min + 1)) \div 8
HatPass(b, buf, hat) ==
    LET f == b.base.slots.hat
    IN  IF IsField(f) THEN WriteBits(buf, f.off + Shift(b), f.size, HatValue(f, hat)) ELSE buf

Press(b, buf, f) == WriteBits(buf, f.off + Shift(b), f.size, 1)

\* Triggers that are buttons as well.
TriggerPass(b, buf, axes) ==
    LET s == b.base.slots
        one(acc, f, i) ==
            IF Given(axes, Handle(f), <<0, 1>>)[1] > 0 /\ i \in 0 .. Len(b.base.buttons) - 1
            THEN Press(b, acc, b.base.buttons[i + 1]) ELSE acc
    IN  IF b.triggerButtons = <<>> \/ ~IsField(s.leftTrigger) \/ ~IsField(s.rightTrigger) THEN buf
        ELSE one(one(buf, s.leftTrigger, b.triggerButtons[1]), s.rightTrigger, b.triggerButtons[2])

\* The field a held button sets: through the button map when it has an entry,
\* past the buttons into the vendor bits only then.
Guide == 10
ButtonField(b, bit) ==
    LET mapped == bit < Len(b.buttonMap)
        i == IF mapped THEN b.buttonMap[bit + 1] ELSE bit
        n == Len(b.base.buttons)
    IN  CASE i \in 0 .. n - 1 -> b.base.buttons[i + 1]
          [] mapped /\ i - n \in 0 .. Len(b.base.vendor) - 1 -> b.base.vendor[i - n + 1]
          [] OTHER -> NoField

\* Guide goes to the System Main Menu where there is one, and only there.
ButtonPass(b, buf, held) ==
    LET menu == Guide \in held /\ IsField(b.base.slots.menu)
        left == IF menu THEN held \ {Guide} ELSE held
        start == IF menu THEN Press(b, buf, b.base.slots.menu) ELSE buf
    IN  FoldLeft(LAMBDA acc, bit : IF IsField(ButtonField(b, bit)) THEN Press(b, acc, ButtonField(b, bit)) ELSE acc,
                 start, SetToSeq(left))

\* build_into
Build(b, axes, hat, held) ==
    LET blank == [k \in 0 .. ReportSize(b) - 1 |-> IF k = 0 THEN b.base.id ELSE 0]
        analog == CombinedPass(b, AxisPass(b, blank, axes), axes)
    IN  ButtonPass(b, TriggerPass(b, HatPass(b, analog, hat), axes), held)

\* What a HID reader finds in a field.
ReadField(b, buf, f) ==
    LET off == f.off + Shift(b)
        bit(i) == (buf[(off + i) \div 8] \div 2 ^ ((off + i) % 8)) % 2
    IN  FoldLeft(LAMBDA v, i : v + bit(i) * 2 ^ i, 0, [i \in 1 .. f.size |-> i - 1])

-----------------------------------------------------------------------------
(* The wire state in canonical form: sticks and triggers as fractions, Y   *)
(* turned over, buttons by their HMButton names, the d-pad as an octant.   *)

HMButton == [A |-> "a", B |-> "b", X |-> "x", Y |-> "y", LEFT_SHOULDER |-> "leftbumper",
    RIGHT_SHOULDER |-> "rightbumper", BACK |-> "back", START |-> "start", LEFT_THUMB |-> "leftstick",
    RIGHT_THUMB |-> "rightstick", GUIDE |-> "guide", TOUCHPAD_CLICK |-> "touchpad", SHARE |-> "share",
    RIGHT_PADDLE |-> "rightpaddle", LEFT_PADDLE |-> "leftpaddle", MISC1 |-> "misc1",
    RIGHT_PADDLE2 |-> "rightpaddle2", LEFT_PADDLE2 |-> "leftpaddle2"]

BitOrder == <<"a", "b", "x", "y", "leftbumper", "rightbumper", "back", "start", "leftstick",
    "rightstick", "guide", "touchpad", "share", "rightpaddle", "leftpaddle", "misc1",
    "rightpaddle2", "leftpaddle2">>

Held(g) == {HMButton[w] : w \in g.buttons \cap DOMAIN HMButton}
HeldBits(g) == {i \in 0 .. 17 : BitOrder[i + 1] \in Held(g)}

\* Opposite directions cancel.
HatOf(g) ==
    LET on(d, opposite) == d \in g.buttons /\ opposite \notin g.buttons
        up == on("UP", "DOWN") down == on("DOWN", "UP")
        left == on("LEFT", "RIGHT") right == on("RIGHT", "LEFT")
    IN  CASE up /\ right -> 2 [] up /\ left -> 8 [] down /\ right -> 4 [] down /\ left -> 6
          [] up -> 1 [] right -> 3 [] down -> 5 [] left -> 7 [] OTHER -> 0

AsIs(v) == <<v + 32768, 65535>>
TurnedOver(v) == <<65535 - (v + 32768), 65535>>

Analog(g) ==
    [leftStickX |-> AsIs(g.lx), leftStickY |-> TurnedOver(g.ly),
     rightStickX |-> AsIs(g.rx), rightStickY |-> TurnedOver(g.ry),
     leftTrigger |-> <<g.lt, 255>>, rightTrigger |-> <<g.rt, 255>>]

\* Mapped::axes: the sticks on X, Y, Rx and Ry, the triggers on Z and Rz.
CanonicalHandle == [leftStickX |-> 304, leftStickY |-> 305, rightStickX |-> 307, rightStickY |-> 308,
                    leftTrigger |-> 306, rightTrigger |-> 309]
CanonicalAxes(g) ==
    [h \in {CanonicalHandle[c] : c \in Controls} |->
        Analog(g)[CHOOSE c \in Controls : CanonicalHandle[c] = h]]

\* to_input_state: what the pad does not have stays zero.
Still == [gyroPitch |-> 0, gyroYaw |-> 0, gyroRoll |-> 0, accelX |-> 0, accelY |-> 0, accelZ |-> 0,
          sensorTimestamp |-> 0]
Lifted == [active |-> FALSE, x |-> 0, y |-> 0, id |-> 0]
Unpowered == [level |-> 0, charging |-> FALSE, full |-> FALSE, muted |-> FALSE, headphones |-> FALSE]
Or(opt, default) == IF opt = <<>> THEN default ELSE opt[1]

InputState(g) ==
    LET imu == Or(g.imu, Still)
        touch == Or(g.touchpad, <<Lifted, Lifted>>)
        battery == Or(g.battery, Unpowered)
        digital == [buttons |-> Held(g), hat |-> HatOf(g), finger0 |-> touch[1], finger1 |-> touch[2],
                    battery |-> battery.level, charging |-> battery.charging, full |-> battery.full,
                    muted |-> battery.muted, headphones |-> battery.headphones]
    IN  Analog(g) @@ imu @@ digital

-----------------------------------------------------------------------------
(* The two fixed layouts.                                                  *)

Flags(names, on) == FoldLeft(+, 0, [i \in DOMAIN names |-> IF names[i] \in on THEN 2 ^ (i - 1) ELSE 0])
Bytes(pieces, size) == PutAll([i \in 0 .. size - 1 |-> 0], pieces)

GipLow == <<"a", "b", "x", "y", "leftbumper", "rightbumper", "leftstick", "rightstick">>
GipWords == <<"leftStickX", "leftStickY", "rightStickX", "rightStickY", "leftTrigger", "rightTrigger">>

\* gip::pack: full-scale sticks, 10-bit triggers, the hat inside a button byte.
GipWord(g, c) ==
    LET q == Analog(g)[c] IN IF c \in Triggers THEN Cut(q[1] * 1023, q[2]) ELSE q[1]
Gip(g) ==
    LET high == Flags(<<"back", "start", "", "", "", "", "guide">>, Held(g))
    IN  Bytes(Word(0, 2, GipWord(g, GipWords[1])) \o Word(2, 2, GipWord(g, GipWords[2]))
              \o Word(4, 2, GipWord(g, GipWords[3])) \o Word(6, 2, GipWord(g, GipWords[4]))
              \o Word(8, 2, GipWord(g, GipWords[5])) \o Word(10, 2, GipWord(g, GipWords[6]))
              \o Whole(12, Flags(GipLow, Held(g))) \o Whole(13, high) \o Bits(13, 2, 5, HatOf(g)), 14)

\* switch_pro::build_body: Nintendo's bit order, 12-bit sticks around 0x800
\* with up positive, and the same motion sample three times.
Switch0 == <<"x", "y", "a", "b", "", "", "rightbumper", "start">>
Switch1 == <<"leftstick", "rightstick", "touchpad", "guide", "share", "rightpaddle">>

SwitchStick(q, flip) ==
    LET c == 2 * q[1] - q[2]
    IN  Within(2048 + Cut((IF flip THEN -c ELSE c) * 1536, q[2]), 0, 4095)
SwitchPad(g) ==
    LET h == HatOf(g)
        d(i, set) == IF h \in set THEN 2 ^ i ELSE 0
    IN  d(0, Down) + d(1, Up) + d(2, East) + d(3, West)
            + (IF "leftbumper" \in Held(g) THEN 64 ELSE 0) + (IF "back" \in Held(g) THEN 128 ELSE 0)

Rounded(num, den) == IF num >= 0 THEN Away(num, den) ELSE -Away(-num, den)
Imu16(v) == Within(v, -32768, 32767)
Sample(g) ==
    LET imu == Or(g.imu, Still)
        gyro(v) == Imu16(Rounded(v * 13371, 936 * 16))
    IN  <<Imu16(-imu.accelZ), Imu16(-imu.accelX), Imu16(imu.accelY),
          gyro(-imu.gyroRoll), gyro(-imu.gyroPitch), gyro(imu.gyroYaw)>>

SwitchBody(g) ==
    LET a == Analog(g)
        pair(x, y) == SwitchStick(x, FALSE) + 4096 * SwitchStick(y, TRUE)
        motion == FlattenSeq([i \in 1 .. 18 |-> Word(12 + 2 * (i - 1), 2, Sample(g)[((i - 1) % 6) + 1])])
    IN  Bytes(Whole(2, Flags(Switch0, Held(g))) \o Whole(3, Flags(Switch1, Held(g))) \o Whole(4, SwitchPad(g))
              \o Word(5, 3, pair(a.leftStickX, a.leftStickY)) \o Word(8, 3, pair(a.rightStickX, a.rightStickY))
              \o motion, 48)

-----------------------------------------------------------------------------
(* The session.                                                            *)

Fresh == [r8 |-> <<>>, r32 |-> <<>>]

Init ==
    /\ session = [kind |-> "none"] /\ enc = Fresh /\ pad = <<>>
    /\ report = <<>> /\ gip = <<>> /\ frames = 0
    /\ game = [enc |-> Fresh, wrote |-> <<>>, lost |-> -1] /\ heard = <<>> /\ reports = 0

\* A profile streams its vendor report from power-on, or has a descriptor.
Armed(p) == "extendedReport" \in DOMAIN p /\ p.armed
IsSwitchPro(p) == p.vid = "nintendo" /\ p.pid = "switch pro"

Preferred(p) == IF Armed(p) THEN p.extendedReport.reportId ELSE 0

Made(p) ==
    CASE IsSwitchPro(p) -> [kind |-> "switch", profile |-> p]
      [] ~IsSwitchPro(p) /\ Armed(p) ->
            IF Compiles(p.extendedReport)
            THEN [kind |-> "codec", profile |-> p, program |-> Program(p.extendedReport)]
            ELSE [kind |-> "refused"]
      [] OTHER ->
            IF p.descriptor = <<>> THEN [kind |-> "refused"]
            ELSE [kind |-> "descriptor", profile |-> p,
                  builder |-> Builder([preferred |-> Preferred(p)] @@ p)]

New(p) ==
    /\ session.kind = "none"
    /\ session' = Made(p)
    /\ UNCHANGED <<enc, pad, report, gip, frames, game, heard, reports>>

PacksGip == session.kind = "descriptor" /\ session.profile.vid = "microsoft"

Submit(g) ==
    /\ session.kind \in {"descriptor", "codec", "switch"} /\ frames < MaxFrames
    /\ pad' = <<g>> /\ frames' = frames + 1
    /\ CASE session.kind = "descriptor" ->
                /\ report' = Build(session.builder, CanonicalAxes(g), HatOf(g), HeldBits(g))
                /\ enc' = enc
         [] session.kind = "codec" ->
                LET out == Encode(session.program, InputState(g), enc)
                IN  /\ report' = out.buf
                    /\ enc' = out.enc
         [] OTHER -> report' = SwitchBody(g) /\ enc' = enc
    /\ gip' = IF PacksGip THEN Gip(g) ELSE <<>>
    /\ UNCHANGED <<session, game, heard, reports>>

\* A game writes an output report, of which one byte may arrive altered, and
\* the session decodes what arrives.
HasOutput == "profile" \in DOMAIN session /\ "extendedOutputReport" \in DOMAIN session.profile
                 /\ Compiles(session.profile.extendedOutputReport)
OutProgram == Program(session.profile.extendedOutputReport)

GameWrites(values, lost) ==
    /\ HasOutput /\ reports < MaxReports
    /\ LET out == EncodeOutput(OutProgram, values, game.enc)
           sent == IF lost \in DOMAIN out.buf THEN [out.buf EXCEPT ![lost] = (@ + 1) % 256] ELSE out.buf
       IN  /\ game' = [enc |-> out.enc, wrote |-> <<values>>, lost |-> lost]
           /\ heard' = <<Decode(OutProgram, sent)>>
    /\ reports' = reports + 1
    /\ UNCHANGED <<session, enc, pad, report, gip, frames>>

Next ==
    \/ \E p \in Profiles : New(p)
    \/ \E g \in Pads : Submit(g)
    \/ \E v \in Outputs, lost \in {-1, 2} : GameWrites(v, lost)

Spec == Init /\ [][Next]_vars

-----------------------------------------------------------------------------
(* What the readers see.                                                   *)

\* A field of a vendor report as its host reads it.
Near(q, scale, v) == LET d == 2 * (q[1] * scale - v * q[2]) IN d <= q[2] /\ -d <= q[2]
Shows(f, st, buf) ==
    LET b == f.byte
        word == buf[b] + (IF b + 1 \in DOMAIN buf THEN 256 * buf[b + 1] ELSE 0)
    IN  CASE f.op = "uint8-axis" -> Near(st[f.source], 255, buf[b])
          [] f.op = "uint8-trigger" -> Near(st[f.source], 255, buf[b])
          [] f.op = "uint16-trigger" -> Near(st[f.source], 32767, word)
          [] f.op = "int16-le" -> word = st[f.source] % 65536
          [] f.op = "stick12-pair" -> /\ Near(st.leftStickX, 4095, word % 4096)
                                      /\ Near(st.leftStickY, 4095, buf[b + 1] \div 16 + 16 * buf[b + 2])
          [] f.op = "uint8-rolling" -> buf[b] = (f.initial + (frames - 1) * f.stride) % 256
          [] f.op = "uint32-rolling" -> word = f.initial + (frames - 1) * f.stride
          [] f.op = "uint8-battery" -> Read(buf, b, f.lo, f.hi) = st.battery % 2 ^ (f.hi - f.lo + 1)
          [] f.op = "hat-octant" -> Read(buf, b, f.lo, f.hi) = IF st.hat = 0 THEN f.neutral ELSE st.hat - 1
          [] f.op = "touchpad-finger" ->
                LET t == IF f.sem = "touchpadFinger1" THEN st.finger1 ELSE st.finger0
                IN  /\ (buf[b] < 128) = t.active
                    /\ buf[b + 1] + 256 * (buf[b + 2] % 16) = t.x
                    /\ buf[b + 2] \div 16 + 16 * buf[b + 3] = t.y
          [] f.op = "bitfield" -> \A i \in DOMAIN f.names :
                                    Read(buf, b, f.lo + i - 1, f.lo + i - 1) = (IF Flag(f.names[i], st) THEN 1 ELSE 0)
          [] f.op = "button-mask" -> \A i \in DOMAIN f.names :
                LET at == f.lo + i - 1
                IN  Read(buf, b + at \div 8, at % 8, at % 8) = (IF Button(f.names[i], st) THEN 1 ELSE 0)
          [] f.op = "crc32-le" -> SealHolds(f, buf)
          [] OTHER -> TRUE

\* A control of a descriptor report whose axis is the one the session writes
\* the control to.
Direct(b, c) == IsField(b.base.slots[c]) /\ Handle(b.base.slots[c]) = CanonicalHandle[c]
SlotShows(b, g, c) ==
    LET f == b.base.slots[c] IN ReadField(b, report, f) = Raw(f, Analog(g)[c]) % 2 ^ f.size

Pressed1(b) == {i \in DOMAIN b.base.buttons : ReadField(b, report, b.base.buttons[i]) = 1}
ShouldPress(b, g) ==
    {i \in DOMAIN b.base.buttons :
        \/ \E bit \in HeldBits(g) : /\ ButtonField(b, bit) = b.base.buttons[i]
                                    /\ (bit = Guide => ~IsField(b.base.slots.menu))
        \/ b.triggerButtons # <<>> /\ b.triggerButtons[1] = i - 1 /\ g.lt > 0
        \/ b.triggerButtons # <<>> /\ b.triggerButtons[2] = i - 1 /\ g.rt > 0}
Unrouted(b) ==
    IF b.triggerButtons = <<>> \/ (Direct(b, "leftTrigger") /\ Direct(b, "rightTrigger")) THEN {}
    ELSE {b.triggerButtons[1] + 1, b.triggerButtons[2] + 1}

Seen(g) ==
    CASE session.kind = "codec" ->
            \A i \in DOMAIN session.program.fields : Shows(session.program.fields[i], InputState(g), report)
      [] session.kind = "descriptor" ->
            LET b == session.builder
                hat == b.base.slots.hat
            IN  /\ \A c \in Controls : Direct(b, c) => SlotShows(b, g, c)
                /\ IsField(hat) => ReadField(b, report, hat) = HatValue(hat, HatOf(g))
                /\ Pressed1(b) \ Unrouted(b) = ShouldPress(b, g) \ Unrouted(b)
      [] OTHER ->
            /\ {i \in 0 .. 3 : Read(report, 4, i, i) = 1}
                 = {i \in 0 .. 3 : HatOf(g) \in <<Down, Up, East, West>>[i + 1]}
            /\ \A i \in 0 .. 7 : Switch0[i + 1] # "" =>
                    (Read(report, 2, i, i) = 1) = (Switch0[i + 1] \in Held(g))
            /\ \A k \in 0 .. 2 : report[12 + 12 * k] + 256 * report[13 + 12 * k] = Sample(g)[1] % 65536

\* Whatever path a pad's profile takes, what a reader finds in the report is
\* what the client's pad held: sticks and triggers to the nearest step, the
\* hat, each button alone, motion, touch and battery, with no field writing
\* over its neighbour's bits, counters that advance by their stride over all
\* the frames, and a seal over the rest.  The XInput buffer says the same.
SeenAsHeld ==
    pad # <<>> =>
        /\ Seen(pad[1])
        /\ gip # <<>> =>
            /\ gip[0] + 256 * gip[1] = Analog(pad[1]).leftStickX[1]
            /\ Read(gip, 13, 2, 5) = HatOf(pad[1])
            /\ \A i \in 0 .. 7 : (Read(gip, 12, i, i) = 1) = (GipLow[i + 1] \in Held(pad[1]))
            /\ (Read(gip, 13, 6, 6) = 1) = ("guide" \in Held(pad[1]))

\* What a game wrote into an output report is what the session tells the
\* client's pad, and a report altered on the way is told apart by its seal.
OutputsReadBack ==
    heard # <<>> =>
        LET values == game.wrote[1]
            said == heard[1].values
        IN  IF game.lost >= 0 THEN ~heard[1].valid
            ELSE /\ heard[1].valid
                 /\ \A n \in DOMAIN values \cap DOMAIN said :
                        CASE values[n].form = "byte" -> said[n][2] = values[n].v
                          [] values[n].form = "bytes" -> said[n] = <<"bytes", values[n].v>>
                          [] OTHER -> TRUE

\* map.rs says of the axes of a frame that a profile's axis map re-routes them
\* per family: every control is in the slot the profile gives it.
ControlsLandInTheirSlots ==
    pad # <<>> /\ session.kind = "descriptor" =>
        \A c \in Controls : IsField(session.builder.base.slots[c]) => SlotShows(session.builder, pad[1], c)
=============================================================================
