-------------------------------- MODULE Wire --------------------------------
(***************************************************************************)
(* The bytes of sunburst-core/src/proto: how a field is written            *)
(* (extend_from_slice of to_le_bytes) and read (Reader of control.rs, and  *)
(* the bounds checks of the datagram decoders, which agree with it).  A    *)
(* message is a function from the names of its fields to their values, a   *)
(* layout a sequence of fields; ControlWire and DatagramWire give the      *)
(* layout every encode writes and, apart from it, the one decode reads.    *)
(***************************************************************************)
EXTENDS Integers, Sequences

LOCAL INSTANCE SequencesExt

CONSTANTS
    MaxString,  \* MAX_STRING: the longest string (255 in the code)
    MaxPads     \* MAX_PADS: pad indices (4 in the code)

-----------------------------------------------------------------------------
(* Fields.  "n" is a width in bytes.                                       *)

U(n, f) == [t |-> "unsigned", n |-> n, f |-> f]
I(n, f) == [t |-> "signed", n |-> n, f |-> f]
Raw(n, f) == [t |-> "raw", n |-> n, f |-> f]           \* nonces, tags, digests
Bool(f) == [t |-> "bool", n |-> 1, f |-> f]
Bits(f, names) == [t |-> "bits", n |-> 1, f |-> f, names |-> names]
Enum(f, known) == [t |-> "enum", n |-> 1, f |-> f, known |-> known]
Prefer(f, known) == [t |-> "prefer", n |-> 1, f |-> f, known |-> known]
Pad(f) == [t |-> "pad", n |-> 1, f |-> f]
Str(f) == [t |-> "string", n |-> 1, f |-> f]
Clip(f) == [t |-> "clip", n |-> 1, f |-> f]            \* cut by the writer
Data(n, f, max) == [t |-> "data", n |-> n, f |-> f, max |-> max]
Trailing(f) == [t |-> "trailing", n |-> 1, f |-> f]    \* an older peer has none
Finger(f) == [t |-> "finger", n |-> 5, f |-> f]
If(f, bit, fields) == [t |-> "if", f |-> f, v |-> bit, tag |-> FALSE, fields |-> fields]
IfIs(f, v, fields) == [t |-> "if", f |-> f, v |-> v, tag |-> TRUE, fields |-> fields]
Each(n, f, fields) == [t |-> "each", n |-> n, f |-> f, fields |-> fields]

\* An optional group of fields is there if its bit is set, or its tag has the value.
Present(m, g) == IF g.tag THEN m[g.f] = g.v ELSE g.v \in m[g.f]

-----------------------------------------------------------------------------
(* Writing.                                                                *)

ByteOf(v, i) == IF i > 4 THEN (IF v < 0 THEN 255 ELSE 0) ELSE (v \div 256 ^ (i - 1)) % 256
LE(v, n) == [i \in 1 .. n |-> ByteOf(v, i)]

Mask(names, set) ==
    FoldLeft(LAMBDA sum, i : sum + (IF names[i] \in set THEN 2 ^ (i - 1) ELSE 0),
             0, [i \in 1 .. Len(names) |-> i])

\* Not in the middle of a character: a byte of 128 .. 191 goes on with one.
IsCharBoundary(s, end) == end = Len(s) \/ s[end + 1] \notin 128 .. 191
ClipOf(s) == SubSeq(s, 1, CHOOSE end \in 0 .. MaxString :
    /\ end <= Len(s) /\ IsCharBoundary(s, end)
    /\ \A e \in end + 1 .. MaxString : e > Len(s) \/ ~IsCharBoundary(s, e))

PutStr(s) == <<Len(s)>> \o s

\* "overlong" stands for the error an encode returns.
Overlong == <<-1>>
IsOverlong(bytes) == \E i \in DOMAIN bytes : bytes[i] = -1

Put(m, d) ==
    LET v == m[d.f] IN
    CASE d.t \in {"unsigned", "signed", "enum", "prefer", "pad"} -> LE(v, d.n)
      [] d.t = "raw" -> v
      [] d.t \in {"bool", "trailing"} -> <<IF v THEN 1 ELSE 0>>
      [] d.t = "bits" -> <<Mask(d.names, v)>>
      [] d.t = "string" -> IF Len(v) > MaxString THEN Overlong ELSE PutStr(v)
      [] d.t = "clip" -> PutStr(ClipOf(v))
      [] d.t = "data" -> IF Len(v) > d.max THEN Overlong ELSE LE(Len(v), d.n) \o v
      [] d.t = "finger" -> <<v.id + IF v.active THEN 0 ELSE 128>> \o LE(v.x, 2) \o LE(v.y, 2)

PutAll(m, fields) == FoldLeft(LAMBDA out, d : out \o Put(m, d), <<>>, fields)
PutGroup(m, d) == IF d.t # "if" THEN Put(m, d)
                  ELSE IF Present(m, d) THEN PutAll(m, d.fields) ELSE <<>>
PutGroups(m, fields) == FoldLeft(LAMBDA out, d : out \o PutGroup(m, d), <<>>, fields)

\* A list is its length and then its entries.
PutField(m, d) ==
    IF d.t # "each" THEN PutGroup(m, d)
    ELSE FoldLeft(LAMBDA out, e : out \o PutGroups(e, d.fields), LE(Len(m[d.f]), d.n), m[d.f])

Encode(m, layout) == FoldLeft(LAMBDA out, d : out \o PutField(m, d), <<>>, layout)

-----------------------------------------------------------------------------
(* Reading.  A reader has the bytes, its place in them, what it has read   *)
(* and what went wrong.                                                    *)

Reader(bytes) == [buf |-> bytes, at |-> 0, m |-> <<>>, err |-> "none"]

Failed(r, what) == IF r.err = "none" THEN [r EXCEPT !.err = what] ELSE r
Left(r) == Len(r.buf) - r.at
Taken(r, n) == SubSeq(r.buf, r.at + 1, r.at + n)
With(m, f, v) == [g \in DOMAIN m \cup {f} |-> IF g = f THEN v ELSE m[g]]
Read(r, n, f, v) == [r EXCEPT !.at = r.at + n, !.m = With(r.m, f, v)]

UnsignedOf(b) ==
    FoldLeft(LAMBDA sum, i : sum + b[i] * 256 ^ (i - 1), 0,
             [i \in 1 .. IF Len(b) > 4 THEN 4 ELSE Len(b) |-> i])
SignedOf(b) ==
    LET n == IF Len(b) > 4 THEN 4 ELSE Len(b)
        top == IF b[n] >= 128 THEN b[n] - 256 ELSE b[n]
    IN  UnsignedOf(SubSeq(b, 1, n - 1)) + top * 256 ^ (n - 1)

SetBits(names, byte) == {names[i] : i \in {j \in DOMAIN names : (byte \div 2 ^ (j - 1)) % 2 = 1}}

\* Every lead byte (here 192 ..) is followed by its continuation.
IsUtf8(s) == \A i \in DOMAIN s :
    /\ s[i] \in 128 .. 191 => i > 1 /\ s[i - 1] >= 192
    /\ s[i] >= 192 => i < Len(s) /\ s[i + 1] \in 128 .. 191

\* The length in front of a run of bytes, and the run.
GetRun(r, d, max, isText) ==
    LET len == UnsignedOf(Taken(r, d.n))
        run == SubSeq(r.buf, r.at + d.n + 1, r.at + d.n + len)
    IN  IF len > max THEN Failed(r, "range")
        ELSE IF Left(r) < d.n + len THEN Failed(r, "truncated")
        ELSE IF isText /\ ~IsUtf8(run) THEN Failed(r, "utf8")
        ELSE Read(r, d.n + len, d.f, run)

Get(r, d) ==
    LET b == Taken(r, d.n) IN
    IF r.err # "none" THEN r
    ELSE IF d.t = "trailing" THEN Read(r, d.n, d.f, IF Left(r) = 0 THEN TRUE ELSE b[1] # 0)
    ELSE IF Left(r) < d.n THEN Failed(r, "truncated")
    ELSE CASE d.t = "unsigned" -> Read(r, d.n, d.f, UnsignedOf(b))
           [] d.t = "signed" -> Read(r, d.n, d.f, SignedOf(b))
           [] d.t = "raw" -> Read(r, d.n, d.f, b)
           [] d.t = "bool" -> Read(r, d.n, d.f, b[1] # 0)
           [] d.t = "bits" -> Read(r, d.n, d.f, SetBits(d.names, b[1]))
           [] d.t = "enum" -> IF b[1] \in d.known THEN Read(r, 1, d.f, b[1]) ELSE Failed(r, "range")
           [] d.t = "prefer" -> Read(r, 1, d.f, IF b[1] \in d.known THEN b[1] ELSE 255)
           [] d.t = "pad" -> IF b[1] < MaxPads THEN Read(r, 1, d.f, b[1]) ELSE Failed(r, "range")
           [] d.t \in {"string", "clip"} -> GetRun(r, d, 255, TRUE)
           [] d.t = "data" -> GetRun(r, d, d.max, FALSE)
           [] d.t = "finger" -> Read(r, 5, d.f,
                [active |-> b[1] < 128, id |-> b[1] % 128,
                 x |-> UnsignedOf(SubSeq(b, 2, 3)), y |-> UnsignedOf(SubSeq(b, 4, 5))])

GetGroup(r, d) == IF d.t # "if" THEN Get(r, d)
                  ELSE IF r.err = "none" /\ Present(r.m, d) THEN FoldLeft(Get, r, d.fields) ELSE r

\* One entry of a list, read into a message of its own and appended.
GetEntry(r, d) ==
    LET e == FoldLeft(GetGroup, [r EXCEPT !.m = <<>>], d.fields)
    IN  [e EXCEPT !.m = With(r.m, d.f, Append(r.m[d.f], e.m))]

GetField(r, d) ==
    IF d.t # "each" THEN GetGroup(r, d)
    ELSE IF r.err # "none" THEN r
    ELSE IF Left(r) < d.n THEN Failed(r, "truncated")
    ELSE LET count == UnsignedOf(Taken(r, d.n))
             first == Read(r, d.n, d.f, <<>>)
         IN  FoldLeft(LAMBDA s, i : IF s.err = "none" THEN GetEntry(s, d) ELSE s,
                      first, [i \in 1 .. count |-> i])

Decode(bytes, layout) == FoldLeft(GetField, Reader(bytes), layout)

=============================================================================
