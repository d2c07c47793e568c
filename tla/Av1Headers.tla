----------------------------- MODULE Av1Headers -----------------------------
(***************************************************************************)
(* The two facts the server works out about an AV1 stream when it sets an  *)
(* encoder up (sunburst-core/src/codec/av1.rs): the tile grid it asks for  *)
(* and a decoder derives, and what the encoder's own sequence header says. *)
(* Both are pure functions: a behaviour takes one input and answers it.    *)
(***************************************************************************)
EXTENDS Naturals, Sequences, FiniteSets

CONSTANTS
    Width, Height, \* picture sizes to try
    Units,         \* subframe units asked for
    Level,         \* seq_level_idx values to try
    Points,        \* how many operating points a header may have
    Cut            \* how many of a header's bits may be missing at the end

VARIABLES
    asked,  \* the input: a grid or a header
    answer  \* the output, "none" before it

vars == <<asked, answer>>

-----------------------------------------------------------------------------
(* The tile grid.                                                          *)

Min2(a, b) == IF a < b THEN a ELSE b
Max2(a, b) == IF a > b THEN a ELSE b
Clamp(x, lo, hi) == Max2(lo, Min2(x, hi))
CeilDiv(a, b) == (a + b - 1) \div b

\* MaxTiles and MaxTileCols of a level (Annex A.3).
LevelTileLimits(level) ==
    CASE level <= 3 -> <<8, 4>> [] level \in 4 .. 7 -> <<16, 6>>
      [] level \in 8 .. 11 -> <<32, 8>> [] level \in 12 .. 15 -> <<64, 8>>
      [] level \in 16 .. 19 -> <<128, 16>> [] level \in 20 .. 23 -> <<256, 32>>
      [] OTHER -> <<64 * 64, 64>>

\* tile_log2: the smallest k with blk << k >= target.
TileLog2(blk, target) == CHOOSE k \in 0 .. 16 : blk * 2 ^ k >= target /\ (k > 0 => blk * 2 ^ (k - 1) < target)

\* A frame's superblocks, and the limits of uniform tiling.
Geometry(w, h, sb128) ==
    LET shift == IF sb128 THEN 5 ELSE 4
        cols == CeilDiv(2 * CeilDiv(w, 8), 2 ^ shift)
        rows == CeilDiv(2 * CeilDiv(h, 8), 2 ^ shift)
        area == (4096 * 2304) \div 2 ^ (2 * (shift + 2))
        minCols == TileLog2(4096 \div 2 ^ (shift + 2), cols)
    IN  [cols |-> cols, rows |-> rows, minCols |-> minCols,
         maxCols |-> TileLog2(1, Min2(cols, 64)), maxRows |-> TileLog2(1, Min2(rows, 64)),
         minTiles |-> Max2(minCols, TileLog2(area, rows * cols))]

MinRows(g, c) == IF g.minTiles > c THEN g.minTiles - c ELSE 0

\* The grid a decoder derives from the two logarithms.
UniformGrid(g, c0, r0) ==
    LET c == Clamp(c0, g.minCols, Max2(g.maxCols, g.minCols))
        r == Clamp(r0, MinRows(g, c), Max2(g.maxRows, MinRows(g, c)))
    IN  [c |-> c, r |-> r,
         cols |-> CeilDiv(g.cols, Max2(CeilDiv(g.cols, 2 ^ c), 1)),
         rows |-> CeilDiv(g.rows, Max2(CeilDiv(g.rows, 2 ^ r), 1))]

NumTiles(grid) == grid.cols * grid.rows
TileBits(grid) == grid.c + grid.r

\* The power of two units are rounded down to.
Log2Down(n) == CHOOSE k \in 0 .. 16 : 2 ^ k <= n /\ n < 2 ^ (k + 1)

\* plan_tiles steps the columns down to the level's limit, gives what is left
\* to the rows, and steps those down until the tiles are few enough.
FewestCols(k, g, limit) ==
    LET from == Clamp(k \div 2, g.minCols, Max2(g.maxCols, g.minCols))
        fits == {c \in g.minCols .. from : 2 ^ c <= limit}
    IN  IF fits = {} THEN g.minCols ELSE CHOOSE c \in fits : \A d \in fits : d <= c

RowsForAll(k, c) == k
AsManyRows(k, c) == IF k > c THEN k - c ELSE 0

FewestRows(g, limits, c, r0) ==
    LET fits == {r \in 0 .. r0 : \/ NumTiles(UniformGrid(g, c, r)) <= limits[1]
                                 \/ r <= MinRows(g, c)}
    IN  IF fits = {} THEN r0 ELSE CHOOSE r \in fits : \A q \in fits : q <= r

\* The grids planned for a geometry: one.
PlanTiles(g, units, limits) ==
    LET k == Log2Down(Clamp(units, 1, limits[1]))
    IN  {UniformGrid(g, c, FewestRows(g, limits, c, AsManyRows(k, c))) :
            c \in {FewestCols(k, g, limits[2])}}

-----------------------------------------------------------------------------
(* The sequence header.                                                    *)

\* n bits of v, the highest first.  Fields of no interest are zero.
Field(n, v) == [i \in 1 .. n |-> IF n - i > 15 THEN 0 ELSE (v \div 2 ^ (n - i)) % 2]
Flag(b) == Field(1, IF b THEN 1 ELSE 0)

\* A header as the AV1 specification writes one.
Header == [reduced : BOOLEAN, timing : BOOLEAN, model : BOOLEAN, delay : BOOLEAN,
           points : Points, level : {5, 13}, tier : {0, 1}, ids : BOOLEAN, sb128 : BOOLEAN]

WritePoint(h) ==
    Field(12, 0) \o Field(5, h.level) \o (IF h.level > 7 THEN Field(1, h.tier) ELSE <<>>)
      \o (IF h.timing /\ h.model THEN Flag(TRUE) \o Field(3, 0) \o Field(3, 0) \o Flag(FALSE) ELSE <<>>)
      \o (IF h.delay THEN Flag(TRUE) \o Field(4, 0) ELSE <<>>)

Write(h) ==
    Field(3, 0) \o Flag(FALSE) \o Flag(h.reduced)
      \o (IF h.reduced THEN Field(5, h.level)
          ELSE Flag(h.timing)
                 \o (IF h.timing
                       THEN Field(64, 0) \o Flag(TRUE) \o <<0, 1, 1>> \o Flag(h.model)
                              \o (IF h.model THEN Field(5, 2) \o Field(42, 0) ELSE <<>>)
                       ELSE <<>>)
                 \o Flag(h.delay) \o Field(5, h.points - 1)
                 \o WritePoint(h) \o (IF h.points = 2 THEN WritePoint(h) ELSE <<>>))
      \o Field(4, 3) \o Field(4, 2) \o Field(4, 0) \o Field(3, 0)
      \o (IF h.reduced THEN <<>> ELSE Flag(h.ids) \o (IF h.ids THEN Field(7, 0) ELSE <<>>))
      \o Flag(h.sb128)

\* Bits: f(n) at position p, and where a uvlc() ends.  A read past the end is
\* noticed by ParseCut, from how far the parse went.
F(b, p, n) ==
    LET value[i \in 0 .. n] == IF i = 0 THEN 0 ELSE
                2 * value[i - 1] + (IF p + i \in DOMAIN b THEN b[p + i] ELSE 0)
    IN  value[n]
IsSet(b, p) == F(b, p, 1) = 1
UvlcEnd(b, p) ==
    LET zeros == CHOOSE k \in 0 .. 31 : (k = 31 \/ IsSet(b, p + k))
                                         /\ \A j \in 0 .. k - 1 : ~IsSet(b, p + j)
    IN  p + 2 * zeros + 1

\* parse_sequence_header, field after field: where each group ends.
AfterTiming(b, p) ==
    LET equal == p + 64
        model == IF IsSet(b, equal) THEN UvlcEnd(b, equal + 1) ELSE equal + 1
    IN  IF IsSet(b, model) THEN [pos |-> model + 48, delay |-> F(b, model + 1, 5) + 1, model |-> TRUE]
        ELSE [pos |-> model + 1, delay |-> 0, model |-> FALSE]

TierAlways(level) == TRUE
HasTier(level) == level > 7

PointAt(b, p, t, display) ==
    LET level == F(b, p + 12, 5)
        tiered == p + 17 + (IF HasTier(level) THEN 1 ELSE 0)
        modelled == IF ~t.model THEN tiered
                    ELSE tiered + 1 + (IF IsSet(b, tiered) THEN 2 * t.delay + 1 ELSE 0)
        displayed == IF ~display THEN modelled
                     ELSE modelled + 1 + (IF IsSet(b, modelled) THEN 4 ELSE 0)
    IN  [pos |-> displayed, level |-> level,
         tier |-> IF HasTier(level) THEN F(b, p + 17, 1) ELSE 0]

\* The first operating point, and where the last one ends, after the timing t.
PointsOf(b, t) ==
    LET display == IsSet(b, t.pos)
        count == F(b, t.pos + 1, 5) + 1
        end[i \in 0 .. count] ==
            IF i = 0 THEN t.pos + 6 ELSE PointAt(b, end[i - 1], t, display).pos
        first == PointAt(b, t.pos + 6, t, display)
    IN  [pos |-> end[count], level |-> first.level, tier |-> first.tier]

TimingOf(b) == IF IsSet(b, 5) THEN AfterTiming(b, 6) ELSE [pos |-> 6, delay |-> 0, model |-> FALSE]

Reduced(b) == IsSet(b, 4)
LevelsOf(b) == IF Reduced(b) THEN {[pos |-> 10, level |-> F(b, 5, 5), tier |-> 0]}
               ELSE {PointsOf(b, t) : t \in {TimingOf(b)}}

\* A header cut short is not parsed: the reader runs past the end.
Unparsed == [level |-> 99, tier |-> 0, sb128 |-> FALSE]

\* From the frame's size on, after the operating points.
Finish(b, points, sizes, end) ==
    LET flag == IF Reduced(b) THEN sizes ELSE sizes + 1 + (IF IsSet(b, sizes) THEN 7 ELSE 0)
    IN  IF flag + 1 > end THEN Unparsed
        ELSE [level |-> points.level, tier |-> points.tier, sb128 |-> IsSet(b, flag)]
AfterSizes(b, p) == p + 8 + F(b, p, 4) + 1 + F(b, p + 4, 4) + 1

\* What a header is parsed as, cut short by so many bits: one thing.
ParseCut(bits, cut) ==
    {Finish(bits, points, AfterSizes(bits, points.pos), Len(bits) - cut) :
        points \in LevelsOf(bits)}

-----------------------------------------------------------------------------

Grids == [kind : {"grid"}, w : Width, h : Height, units : Units, level : Level, sb128 : BOOLEAN]
Headers == [kind : {"header"}, h : Header, cut : Cut]

Init == asked \in Grids \cup Headers /\ answer = <<>>

PlanGrid ==
    /\ answer = <<>> /\ asked.kind = "grid"
    /\ \E g \in {Geometry(asked.w, asked.h, asked.sb128)} :
       \E grid \in PlanTiles(g, asked.units, LevelTileLimits(asked.level)) :
        answer' = <<grid>>
    /\ UNCHANGED asked

ParseHeader ==
    /\ answer = <<>> /\ asked.kind = "header"
    /\ \E bits \in {Write(asked.h)} : \E said \in ParseCut(bits, asked.cut) :
        answer' = <<said>>
    /\ UNCHANGED asked

Next == PlanGrid \/ ParseHeader

Spec == Init /\ [][Next]_vars

-----------------------------------------------------------------------------

\* The planned grid is one the level allows, unless the picture forces more
\* tiles; it has no more tiles than were asked for, with the same exception;
\* its real count fits the tile-group fields that name the last tile, and the
\* decoder derives the same grid again from its logarithms.
GridIsLegal ==
    asked.kind = "grid" /\ answer # <<>> =>
        LET grid == answer[1]
            limits == LevelTileLimits(asked.level)
        IN  \A g \in {Geometry(asked.w, asked.h, asked.sb128)} :
            /\ grid.cols <= limits[2] \/ grid.c = g.minCols
            /\ NumTiles(grid) <= Max2(Min2(asked.units, limits[1]),
                                      NumTiles(UniformGrid(g, g.minCols, 0)))
            /\ NumTiles(grid) - 1 < 2 ^ TileBits(grid)
            /\ UniformGrid(g, grid.c, grid.r) = grid

\* What is parsed is what was written, whatever optional groups stand before
\* the fields that matter; a header cut short is refused, never misread.
ParsedAsWritten ==
    asked.kind = "header" /\ answer # <<>> =>
        answer[1] = IF asked.cut > 0 THEN Unparsed
                    ELSE [level |-> asked.h.level, sb128 |-> asked.h.sb128,
                          tier |-> IF asked.h.reduced \/ asked.h.level <= 7 THEN 0
                                   ELSE asked.h.tier]
=============================================================================
