------------------------------ MODULE Playout ------------------------------
(***************************************************************************)
(* What the client plays server audio from: the ring between the thread    *)
(* that decodes packets and AAudio's real-time callback, the cushion that  *)
(* callback waits for, and the trim past which decoded audio is dropped    *)
(* (sunburst-android playout.rs and AudioPlayer of audio.rs).              *)
(*                                                                         *)
(* Levels are counted in samples, scaled down; a packet is Frame samples.  *)
(* The peak's slow decay is one sample or none at each arrival.  The order *)
(* of packets and what is concealed are AudioReorder's: here one packet    *)
(* yields one to MaxChunks chunks.                                         *)
(***************************************************************************)
EXTENDS Integers

CONSTANTS
    Frame,          \* samples of one packet
    Burst,          \* samples AAudio pulls per callback
    Channels,       \* samples of one sample frame: what a slip drops
    MaxPeakFrames,  \* MAX_PEAK_FRAMES
    SlackFrames,    \* SLACK_FRAMES
    TrimFrames,     \* TRIM_SLACK_FRAMES
    Windows,        \* MARGIN_WINDOWS
    Capacity,       \* samples the ring holds
    MaxChunks,      \* most chunks one packet yields
    MaxGap,         \* bound: the longest gap between packets, in samples
    MaxUnderruns    \* bound: underruns counted

VARIABLES
    jitter,     \* Cushion: [peak, margins, next, seen, drain, slip]
    target,     \* the published cushion; None until the stream is open
    lowest,     \* the lowest level the callback saw in this window; None
    underruns,  \* underruns the callback counted
    taken,      \* those the cushion has taken in
    arrived,    \* a packet has arrived before
    chunks,     \* decoded chunks of the packet being fed, still to be queued
    level,      \* samples in the ring
    primed,     \* Gate.primed
    cut         \* history: the ring dropped samples it had no room for

vars == <<jitter, target, lowest, underruns, taken, arrived, chunks, level, primed, cut>>

None == -1

(* The room audio.rs reserves, as its comment derives it: the largest      *)
(* cushion and trim, and the packet that reaches it.                       *)
PlayoutBounds ==
    /\ Frame \in Nat \ {0} /\ Burst \in Nat \ {0} /\ Channels \in 1..(Frame - 1)
    /\ {MaxPeakFrames, Windows, MaxChunks} \subseteq Nat \ {0}
    /\ {SlackFrames, TrimFrames, MaxGap, MaxUnderruns} \subseteq Nat
    /\ Capacity \in Nat
    /\ Capacity >= Burst + (2 * MaxPeakFrames + SlackFrames + TrimFrames + 1) * Frame

----------------------------------------------------------------------------
(* Cushion                                                                 *)

Lesser(a, b) == IF a < b THEN a ELSE b
Greater(a, b) == IF a > b THEN a ELSE b
Least(margins) == margins[CHOOSE i \in 1..Windows : \A k \in 1..Windows : margins[i] <= margins[k]]

(* Mutant: the peak is kept at least a packet, and never held down.        *)
ClampBelow(peak) == Greater(peak, Frame)
Clamp(peak) == Lesser(Greater(peak, Frame), MaxPeakFrames * Frame)

TargetOf(j) == Burst + j.peak + SlackFrames * Frame
TrimAbove(j) == TargetOf(j) + j.peak + TrimFrames * Frame

OnArrival(j, gap, decay) ==
    [j EXCEPT !.peak = Clamp(Greater(@ - decay, gap))]

(* on_underrun, once for every underrun since the last packet (clamping at *)
(* the end is clamping each time): the link has more jitter than measured, *)
(* so the drain and the margins that called for it go.                     *)
OnUnderruns(j, n) ==
    IF n = 0 THEN j
    ELSE [j EXCEPT !.peak = Clamp(@ + n * Frame), !.drain = 0, !.seen = 0]

(* A window ended: once every window of the last few stayed above the      *)
(* cushion by more than a packet, the smallest surplus is drained.         *)
OnMargin(j, low) ==
    LET margins == [j.margins EXCEPT ![j.next] = low]
        seen == Lesser(j.seen + 1, Windows)
        surplus == Least(margins) - TargetOf(j)
    IN  [j EXCEPT !.margins = margins,
                  !.next = (@ % Windows) + 1,
                  !.seen = seen,
                  !.drain = IF seen < Windows THEN @
                            ELSE IF surplus > Frame THEN surplus ELSE 0]

(* One sample frame goes from every other packet while surplus is left.    *)
Slips(j) == j.drain >= Channels /\ ~j.slip
AfterSlip(j) ==
    IF j.drain < Channels THEN j
    ELSE [j EXCEPT !.slip = ~@, !.drain = IF j.slip THEN @ ELSE @ - Channels]

----------------------------------------------------------------------------
Init ==
    /\ jitter = [peak |-> Frame, margins |-> [i \in 1..Windows |-> 0], next |-> 1,
                 seen |-> 0, drain |-> 0, slip |-> FALSE]
    /\ target = None
    /\ lowest = None
    /\ underruns = 0 /\ taken = 0
    /\ arrived = FALSE
    /\ chunks = 0
    /\ level = 0
    /\ primed = FALSE
    /\ cut = FALSE

(* AudioPlayer::new publishes the cushion before the stream starts.        *)
Open ==
    /\ target = None
    /\ target' = TargetOf(jitter)
    /\ UNCHANGED <<jitter, lowest, underruns, taken, arrived, chunks, level, primed, cut>>

(* AudioPlayer::feed up to the decode: the gap to the last packet, the     *)
(* underruns since, at the end of a window the lowest level, and the       *)
(* cushion published from all three.                                       *)
Size(gap, decay, windowEnds, n) ==
    LET sized == OnUnderruns(IF arrived THEN OnArrival(jitter, gap, decay) ELSE jitter,
                             underruns - taken)
    IN  /\ target # None
        /\ chunks = 0
        /\ jitter' = IF windowEnds /\ lowest # None THEN OnMargin(sized, lowest) ELSE sized
        /\ lowest' = IF windowEnds THEN None ELSE lowest
        /\ target' = TargetOf(jitter')
        /\ taken' = underruns
        /\ arrived' = TRUE
        /\ chunks' = n
        /\ UNCHANGED <<underruns, level, primed, cut>>

(* One decoded chunk: queued unless the ring is over the trim, whole or    *)
(* one sample frame shorter; the callback may have pulled since Size.      *)
Admits == level <= TrimAbove(jitter)

Queue ==
    /\ chunks > 0
    /\ chunks' = chunks - 1
    /\ IF Admits
       THEN LET kept == IF Slips(jitter) THEN Frame - Channels ELSE Frame
            IN  /\ level' = Lesser(level + kept, Capacity)
                /\ cut' = (cut \/ level + kept > Capacity)
                /\ jitter' = AfterSlip(jitter)
       ELSE UNCHANGED <<level, cut, jitter>>
    /\ UNCHANGED <<target, lowest, underruns, taken, arrived, primed>>

(* A chunk that fails to decode, or one when the TV is not on the route.   *)
Skip ==
    /\ chunks > 0
    /\ chunks' = chunks - 1
    /\ UNCHANGED <<jitter, target, lowest, underruns, taken, arrived, level, primed, cut>>

(* Gate::should_play: once the ring holds the cushion, until it runs dry.  *)
Plays == primed \/ level >= target

Callback ==
    /\ target # None
    /\ underruns < MaxUnderruns
    /\ lowest' = IF lowest = None THEN level ELSE Lesser(lowest, level)
    /\ level' = IF Plays THEN Greater(level - Burst, 0) ELSE level
    /\ primed' = (Plays /\ level >= Burst)
    /\ underruns' = IF Plays /\ level < Burst THEN underruns + 1 ELSE underruns
    /\ UNCHANGED <<jitter, target, taken, arrived, chunks, cut>>

Next ==
    \/ Open
    \/ \E gap \in 0..MaxGap, decay \in 0..1, w \in BOOLEAN, n \in 1..MaxChunks :
           Size(gap, decay, w, n)
    \/ Queue
    \/ Skip
    \/ Callback

Spec == Init /\ [][Next]_vars

----------------------------------------------------------------------------
(* "Both bound the audio buffer, so A/V offset cannot grow without limit"  *)
(* (audio_ring.rs:13-14), and the room reserved in AudioPlayer::new is     *)
(* enough (audio.rs:110-113): whatever the gaps, the underruns and the     *)
(* order of callback and decoder, what waits to be played stays within the *)
(* largest trim and one packet, the ring itself never has to drop samples, *)
(* and the callback is never left waiting for a cushion the trim would not *)
(* let the ring reach.                                                     *)
DelayIsBounded ==
    /\ level <= Burst + (2 * MaxPeakFrames + SlackFrames + TrimFrames + 1) * Frame
    /\ ~cut
    /\ target # None => target <= TrimAbove(jitter)

----------------------------------------------------------------------------
(* Why it is: the peak is clamped wherever it changes, and every change of *)
(* the cushion is published.                                               *)
JitterOK ==
    jitter \in [peak : Frame .. MaxPeakFrames * Frame, margins : [1 .. Windows -> Nat],
                next : 1 .. Windows, seen : 0 .. Windows, drain : Nat, slip : BOOLEAN]

PlayInv ==
    /\ JitterOK
    /\ lowest \in Nat \cup {None} /\ underruns \in Nat /\ taken \in 0 .. underruns
    /\ chunks \in Nat /\ level \in Nat
    /\ level <= Burst + (2 * MaxPeakFrames + SlackFrames + TrimFrames + 1) * Frame
    /\ ~cut
    /\ target # None => target = TargetOf(jitter)
=============================================================================
