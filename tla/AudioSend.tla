-------------------------------- MODULE AudioSend --------------------------------
(***************************************************************************)
(* The server's audio thread (audio_loop of server/audio_pipeline.rs,      *)
(* drain_into of audio/capture.rs, FrameAccumulator and IdleFill of        *)
(* audio/pcm.rs): what the endpoint delivers is regrouped into frames,     *)
(* and when it delivers nothing silence takes their place.                 *)
(*                                                                         *)
(* Samples are counted in the time they last, milliseconds.                *)
(***************************************************************************)
EXTENDS Integers

CONSTANTS
    FrameSizes, \* the frame durations a session may be configured for
    Period,     \* the audio engine's: how much it delivers at once
    Grace,      \* IDLE_GRACE_US
    PollGaps,   \* time between two polls: the cases to try
    MaxTurns,   \* bound: times something starts or stops playing
    MaxFailures,\* bound: drains that fail
    MaxTime     \* bound

(* 30 ms are three periods of the engine: more than a frame and a period,  *)
(* and than a frame of silence and the whole periods too short for a frame *)
(* of sound.                                                               *)
SendBounds ==
    /\ FrameSizes \cup PollGaps \cup {Period, Grace} \subseteq Nat \ {0}
    /\ \A f \in FrameSizes : f + Period <= Grace
    /\ \A f \in FrameSizes : \A n \in 0 .. f : n * Period < f => f + n * Period <= Grace
    /\ \E g \in PollGaps : \A h \in PollGaps : h <= g

VARIABLES
    now,
    frame,    \* frame_len
    playing,  \* something plays to the endpoint
    due,      \* when the engine delivers its next period
    waiting,  \* what loopback capture holds
    acc,      \* FrameAccumulator.buf
    silence,  \* next_silence_us
    real, still, \* frames sent, of sound and of silence
    lastSent, \* when the last of them left
    turns, failures

vars == <<now, frame, playing, due, waiting, acc, silence, real, still, lastSent, turns, failures>>

Init ==
    /\ now = 0 /\ frame \in FrameSizes
    /\ playing \in BOOLEAN /\ due = Period /\ waiting = 0
    /\ acc = 0 /\ silence = Grace
    /\ real = 0 /\ still = 0 /\ lastSent = 0
    /\ turns = 0 /\ failures = 0

\* An application starts or stops playing; a started engine's first period takes
\* a whole one to fill.
Turn ==
    /\ turns < MaxTurns /\ turns' = turns + 1
    /\ playing' = ~playing
    /\ due' = now + Period
    /\ UNCHANGED <<now, frame, waiting, acc, silence, real, still, lastSent, failures>>

\* What the engine hands to loopback capture while the thread sleeps: nothing at
\* all when nothing plays.
Delivered(until) == IF playing /\ due <= until THEN (until - due) \div Period + 1 ELSE 0

\* on_poll: silence only once the endpoint has been idle for the grace, and then
\* at the frames' own rate.
FillEveryPoll(frames, at) == IF frames > 0 THEN 0 ELSE 1
Fill(frames, at) ==
    IF frames > 0 \/ at < silence THEN 0 ELSE (at - silence) \div frame + 1

Sleep(gap) ==
    /\ now + gap <= MaxTime
    /\ now' = now + gap
    /\ due' = due + Delivered(now') * Period

\* A pass of the loop: everything that waits, in whole frames.
Poll ==
    /\ \E gap \in PollGaps :
        /\ Sleep(gap)
        /\ LET got == acc + waiting + Delivered(now') * Period
               frames == got \div frame
               fill == Fill(frames, now')
           IN  /\ waiting' = 0 /\ acc' = got % frame
               /\ real' = real + frames /\ still' = still + fill
               /\ silence' = IF frames > 0 THEN now' + Grace ELSE silence + fill * frame
               /\ lastSent' = IF frames + fill > 0 THEN now' ELSE lastSent
    /\ UNCHANGED <<frame, playing, turns, failures>>

\* The drain fails: nothing is taken and nothing is filled in.
FailedPoll ==
    /\ failures < MaxFailures /\ failures' = failures + 1
    /\ \E gap \in PollGaps :
        /\ Sleep(gap)
        /\ waiting' = waiting + Delivered(now') * Period
    /\ UNCHANGED <<frame, playing, acc, silence, real, still, lastSent, turns>>

Next == Turn \/ Poll \/ FailedPoll

Spec == Init /\ [][Next]_vars

-----------------------------------------------------------------------------

\* However polls and periods fall together, the stream runs ahead of real time by
\* no more than a period for each time something started or stopped playing
\* (pcm.rs: silence spliced into real audio was "sending ~1.2x real time"), and
\* never stands still for longer than the grace and the polls that failed.
LongestGap == CHOOSE g \in PollGaps : \A h \in PollGaps : h <= g
StreamKeepsTime ==
    /\ (real + still) * frame <= now + turns * Period
    /\ now - lastSent <= Grace + (failures + 1) * LongestGap

-----------------------------------------------------------------------------
(* Why it does: what left and what waits is never more than has played     *)
(* (Elapsed) and a period for each turn, and since the last frame of       *)
(* sound, n periods and turns - before turns ago, no more than that and    *)
(* the silence filled in.  Where sound went on all that time, those n      *)
(* periods follow each other.                                              *)

Elapsed == IF playing THEN due - Period ELSE now
Taken == (real + still) * frame + acc + waiting

TypeOK ==
    /\ frame \in FrameSizes /\ playing \in BOOLEAN
    /\ now \in Nat /\ due \in Nat /\ waiting \in Nat /\ acc \in Nat /\ silence \in Nat
    /\ real \in Nat /\ still \in Nat /\ lastSent \in Nat /\ turns \in Nat /\ failures \in Nat

SinceSound(n, before) ==
    /\ n * Period <= acc + waiting
    /\ Taken <= silence - Grace + n * Period + before * Period
    /\ playing /\ before = turns => due <= silence - Grace + Period + n * Period

SendInv ==
    /\ TypeOK
    /\ playing => now < due /\ due <= now + Period
    /\ Taken <= Elapsed + turns * Period
    /\ \E n \in 0 .. acc + waiting, before \in 0 .. turns : SinceSound(n, before)
    /\ silence <= lastSent + Grace
    /\ now <= lastSent + Grace + failures * LongestGap
=============================================================================
