----------------------------- MODULE CapturePath -----------------------------
(***************************************************************************)
(* What the GPU thread captures with and encodes on: the capture backends  *)
(* of sunburst-capture, the converters and the encoder set-up of           *)
(* sunburst-encode, and how gpu_loop of sunburst-server/src/pipeline.rs    *)
(* builds, rebuilds and drops them.  Which frame is encoded is FrameLoop;  *)
(* what the encoder makes of it is SubframeDrain.                          *)
(*                                                                         *)
(* The desktop is Windows': it changes its size and its HDR state, is      *)
(* hidden for a while, and takes the capture away, under the loop.  A      *)
(* surface is its size and colour; a CUDA context is the number of the     *)
(* capture that made it.                                                   *)
(***************************************************************************)
EXTENDS Naturals, Sequences

CONSTANTS
    Codec,        \* the codecs to try, of {"hevc", "h264"} (AV1 is as HEVC)
    Size,         \* desktop sizes
    MaxFrames,    \* bound: frames encoded
    MaxChanges,   \* bound: changes of the desktop
    MaxFailures   \* bound: constructors that fail

PathBounds == {MaxFrames, MaxChanges, MaxFailures} \subseteq Nat

VARIABLES
    session,   \* PipelineParams: codec, hdr, nvfbc, and whether WGC comes first
    desktop,   \* the desktop as it is
    capture,   \* the capture backend
    spine,     \* the converter and the encoder
    color,     \* current_color
    state,     \* where the loop is: "top", "converted" or "ended"
    reading,   \* the GPU still reads the captured surface
    contexts,  \* the thread's stack of CUDA contexts
    encoding,  \* need_keyframe and frame_id of Encoding
    told,      \* the CodecHeaders sent last
    sent,      \* the frame encoded last
    changes, failures, builds

vars == <<session, desktop, capture, spine, color, state, reading, contexts,
          encoding, told, sent, changes, failures, builds>>

None == [kind |-> "none"]

-----------------------------------------------------------------------------
(* Capture: select.rs and the three backends.                              *)

\* The backends to try, in order.  NvFBC is only ever opted into, and what it
\* cannot do falls back to the two others.
D3dOrder(s) == IF s.win11 THEN <<"wgc", "dda">> ELSE <<"dda", "wgc">>
Order(s) == IF s.nvfbc THEN <<"nvfbc">> \o D3dOrder(s) ELSE D3dOrder(s)

\* What the output of the desktop says of itself: its size, whether it is in
\* HDR, and then what its display can show.
Monitor == [hdr |-> desktop.hdr, size |-> desktop.size, mastering |-> desktop.hdr]

\* What each backend keeps of it when it is made.  NvFBC is asked for HDR when
\* the session or the desktop is, and looks at the monitor only then.
DdaNew == [kind |-> "dda", hdr |-> Monitor.hdr, size |-> Monitor.size,
           mastering |-> Monitor.mastering, id |-> builds + 1]
WgcNew == [kind |-> "wgc", hdr |-> Monitor.hdr, size |-> Monitor.size,
           mastering |-> Monitor.mastering, id |-> builds + 1]
NvFbcNew == [kind |-> "nvfbc", hdr |-> session.hdr \/ Monitor.hdr, size |-> Monitor.size,
             mastering |-> Monitor.mastering, id |-> builds + 1]

BackendNew(kind) == IF kind = "dda" THEN DdaNew ELSE IF kind = "wgc" THEN WgcNew ELSE NvFbcNew

\* build: the first backend that can be made, the failures before it counted.
\* NvFBC makes a CUDA context and leaves it current.
Build(stack) ==
    \E i \in 1 .. Len(Order(session)) :
        /\ failures + i - 1 <= MaxFailures /\ failures' = failures + i - 1
        /\ capture' = BackendNew(Order(session)[i])
        /\ builds' = builds + 1
        /\ contexts' = IF Order(session)[i] = "nvfbc" THEN Append(stack, builds + 1) ELSE stack

\* None could be made.
BuildFails ==
    /\ failures + Len(Order(session)) <= MaxFailures
    /\ failures' = failures + Len(Order(session))

\* NvFbcCapture's drop: its context is taken off if it is the current one.
Without(stack, c) ==
    IF stack # <<>> /\ stack[Len(stack)] = c THEN SubSeq(stack, 1, Len(stack) - 1) ELSE stack
CaptureDropped(stack) == IF capture.kind = "nvfbc" THEN Without(stack, capture.id) ELSE stack

\* The frame acquire hands out.  NvFBC says of each grab how large and whether
\* HDR it is; the two others repeat what they saw when they were made.
DdaFrame == [kind |-> "d3d11", hdr |-> capture.hdr, size |-> capture.size]
WgcFrame == [kind |-> "d3d11", hdr |-> capture.hdr, size |-> capture.size]
NvFbcFrame == [kind |-> "cuda", hdr |-> desktop.hdr, size |-> desktop.size]

Grabbed == IF capture.kind = "nvfbc" THEN NvFbcFrame
           ELSE IF capture.kind = "dda" THEN DdaFrame ELSE WgcFrame

-----------------------------------------------------------------------------
(* The spine: build_and_convert, the converters, the encoder.              *)

HdrOut(frame) == frame.hdr /\ session.hdr

\* ConvertOutput, by what was captured and what the session may send.
Output(frame) ==
    IF session.codec = "h264" THEN "nv12" ELSE IF HdrOut(frame) THEN "p010" ELSE "p010sdr"

\* The colorimetry the encoder is given, and writes into the VUI.
Vui(output) == IF output = "p010" THEN "bt2020pq" ELSE "bt709"

\* The shader the D3D11 converter compiles and the kernel the CUDA one loads:
\* an HDR source is tonemapped when the output is SDR.
Shader(output, source) ==
    IF output = "p010" THEN <<"pq">> ELSE <<output, IF source THEN "tonemap" ELSE "plain">>
Kernel(output, source) ==
    IF output = "p010" THEN <<"pq">> ELSE <<output, IF source THEN "tonemap" ELSE "plain">>

\* The target a converter writes.
Target(frame) == [output |-> Output(frame), size |-> frame.size]

\* EncoderConfig, and the preset tuned by it: the VUI, and the metadata the
\* display reported when the capture was made, only for HDR.
Config(frame) == [size |-> frame.size, vui |-> Vui(Output(frame)),
                  mastering |-> HdrOut(frame) /\ capture.mastering]
Preset(c) == [vui |-> c.vui, metadata |-> c.mastering]
InitParams(c) == [size |-> c.size, preset |-> Preset(c)]

D3dSpine(frame) == [kind |-> "d3d11", shader |-> Shader(Output(frame), frame.hdr),
                    target |-> Target(frame), encoder |-> InitParams(Config(frame))]
CudaSpine(frame) == [kind |-> "cuda", shader |-> Kernel(Output(frame), frame.hdr),
                     target |-> Target(frame), encoder |-> InitParams(Config(frame))]
SpineOf(frame) == IF frame.kind = "cuda" THEN CudaSpine(frame) ELSE D3dSpine(frame)

KeepsContext(stack) == stack

\* CudaConverter's drop takes the context it pushed off again.
SpineDropped(stack) == IF spine.kind = "cuda" THEN Without(stack, capture.id) ELSE stack

ColourKept(output) == FALSE

\* A spine is kept while the colour path stays what it was.
ColourChanged(output) == color # output
Kept(frame) == spine.kind = frame.kind /\ ~ColourChanged(Output(frame))

\* ColorInfo as the client is told it.
ColorInfo(s) == IF session.codec = "h264" THEN "sdr709x8"
                ELSE IF s.encoder.preset.vui = "bt709" THEN "sdr709x10" ELSE "hdr10"

Headers(s) == [kind |-> "headers", color |-> ColorInfo(s), size |-> s.encoder.size,
               mastering |-> s.encoder.preset.metadata, first |-> encoding.id]

NothingOwed == FALSE

\* A new spine opens on a keyframe.
OwedByBuild == TRUE

-----------------------------------------------------------------------------
(* gpu_loop.                                                               *)

Init ==
    /\ session \in [codec : Codec, hdr : BOOLEAN, nvfbc : BOOLEAN, win11 : BOOLEAN]
    /\ session.hdr => session.codec # "h264"
    /\ desktop \in [hdr : BOOLEAN, size : Size, hidden : {FALSE}, lost : {FALSE}]
    /\ capture = None /\ spine = None /\ color = "none"
    /\ state = "start" /\ reading = FALSE /\ contexts = <<>>
    /\ encoding = [key |-> TRUE, id |-> 0]
    /\ told = None /\ sent = None
    /\ changes = 0 /\ failures = 0 /\ builds = 0

Start ==
    /\ state = "start"
    /\ Build(contexts)
    /\ state' = "top"
    /\ UNCHANGED <<session, desktop, spine, color, reading, encoding, told, sent, changes>>

\* The desktop changes.  A duplication or an NvFBC session is lost by it; WGC
\* goes on with what it knew.
DesktopChanges ==
    /\ changes < MaxChanges /\ changes' = changes + 1
    /\ \E h \in BOOLEAN, s \in Size, hidden \in BOOLEAN :
        /\ <<h, s, hidden>> # <<desktop.hdr, desktop.size, desktop.hidden>>
        /\ \E lost \in BOOLEAN :
            /\ desktop.lost => lost
            /\ capture.kind = "dda" /\ <<h, s>> # <<desktop.hdr, desktop.size>> => lost
            /\ capture.kind = "nvfbc" /\ s # desktop.size => lost
            /\ desktop' = [hdr |-> h, size |-> s, hidden |-> hidden, lost |-> lost]
    /\ UNCHANGED <<session, capture, spine, color, state, reading, contexts, encoding,
                   told, sent, failures, builds>>

\* A frame arrives, and is converted on the spine, which is built if there is
\* none of its kind and colour: the client is told of every build.  The CUDA
\* convert waits for the GPU, the D3D11 one only submits.
Synchronizes(kind) == kind = "cuda"

Convert ==
    /\ state = "top" /\ ~desktop.lost /\ ~desktop.hidden /\ encoding.id < MaxFrames
    /\ LET frame == Grabbed
           below == IF ColourChanged(Output(frame)) THEN SpineDropped(contexts) ELSE contexts
       IN  IF Kept(frame)
             THEN UNCHANGED <<spine, contexts, encoding, told>>
             ELSE /\ spine' = SpineOf(frame)
                  /\ contexts' = IF frame.kind = "cuda" THEN Append(below, capture.id) ELSE below
                  /\ encoding' = [encoding EXCEPT !.key = encoding.key \/ OwedByBuild]
                  /\ told' = Headers(SpineOf(frame))
    /\ color' = Output(Grabbed)
    /\ reading' = ~Synchronizes(Grabbed.kind)
    /\ state' = "converted"
    /\ UNCHANGED <<session, desktop, capture, sent, changes, failures, builds>>

\* What the encoder makes of the converter's target: each picture carries the
\* metadata, and the opening one is forced to be an IDR.
Picture == [kind |-> "frame", id |-> encoding.id, key |-> encoding.key,
            color |-> ColorInfo(spine), size |-> spine.target.size,
            mastering |-> spine.encoder.preset.metadata]

\* The governor admits the frame.  The encoder's drain waits for its output,
\* and so for the convert before it.
Encode ==
    /\ state = "converted"
    /\ sent' = Picture
    /\ encoding' = [key |-> FALSE, id |-> encoding.id + 1]
    /\ reading' = FALSE /\ state' = "top"
    /\ UNCHANGED <<session, desktop, capture, spine, color, contexts, told, changes,
                   failures, builds>>

\* It is early: the frame is held, and the next acquire releases the surface
\* the convert reads, so the loop waits for the GPU first.
StillReading(busy) == busy
WaitIdle(busy) == FALSE

Hold ==
    /\ state = "converted"
    /\ reading' = WaitIdle(reading) /\ state' = "top"
    /\ UNCHANGED <<session, desktop, capture, spine, color, contexts, encoding, told,
                   sent, changes, failures, builds>>

\* A frame held, or kept for a keyframe owed, is encoded with no new capture.
EncodeKept ==
    /\ state = "top" /\ ~reading /\ spine # None /\ encoding.id < MaxFrames
    /\ sent' = Picture
    /\ encoding' = [key |-> FALSE, id |-> encoding.id + 1]
    /\ UNCHANGED <<session, desktop, capture, spine, color, state, reading, contexts,
                   told, changes, failures, builds>>

\* AccessLost: the spine goes first, then the old capture, and only then is
\* the new one made.
TornDown(stack) == CaptureDropped(SpineDropped(stack))

AccessLost ==
    /\ state = "top" /\ desktop.lost
    /\ spine' = None
    /\ Build(TornDown(contexts))
    /\ desktop' = [desktop EXCEPT !.lost = FALSE]
    /\ encoding' = [encoding EXCEPT !.key = TRUE]
    /\ UNCHANGED <<session, color, state, reading, told, sent, changes>>

\* Unavailable: the desktop is secure or protected.
Unavailable ==
    /\ state = "top" /\ ~desktop.lost /\ desktop.hidden
    /\ capture.kind \in {"dda", "nvfbc"}
    /\ encoding' = [encoding EXCEPT !.key = TRUE]
    /\ UNCHANGED <<session, desktop, capture, spine, color, state, reading, contexts,
                   told, sent, changes, failures, builds>>

\* The stream is stopped, an error is fatal, or no backend can be made.
End ==
    /\ state \in {"start", "top", "converted"}
    /\ \/ UNCHANGED failures
       \/ BuildFails /\ (state = "start" \/ desktop.lost)
    /\ contexts' = TornDown(contexts)
    /\ spine' = None /\ capture' = None
    /\ state' = "ended" /\ reading' = FALSE
    /\ UNCHANGED <<session, desktop, color, encoding, told, sent, changes, builds>>

Next ==
    \/ Start \/ DesktopChanges \/ Convert \/ Encode \/ Hold \/ EncodeKept
    \/ AccessLost \/ Unavailable \/ End

Spec == Init /\ [][Next]_vars

-----------------------------------------------------------------------------

\* Every frame is what the client was last told the stream is: its colour, its
\* size and its metadata, over every change of the desktop and every rebuild,
\* and is converted to the colour path the newest capture asks for;
\* the first frame of a description is a keyframe, and metadata comes with
\* HDR10 only, which ColorInfo::check of the client insists on.
SentAsTold ==
    /\ sent # None =>
        /\ told # None
        /\ sent.id >= told.first =>
            <<sent.color, sent.size, sent.mastering>> = <<told.color, told.size, told.mastering>>
        /\ sent.id = told.first => sent.key
    /\ told # None => (told.mastering => told.color = "hdr10")
    /\ spine # None => ColorInfo(spine) = told.color /\ spine.target.output = color

\* A frame is converted by the shader made for its source (pipeline.rs: "a live
\* HDR<->SDR flip changes `output` and rebuilds the spine below").
FlipsRebuild ==
    [][state' = "converted" /\ state = "top" => 
        spine'.shader = Shader(Output(Grabbed), Grabbed.hdr)]_vars

\* The GPU has read a captured surface before the next acquire, or the loss of
\* the capture, releases it (pipeline.rs: "make sure the GPU is done with it").
NoReadAfterRelease == state = "top" => ~reading

\* An old NvFBC session leaves no context behind: when a capture is made, the
\* only CUDA context on the thread is the one it made, and at the end there is
\* none ("a CUDA context is already current before NvFBC_CreateEx").
ContextsAreBalanced ==
    /\ state = "ended" => contexts = <<>>
    /\ \A i \in DOMAIN contexts : contexts[i] = capture.id
    /\ Len(contexts) <= 2

\* The inductive invariant.  The contexts on the thread are those of the capture and of
\* its spine; the spine is of the capture's kind, and is what the client was last told;
\* and the first frame of a description is still to come, and owed a keyframe, or gone.
ContextsMade ==
    IF capture.kind # "nvfbc" THEN <<>>
    ELSE IF spine.kind = "cuda" THEN <<capture.id, capture.id>> ELSE <<capture.id>>

PathInv ==
    /\ session \in [codec : Codec, hdr : BOOLEAN, nvfbc : BOOLEAN, win11 : BOOLEAN]
    /\ session.hdr => session.codec # "h264"
    /\ state \in {"start", "top", "converted", "ended"}
    /\ state \in {"start", "ended"} => capture = None /\ spine = None
    /\ IF state = "converted" THEN spine # None ELSE ~reading
    /\ contexts = ContextsMade
    /\ spine # None =>
        /\ spine.kind = IF capture.kind = "nvfbc" THEN "cuda" ELSE "d3d11"
        /\ told # None /\ spine.target.size = told.size
        /\ spine.encoder.preset.metadata = told.mastering
    /\ encoding \in [key : BOOLEAN, id : Nat]
    /\ told # None =>
        /\ told.first \in Nat /\ told.first <= encoding.id
        /\ encoding.id = told.first => encoding.key
    /\ sent # None => sent.id \in Nat /\ sent.id < encoding.id
    /\ SentAsTold
=============================================================================
