# Sunburst in TLA+

Sunburst streams a Windows desktop to an Android TV: video, audio, cursor and
control go over one UDP port, and input comes back.  This directory models the
parts of it whose correctness depends on the order of things: what happens when
datagrams are lost, doubled, late or out of order, when a client restarts under
the server's feet, when an encoder is rebuilt in the middle of a stream, when
a thread reads what another is writing, when a save fails between two others.

## Inventory

| part | state it keeps | operations | what is hard | what makes it correct |
|---|---|---|---|---|
| sequence numbers (`sunburst-core/src/proto/seq.rs`) | none; the replay window keeps the newest number and a bitmap | compare, distance, accept | the wrap of 16 and 32 bits | within half the space, modular order is the real one |
| reliable channel (`sunburst-net/src/reliable.rs`) | next number, ack, sent and unacknowledged, held early, epochs | send, on_frame, tick, restart, take_ack | loss, duplication, reordering, wrap, a peer that restarts | in order, once, and kept until delivered |
| server endpoint (`sunburst-net/src/endpoint.rs`) | sessions by client, address book, pairing peers | one handler per packet type, tick | which incarnation of the client a datagram belongs to; keys switching on two ends | nothing of an old incarnation acts on the new |
| stream lifecycle (`sunburst-server/src/session.rs`, `display.rs`) | the one active stream, the UI's disconnect request, what to put back | session_start, session_stop, drain_outbound, the guards | four ways to end a stream, two threads, somebody at the machine | a stream belongs to the session there is, ends with it, and leaves the desktop as it found it |
| client (`sunburst-android/src/client.rs`, `ClientEndpoint`) | channel, keys, the frame loop's locals | Hello, negotiate, receive, input, bye | a server that forgets it; timeouts | agrees with the server on keys; always ends |
| reassembly, jitter buffer, NACKs (`sunburst-net/src/video.rs`) | frame slots, packet pool, abandon log; queue, next expected; what was asked for | push, evict, discard, pop, release, nack_targets, nack_due | late packets of frames given up, storage shared by partial and complete frames | released in order, every gap reported, no hole asked for in bursts |
| keyframe gate (`sunburst-android/src/reconfig.rs`) | first frame of the build, open, time to ask | close, admit, on_fed, on_loss, tick | frames of two builds around a reconfiguration | the decoder gets only what it can decode |
| reference invalidation (`sunburst-net/src/refinval.rs`, `pipeline.rs`) | last 64 frames, newest, recovered through; the pending abandon | on_encoded, on_abandoned, note_abandon | reports late, repeated, coalesced | the next frame does not predict from a lost one |
| GPU thread (`sunburst-server/src/pipeline.rs`, `sunburst-capture`, `sunburst-encode`, `governor.rs`) | capture, converter ("spine"), encoder, CUDA contexts, the governor's clock, the held frame | acquire, convert, hold, encode, rebuild | what is torn down before what; a desktop that changes under the stream | nothing outlives what it was made from; the last picture is shown |
| encoder drain (`encoder.rs`, `codec/av1.rs`) | a picture half written | encode_slices, drain_slices | the driver writes while the units are read | what is sent is the picture |
| send thread (`pipeline.rs`, `spsc.rs`, `send.rs`, `retransmit.rs`) | ring, batch, cache, token bucket | take, batch, flush, answer a NACK | a slot overwritten by a newer frame; packets split by the kernel | the stream is whole, a retransmit is the packet asked for |
| rate control (`rate.rs`) | target, ceiling, windows | on_feedback | reports lost, late, repeated | stays in bounds, probes seldom |
| rings (`spsc.rs`, `instr/ring.rs`, `audio_ring.rs`) | head and tail | push, pop | two threads without a lock | FIFO, no torn slot |
| instrumentation (`core/src/instr`) | a registry of rings, a table of histograms | register, record, drain, report | threads that come and go | each sample counted once or counted as dropped |
| pairing (`proto/pairing.rs`, `sunburst-web/src/pairing.rs`, `store.rs`, `sunburst-android/src/pair.rs`) | armed window, requests, paired clients in memory and on disk | arm, request, confirm, expire, revoke | two user interfaces, a timeout and a disk deciding one request | one device per arming, known to memory, disk and television alike |
| web API (`sunburst-web/src/api.rs`, `config.rs`, `control.rs`) | configuration in memory and on disk, token | save settings, apps, launch, the settings of a Hello | one lock let go between two steps | acts on what is saved |
| catalogue, art, launcher (`launcher.rs`, `catalogue.rs`, `proto/art.rs`) | pages, chunks, the cache of images | list, art, launch | a catalogue changed meanwhile, a batch cut short | the art shown is the app's |
| application host (`win_host.rs`, `proc.rs`, `apptrack.rs`) | the running application, its prep | launch, reap, terminate | one step of several failing, watcher against web UI | what was prepared is undone once, after the game |
| keys and pointer (`keymap.rs`, `inject.rs`, `cursor_predict.rs`, `cursor.rs`) | modifiers held, moves not yet confirmed, cursor shapes | inject, predict, report | reports that overtake each other | chords whole, the drawn pointer never behind |
| emulated pads (`sunburst-input/src/pad`) | compiled programs, sections shared with the driver, device nodes | connect, submit, output, disconnect | a driver in another process; callbacks after their waiter left | the game sees what the hand holds |
| USB pads, headsets (`sunburst-gip-bridge`, `usb.rs`, `headset.rs`) | bridge, queue, slots | attach, poll, reserve, forget | detaching in the middle of a call | the cap is kept, the last word told |
| audio (`audio_pipeline.rs`, `pcm.rs`, `plc.rs`, `playout.rs`) | frame accumulator, held packets, cushion | poll, fill, push, callback | drift, loss, an endpoint that delivers nothing | keeps time, order, bounded delay |
| wire formats (`core/src/proto`) | none | encode, decode | two lists of fields kept alike by hand; builds of other ages | read as written, or refused |
| tools and probes | - | - | test programs | - |

The client's loop and the server's endpoint thread talk through UDP only.  In
the server, the endpoint thread calls the handler (`sunburst-web/src/control.rs`),
which calls the session manager and the injector.  The web UI's threads, the
pipeline's GPU and send threads and the pads' thread communicate with it through
atomics and channels, which `drain_outbound` empties once per poll.  On the
client, one thread runs the loop of `run_inner`; the UI thread talks to it
through a channel and the cursor's atomics.

## Modules

| module | what it is |
|---|---|
| `SeqArith` | the wrapping numbers, with the modulus as a parameter |
| `ReliableOps` | one end of the reliable channel: operators from a channel record and an input to the new record, the frames it transmits and the messages it delivers |
| `ReliableChannel` | two ends and the network between them |
| `OrderedDelivery` | what a reliable channel promises, with no frames or numbers |
| `ControlEndpoint` | the server's endpoint and stream, and a client that crashes, restarts and leaves |
| `SessionManager` | what a stream does to the desktop and puts back; the web threads' view of it |
| `VideoPath` | encoder and reference window, network, reassembler, jitter buffer, keyframe gate and decoder |
| `HoleNacks` | the holes of one frame: NACKs, the server's answers, what is lost of both |
| `CapturePath` | captures, converters, contexts and encoders, built and torn down around a desktop that changes |
| `FrameLoop` | the governor: which captured frame is encoded, held, flushed or dropped |
| `SubframeDrain` | one picture read out of the encoder while it is written |
| `Av1Headers` | the AV1 tile grid, and the sequence header written and parsed |
| `SendPath` | packet ring, retransmit cache, batches the kernel splits |
| `Pacer`, `RateControl` | the token bucket; the bounds of a session's bitrate and the controller in them |
| `Rings` | the single-producer, single-consumer ring, step by step |
| `Instrumentation`, `LatencyTable` | threads, rings and collectors; stage samples to histograms and percentiles |
| `Pairing` | the armed window, the endpoint's pending peers, the saved clients, the television |
| `Catalogue` | apps and their art under two locks and two kinds of file |
| `WebApi` | requests, settings, and a Hello that reads them |
| `AppHost` | an app's prep commands, processes, job, tracker and watcher |
| `AppGrid` | the television's pages, chunks and image cache |
| `InputPath` | keys and pointer, from the UI thread to the desktop and back |
| `CursorShape` | bitmaps in chunks through the queue in front of the window |
| `PadSession` | a profile compiled to a program, its reports; a pad with the vendor's layers on it |
| `PadSection`, `PadDevice` | the section shared with the driver under its seqlock; the device node and its companion |
| `PadOutput` | rumble and effects on their way back |
| `PadBridge` | USB attach and detach, the shim's queue, headsets under their cap |
| `AudioSend`, `AudioReorder`, `Playout` | the server's audio thread; packet order and concealment; the cushion |
| `Wire`, `ControlWire`, `DatagramWire` | fields and bytes; the control messages; the datagrams |
| `LeftFolds` | lemmas: what a loop over a sequence keeps |
| `ReliableChannelProofs`, `ControlEndpointProofs`, `VideoPathProofs` | the theorems about these modules and their proofs; `SeqArith` and `ReliableOps` hold the lemmas about their own operators |
| `ServicesProofs`, `MediaProofs` | the theorems about the machines that `MCServices` and `MCMedia` compose |
| `MCServices`, `MCMedia`, `MCClient`, `MCLive` | components side by side; instances and symmetry for TLC |

A component that several modules need is operators on a record
(`ReliableOps`); a module with VARIABLES puts it together with the other side
and the network.  `ControlEndpoint` so runs
the very channel that `ReliableChannel` proves correct; `AppGrid`, `Pairing` and
`CursorShape` take the channel at the word of `OrderedDelivery`.

### How the MC modules compose

Most of these components share no state: a pad's report program and the catalogue
do not meet.  Composing them as processes would multiply their state
spaces and say nothing new, and one run each would be thirty runs.  So
`MCServices`, `MCMedia` and `MCClient` put them side by side: `part` is chosen in
the initial state and never changes, the machine of that part runs, and the
machines take turns with the numbered variables `v1, v2, ...`, which each
instance substitutes for its own.  A property of such a run is a conjunction
`part = "..." => Machine!Property`; the properties themselves, their comments and
their mutants are in the machines' modules.  `MCServices` and `MCMedia` leave the
constants of their machines open and name what is assumed of them (`HostAssumption ==
Host!HostBounds`): the `.cfg` gives them values, and the theorems are about all others.
`MCClient` has the values in its INSTANCEs.  Where components do meet,
one module models the meeting: `ControlEndpoint` (client, endpoint, stream),
`VideoPath` (encoder, network, gate, decoder), `SendPath` (ring, cache, batches,
NACKs), `HoleNacks` (client, network, cache), `CursorShape` (poll, endpoint,
client), `InputPath` (five threads), `Pairing` (web, endpoint, disk, TV).
`MCLive` does the same for the machines with fairness.

### Correspondence with the code

`PROJECT.json` maps every definition to its lines.  What needs saying beyond:

**`ReliableOps`** keeps the fields of `Reliable` (`nextSeq`, `ack`, `unacked`,
`early`, `epoch`, `peerEpoch`).  Sequence numbers wrap at `SeqMod`, 2^16 in the
code; `Window` is `WINDOW`, `MaxAttempts` is `MAX_ATTEMPTS`.  Instead of times,
`tick` is given the set of messages that have waited `RETRANSMIT_MS`.
**`ReliableChannel`** has `Send`, `Receive`, `Tick` and `GiveUp`.  A datagram
stays on the wire, so that it may arrive again, and need never arrive.  `MaxLag`
(an assumption on the network, below half the space) is how stale a datagram
may be on arrival.

**`ControlEndpoint`** keeps `Endpoint::sessions` and `by_addr` for one paired
client, `SessionManager::active` and the UI's disconnect request.  One poll is
one action: what arrived (`ServerReceives`) or nothing (`ServerTimesOut`), then
`drain_outbound` and `tick`, in that order.  Epochs and nonces are numbers that
never repeat, as the wall clock and the random source make them.  MACs are
represented by the key a data packet is signed with.

**`VideoPath`** has the server's reference window (`Window` of `refinval.rs`; the
machines of the three codecs differ in `Depth` only), the client's receive
stages and its gate, each as operators on a record.  A frame in assembly is a set
of packets that is complete when it is all there.  Times are gone: any queued
frame may be due.  The actions:

| action | code |
|---|---|
| `Encode` | `Encoding::encode`: the pending signals, the frame, `on_encoded` |
| `Rebuild` | `AccessLost`, or a colour change: a new encoder and its `CodecHeaders` |
| `AbandonArrives`, `RequestIdrArrives` | `on_nack` with an empty list, `on_request_idr` |
| `Receive` | one video packet in the frame loop's batch |
| `HeadersArrive` | one `CodecPrivate` in the batch: `classify`, `reconfigure`, `close` |
| `Pass` | the rest of the pass: release what is due, feed, `gate.tick`, `drain_abandoned` |

The encoder is external and deterministic: it predicts a frame from the newest
reference it may still use, and makes an IDR when told to or when none is left.
Frames are counted from 0 without end; the code sees the count modulo `SeqMod`.
One thing that hides: slots of frames in assembly go by the count, so a partial
frame that stayed in its slot until the numbers had come round, which only one
from before anything was expected could, is not joined by its successor.

**Threads.**  Where the code lets a lock go or has none, the steps between are
actions of their own: `Rings` splits a push into reading the head, opening the
slot, filling it and publishing the tail, and lets the other thread's index read
as any value stored since it was last read (acquire and release order no more);
`Instrumentation` splits registration, recording, retiring and the drain's walk
at each atomic; `PadSection` splits the writer at each store group and the
driver's read likewise, and the server may be killed between any two of them;
`WebApi` lets the state's lock go between authorising and
handling, and `Catalogue` between the configuration, the art table and each file;
`AppHost` makes each prep command a step, with games starting and exiting in
between; `PadBridge` has a call to the bridge in progress while it is detached.

**Time** is a clock where a property is about it (`FrameLoop`, `HoleNacks`,
`RateControl`, `Pacer`, `AudioSend`, `LatencyTable`) and a free choice
elsewhere: a PIN window may expire at any step (`Pairing!Expire`), a bind may time
out at any step (`PadDevice!companion_times_out`).

**The outside.**  Windows, NVENC, the USB driver, AAudio and the person at
either screen are actions or choices marked external in the map.  What they may
do is what the code has a branch for: NVENC appends units while they are read
and fails any call (`SubframeDrain!Grow`, `Fails`), the desktop changes size and
colour, hides and is lost (`CapturePath!DesktopChanges`, `AccessLost`), `SwDeviceCreate`
calls back in time, late or never (`PadDevice!companion_callback`).

**Data.**  `PadSession` runs the report programs on real bytes, because which bits a
field takes is what its property is about; `Wire` encodes fields to bytes for the
same reason, with numbers and strings from small sets.  `Av1Headers` writes and
parses bits.  Elsewhere a bitmap is its chunks, an image its digest, a frame its
number.  `LatencyTable` and `Playout` scale sizes down and keep the
arithmetic.

## Runs

| run | question | bounds | distinct states |
|---|---|---|---|
| `reliable_channel` | is delivery in order and once, whatever the network does, across a wrap? | 6 numbers, window 2, 9 messages one way and 1 the other | 491,497 |
| `endpoint_restarts` | do address, keys and input survive a restarting client? | 2 incarnations, 2 sessions, 1 input each, 2 datagrams in flight | 318,860 |
| `endpoint_ends` | does a stream only serve, and end with, its own session? | 2 incarnations, 1 session, 1 crash of the server, 1 disconnect or dead pipeline | 238,887 |
| `video_path` | is what the decoder gets decodable, in order, and every gap reported? | 4 frames of 2 packets, 3 of which arrive, 2 builds, 1 refusal, both recoveries | 491,816 |
| `services` | does what the server does beside its streams agree with what it saved, told, found and was held? | `MCServices` | 759,525 |
| `media` | does each stage of a frame, and of sound, keep its promise to the next? | `MCMedia` | 2,429,673 |
| `client` | does the rest of what the two sides exchange, and what is written to be read back, arrive as it was? | `MCClient` | 808,069 |
| `live` | what must happen, does it? | `MCLive` | 53,069 |
| `finding_keys`, `finding_nothing`, `finding_gate`, `finding_loss` | does a sentence of the documentation hold? | | violated |

`reliable_channel`: `InOrderOnce`, `RetiredWasDelivered`, `EarlyIsAhead`,
`SendOverwritesNothing`, the inductive invariant `IndInv`, and
`ImplementsOrderedDelivery`, the refinement.  Nine messages through six numbers
wrap once and a half, with every lag the assumption allows.

`endpoint_restarts`: `AddressMovesForward` (a stray datagram never takes the
return address back), `KeysAgree` (both ends sign alike when they know each
other's session), `InputAppliedOnce`.  `endpoint_ends`: `StreamServesItsPeer`,
`OnlyEndedByItsOwn`, `AcksAreOfThisPeer`.  Two incarnations are what a confusion
takes; the wire holds two datagrams at a time (`MaxWire`, which of them being
any choice), enough for a stray one of the old incarnation against a current
one, and each may arrive any number of times.  A window of one loses the
holding area, which `reliable_channel` covers.  Of what waits for a retransmit
all or none is due.  `Idle` supposes that the idle time outlasts a client that
is still there (`IDLE_SECS` is well past the retry budget and the KeepAlives).

`video_path`: `FedIsDecodable` (without reference invalidation a frame fed
predicts from one fed before), `FedInOrder` (in order, and from a keyframe
after a reconfiguration), `NoSilentGap` (what was skipped was reported),
`OldestLossIsAvoided` (the next frame does not descend from the oldest loss
reported, unless the window takes it for old news), and `TypeOK`, whose bounds
on pool and slots are what eviction is for.  Four frames with two slots, three
packets of storage and a queue of one make every capacity the bottleneck.
`MaxLag` and `MaxReportLag` let packets and reports come two frames late.
Frame ids do not wrap in this run: the gate does not survive it (below), and the
wrap is proved for the rest.  A frame that the gate admits is fed or refused; that
it may also be larger than the 8 MiB buffer it is copied to (`client.rs:378`,
`copy_into` at line 515), and is then neither fed nor reported nor told to the gate, is left out:
no frame of an encoder at the rates allowed comes near it.

`services`, with the property of each part, and why its bounds are enough:

| part | property (conjuncts) | bounds |
|---|---|---|
| pairing | `PairedOnceAndTold` (`OneClientPerArming`, `IdsAreUnique`, `EndsAreTold`), `ClientsAreAsSaved` (`AcceptedIsSaved`, `KnownIsSaved`, `RevokedStaysRevoked`) | two televisions against two armings is what confusing one for the other takes; two tries, so that one can fail; one fault: a failed write, a restart, a lost peer or a television that gives up, anywhere |
| catalogue | `ActsOnWhatIsSaved` (`ArtIsOfItsApp`, `ConfigIsSaved`) | three apps, so that a number is free again between two; two threads; one failed write, one restart |
| web | `ActsOnWhatIsSaved` | one web thread against the endpoint's and the machine's; four settings, two saves, one failing, one restart |
| host | `HostIsAsFound` (`PrepOutlivesTheLauncher`, `PrepIsAStack`) | the three ways an app is tracked, two prep commands each, two launches by two threads, one failure anywhere, one restart |
| sessions | `HostIsAsFound` (`DesktopAsFound`) | two streams, one setting changed by somebody else, one restart |
| grid | `CacheIsTrue` | two apps, one a page, two images of two chunks, one edit, one batch of several messages |
| effects | `EffectsGoForward` | five reports through sequence numbers that wrap at four and a ring of two that wraps with every other; one pad, plugged in throughout. The property is about the way from the policy on; that the newest report gets there is not kept (`LatestWins`, below) |
| section, device | `DevicesAreWhole` (`NeverTorn`; `LateCallbackIsHarmless`, `NothingLeftBehind`, `BoundAsItsFamily`) | two frames and one killed writer, over both layouts; two plugs, one failing call, one restart, every companion |
| bridge | `HeadsetsAreCapped` (`HeadsetsAreCapped`, `LastWordIsTold`) | two pads for one slot, a queue of two, two attaches, two streams, four changes. The cap is a stream's, and the adapter's while the first stream lasts; after that it is not kept (`CapOutlivesTheStream`, below) |
| samples | `MeasuresAreTrue` (`SamplesAccountedFor`) | two threads and two collectors for one place in the registry, two samples, two drains |

`media`:

| part | property | bounds |
|---|---|---|
| capture | `SentAsTold` (`SentAsTold`, `NoReadAfterRelease`, `ContextsAreBalanced`) | two codecs, two sizes, three frames, two changes of the desktop, one failed build |
| drain | `PictureIsExact` | two tiles, assumed right or wrong, two pictures in two buffers with the tail of the first still there, one failure |
| frames | `NewestIsShownOrHeld`; `ShownAndAskedInTime` (`IsNoBurst`) | five frames at gaps from 3 to 130 against an interval of 20, one break of the capture, one keyframe asked for |
| rings, send | `StreamIsWhole` (`NothingTornOrLost`; `StreamIsWhole`, `RetransmitsAreRight`) | seven items through two slots and indices that wrap at four; a ring of two, a cache of three, one remembered frame, so that each overruns in four frames, packets of two lengths, batches of two, one datagram refused or behind a refused one (`MaxUnsent`), a stop at any time |
| rate, pace | `RatesAreKept` (`TargetIsAllowed`, `ProbesAreSlow`; `PaceIsKept`) | three asks, one bound by each of the limits; reports over nine ticks, good, steep or lossy, and a probe interval of five, so that the limit is passed by two probes; none late or twice (`Late`), which the theorem covers; three sends at two targets |
| nacks | `ShownAndAskedInTime` (`AsksForMore`, `AsksAtOnce`) | five packets in any order, two losses of either kind, the re-ask interval of two in a clock of three |
| sound, reorder, playout | `SoundKeepsTime` (`StreamKeepsTime`; `PlayedInItsPlace`; `DelayIsBounded`) | the two frame sizes on either side of the engine's period, two starts or stops, one failed poll, 60 ms; ten packets through eight numbers, three late; gaps past the cushion's bound |

`client`:

| part | property | bounds |
|---|---|---|
| input, cursor | `PointerAndKeysFollow` (`OverlayIsAhead`, `ChordLandsWhole`; `DrawnIsCaptured`) | a modifier and a letter, two events, two streams, one fault; two bitmaps of two and three chunks through a window of two, four changes of cursor, one bitmap that could not be read |
| pad | `SeenAsHeld` (`SeenAsHeld`, `OutputsReadBack`) | eight profiles that have every kind of field and layout between them, five states of a pad, three frames, two output reports |
| control, datagram, av1, table | `ReadAsWritten` (`ReadAsWritten`; `ReadAsSent`; `GridIsLegal`, `ParsedAsWritten`; `TableTellsTheTruth`) | every message and every datagram, with every optional part there or not, from an older, this and a later build, whole and cut at every byte; pictures from 640x64 to 7680x4320, each header with and without each optional part; three samples at two gaps, two rotations |

The numbers of these three are sums over parts, and every part passes a wrap, an
overrun or a fault within its bounds.

Deadlock is not checked: everything sent and acknowledged, every client gone,
or every bound used up is a legitimate end.

### What each property would catch

Each property of a passing run has a mutant: a definition of the model changed
the way a plausible bug would change the code, under which the run fails.

| property | mutated | as a bug would |
|---|---|---|
| `PairedOnceAndTold` | `Pairing!Spent` | a confirmed PIN leaves the window armed |
| `ClientsAreAsSaved` | `Pairing!Listed` | a client enters memory although the save failed |
| `ActsOnWhatIsSaved` | `WebApi!InForce` | settings are in force before they are saved |
| `HostIsAsFound` | `AppHost!JobActive` | only the child is watched, not its job |
| `CacheIsTrue` | `AppGrid!NamedBy` | an image is filed under the digest asked for, not the one received |
| `SentAsTold` | `CapturePath!ColourChanged` | a rebuild does not notice the colour |
| `PictureIsExact` | `SubframeDrain!EndsPicture` | the last tile is looked for one past the end |
| `NewestIsShownOrHeld` | `FrameLoop!Dropped` | a frame held outlives the loss of its capture |
| `StreamIsWhole` | `SendPath!Fits` | packets of any length share a batch |
| `RatesAreKept` | `RateControl!Most` | the ceiling is the configured one, whatever the client asks |
| `MeasuresAreTrue` | `Instrumentation!Leftover` | what a thread that is gone left is freed with its ring when it is newer than the drain |
| `ShownAndAskedInTime` | `HoleNacks!Due` | holes are asked for at every poll |
| `PointerAndKeysFollow` | `InputPath!Reported` | the pointer is sampled before the number it is reported under |
| `SeenAsHeld` | `PadSession!Put` | a field is written over the whole byte it shares |
| `DevicesAreWhole` | `PadSection!seqlock_start` | the writer starts from the number it reads, odd or not |
| `HeadsetsAreCapped` | `PadBridge!GivenBack` | a slot is given back by a pad that had none |
| `SoundKeepsTime` | `AudioSend!Fill` | silence is filled in at every poll that brings nothing |
| `ReadAsWritten` | `ControlWire!GetHello` | an optional trailing field is insisted on |
| `EffectsGoForward` | `PadOutput!Forward` | only an exact repeat is refused |
| `WhatWasBegunIsEnded` | `SessionManager!EndsItself` | a disconnect asked for is not looked at |
| `DeliveredOrGone` | `ReliableOps!AfterTick` | attempts are not counted |
| `NoGhostStream` | `ControlEndpoint!Ticked` | an idle session is not dropped |
| the channel's, the endpoint's, the video path's | `PROJECT.json` | |

The conjuncts of one property are different statements, and `PROJECT.json` names
one mutant of each property.  The modules have more, each of which breaks the conjunct it
is about: `Pairing!NextByCount`, `NoticedSilently`, `AnnouncedFirst`,
`WrittenFirst`; `Catalogue!AllocatedAfterLast`, `CommitFirst`;
`AppHost!StepForward`, `AbsenceAnew`; `SessionManager!VddFirst`;
`CapturePath!NothingOwed`, `StillReading`, `KeepsContext`;
`Av1Headers!RowsForAll`, `TierAlways`; `FrameLoop!SlotIsNow`;
`SendPath!HeaderSkipped`; `Rings!FreeOneMore`; `RateControl!ProbeIsAlwaysDue`;
`Pacer!FreeFromTheLast`;
`LatencyTable!SlotOfAny`, `ReadAtLower`; `HoleNacks!BarKept`;
`InputPath!ReconcileUp`; `CursorShape!RestDropped`; `PadSession!AtZero`,
`SliceOpen`; `PadDevice!AbandonedFreed`, `UndoneNot`, `OrderRegisterFirst`;
`PadBridge!DropNewest`; `AudioReorder!HasPlayedUnwrapped`, `GivenSooner`;
`Playout!ClampBelow`; `DatagramWire!GetGamepadTouchFirst`.

### Fairness

`live` assumes of each end of the channel that its timer pass comes when everything
outstanding has waited long enough: both loops tick every few milliseconds for
as long as they hold a channel.  It assumes the same of the
server's poll, which returns after `POLL_INTERVAL` whether or not anything
arrived, and that an idle time that goes on comes to `IDLE_SECS`.  Of the
application host: the watcher thread looks once a second, the lock's holder goes
on to the end of its commands, and time passes, which is what turns an absent process into an
exited app.  Of the session manager: `drain_outbound` runs at every poll,
and a stop that has begun goes on.  Nothing is assumed of the network, the client,
the web UI, the person at the machine or the game.

### What the findings say

* `finding_gate`: `KeyframeGate::first` is set when a build starts and never
  again.  32,768 frames later (nine minutes at 60 fps) modular comparison makes
  it newer than the build's own frames.  The gate stays open and turns every
  frame away: no keyframe is asked for, nothing is reported lost, the picture
  stands still until the ids have gone round.  `PROTOCOL.md` asks for modular
  comparison, and a test claims the wrap, but it steps over it by a few ids only.
* `finding_loss`: `PROTOCOL.md` says an abandon invalidates the frame and all
  since.  `on_abandoned` ignores one at or before the last keyframe or the last
  recovery, though frames still predict from it when that very keyframe is the
  lost one or reports come out of order; with reference invalidation the client
  shows the result.
* `finding_keys`: a Hello delivered again to a server that has forgotten the
  client makes a second session with a second key, which the client takes for
  a duplicate of the first and never derives.  The keys do not, as
  `PROTOCOL.md` has it, switch together; `KeysAgree` states the condition under
  which they do.
* `finding_nothing`: an end that has received nothing acks the number before
  zero, which a comment takes to mean "nothing".  To a peer half the sequence
  space on it means everything.

### Stated, and not kept

The modules also define what some comments of the code say and its code, in
the model, does not keep.  No run checks these; each can be put as the one invariant or property of
a `.cfg` for its module.  Two of them a user would notice; the table has the rest.

* `PadOutput!LatestWins`.  "Latest-wins: only the newest report matters", says
  `inject.rs:407` of the reports drained, and takes the last (`reports.last()`).
  `drain_output` (`shmem.rs:286-307`) hands them over in the order of their
  slots, so when the ring has wrapped between two drains the last is an older
  one.  Its effect is sent and repeated; the newest is marked as seen and never
  sent, and rumble that should have ended goes on.  TLC finds it in five states
  (`RingSlots = 2`, `SeqMod = 4`, `MaxReports = 5`).  `EffectsGoForward` holds
  all the same: what is sent is newer than what was sent before.
* `PadBridge!CapOutlivesTheStream`.  `headset.rs:18` caps the concurrent headsets
  by what the shared adapter can carry, but each stream makes the gate that counts
  them anew (`client.rs:366`), while what it enables belongs to the bridge and
  stays enabled.  A second stream counts from none, beside those still on.  TLC
  finds it in twelve states (two pads, `MaxHeadsets = 1`, `MaxStreams = 2`,
  `MaxBridges = 1`).  `HeadsetsAreCapped` says what does hold: no stream enables
  more than the cap, and the adapter carries no more while the first one lasts.

| definition | the comment | what happens |
|---|---|---|
| `HoleNacks!LostRetransmitIsAskedAgain` | `video.rs:272` | holes are looked at when a packet of the frame or a newer one arrives (`client.rs:420-430`); with nothing following, a lost retransmit is not asked for again |
| `PadBridge!UnpluggedIsReleased` | `client.rs:584` | a bridge that is detached goes with its queue, the neutral states in it included |
| `PadSession!ControlsLandInTheirSlots` | `pad/map.rs` | `apply_axis_map` moves an axis without scrubbing a combined trigger it is part of |
| `PadOutput!MotorsDoNotRunOn` | `android/pad.rs` | pad output is not fed to the tracker that stops a motor left running, so a lost stop runs on |
| `RateControl!LossCutsAreEarned` | `rate.rs:109` | a feedback report that comes twice or late is counted again, and cuts the rate for frames that were not lost |
| `PadDevice!PluggedIsEnumerated` | `inject.rs:308` | a pad whose node could not be made stays plugged without one |
| `PadDevice!EventIsLive` | `device.rs:346` | after a timeout the waiter closes the event a late callback will set; its context is leaked, and that context is all `LateCallbackIsHarmless` is about |
| `AppGrid!PathsExist` | `launcher.rs:73` | art replaced between the list and its fetch is cached under a digest the list does not name, and swept out before the list is returned |
| `CapturePath!FlipsRebuild` | `pipeline.rs` | a source that turns HDR under the same output colour keeps its shader |
| `SubframeDrain!NeverFalselyComplete` | `codec/av1.rs:145` | a group too short for its fields reads as the last, and completes the picture |
| `InputPath!RestIsTheServers` | `cursor_predict.rs:16` | a lost move that nothing follows leaves the drawn pointer off the server's until it moves again |
| `InputPath!NothingLeftHeld` | `inject.rs:299` | modifiers are released with the injector, not with the stream |

### Met on the way

Branches the models have, and that deserve a look in the code:

* pairing and storage: when the save after a revocation fails, the client is gone from memory
  and back after a restart; `put_art` and `delete_app` take their locks in turn, so art
  may be written for an app that has just gone (it is not served).
* pads: a report program is compiled without checking a field's byte against the
  report's size, and the first frame panics; rolling fields with one name share a counter;
  `Section::create` reopens a section left by a killed server, whose
  output ring is read again from zero; a pad's sequence starts again at a
  reconnect; a client that leaves does not take its pads with it; the root device node stays after a crash.
* USB: the shim's queue drops the oldest report of any pad; it ignores
  `onAudioRemoved`, so a removed headset keeps its slot; any USB detach drops
  the bridge.
* video: NACKs are read only when the ring is drained, so a backlog starves them; a late
  sample of an old frame evicts a newer frame's slot in the latency table; the
  encoder's drain gives up after eight polls that brought nothing; the
  converter is dropped before the encoder that has its surfaces registered; WGC
  reads size and HDR state once; NvFBC's request to recreate is ignored; a
  bitrate change the encoder cannot make is still recorded.
* control: `recv_control` returns the first message of a batch and drops the
  rest; a catalogue page that does not start where the list ends is ignored; a
  Hello whose name is over 255 bytes is not sent.
* desktop: a mode that cannot be read is never restored; a `SendInput` that is
  refused leaves what is believed down different from what is.
* audio: a hole too long to conceal drops what was held behind it; a full
  microphone buffer drops the mixed frame.

### Hazards with no property

* the `SessionConfig` that finds the reliable window full is dropped
  while its stream runs (`endpoint.rs:641`): the branch is in `Offered`, but a
  session's first window is empty.
* a launch with prep commands holds the endpoint's thread past the launcher's
  patience (`launcher.rs:30`): its two clocks are not in one model.
* the wall clock steps back across a restart (`reliable.rs:104`): epochs only
  grow here, as the code assumes.
* a retransmit that completes a frame after a newer one is ignored
  (`video.rs:438`), so the cushion kept for it is in vain: a matter of latency.
* a loss pending across a rebuild invalidates timestamps the new encoder
  never made (`pipeline.rs:362`): what NVENC makes of it is not in the repository.
* the one datagram that reports a loss is lost (`client.rs:499`): nothing
  promises otherwise.
* modifiers and pads that outlive their stream (`inject.rs:301`, `278`): stated
  above, and not kept.

## Proofs

Every theorem is for every value of the constants and from the named assumptions
alone (`SeqModAssumption`, the `...Assumption`s and `...Bounds` each module
declares), and none of the properties it is about is inductive by itself.  The
invariant that is, of each component, is built of named parts; a module of
proofs has one lemma for each action or call of the code that it keeps them,
and the theorems read the properties off.

### The reliable channel (`ReliableChannelProofs`)

| theorem | statement |
|---|---|
| `Invariance`, `TypeCorrect` | `Spec => []IndInv`, `Spec => []TypeOK` |
| `DeliveryInOrderOnce` | `Spec => []InOrderOnce` |
| `NothingUndeliveredIsRetired` | `Spec => []RetiredWasDelivered` |
| `HoldingAreaBounded` | `Spec => []EarlyIsAhead` |
| `NumbersAreFree` | `Spec => SendOverwritesNothing` |
| `Refinement` | `Spec => ImplementsOrderedDelivery` |

A number on the wire determines the message it stands for: `IndInv` ties both
ends to counts that do not wrap.  Of the `last` messages submitted the sender
keeps exactly those from `first` on, each under its count modulo `SeqMod`, with
at most `Window` of them (`InStep`); the receiver acks the last one given and
holds only messages beyond the gap; and every datagram says what was true of
these counts when it was sent, no further than `MaxLag` behind them
(`DatagramOK`).  With all distances below half the space, the modular comparison
of the code is the comparison of counts (`NewerOfCounts`, `DistanceOfCounts` in
`SeqArith`), so an ack retires exactly what has been delivered, and a
payload is held or delivered exactly when it is ahead.  There is one lemma per
action (`SendStep`, `TickStep`, `ReceiveStep`, with `AckRetires` and
`DeliversInOrder` for the two halves of a receive), on lemmas about the
operators in `ReliableOps`.  The refinement maps `received` to what the
other end was given and `released` to what the sender no longer keeps: a send is
`Submit`, a receive `Arrive`, the end of the retry budget `GiveUp`, and a
retransmit stutters.  `MaxLag` is the one assumption about the world: no datagram is still on
the wire when half the sequence space has been sent past it.

### The endpoint (`ControlEndpointProofs`)

| theorem | statement |
|---|---|
| `EndpointInvariance`, `EndpointTypes` | `Spec => []IndInv`, `Spec => []TypeOK` |
| `StreamsServeTheirPeer` | `Spec => []StreamServesItsPeer` |
| `StreamsEndByTheirOwn` | `Spec => []OnlyEndedByItsOwn` |
| `EndsAgreeOnKey` | `Spec => []KeysAgree` |
| `InputIsAppliedOnce` | `Spec => []InputAppliedOnce` |
| `AcksAreOfThePeer` | `Spec => []AcksAreOfThisPeer` |
| `AddressesMoveForward` | `Spec => AddressMovesForward` |

A datagram may be delivered long after the session it was sent in, so what makes
the properties inductive is what a datagram on the wire says, and of whom.
`Sound` says it of the server (a session's key was made of one of its nonces for
the address it sends to, a stream is its session's, a stream that is gone was
asked to go); `DownOK` of each datagram to a client: a `SessionConfig` offers the
key of the session it was sent in, should that still be the one (`Agrees`);
`UpOK` of each one to the server: it is of the incarnation that sent it, numbered
as that one numbers, its first message the Hello (`SaidBy`); `ClientIs`
of each client; `PeerOK` of what the session has received, a prefix of what its
incarnation said; `AppliedOK` of packets already used, whose key and number are
accepted no more (`UsedUp`).  `HelloFirst` and `PeerKnown` hold between calls
only.  Each call of the code preserves `Sound` and `Leads` to a server of which
all the rest stays true, whichever session it leaves; the loops over frames and
over what is due are folds, and go by `LeftFolds`.  `NumbersSuffice` is the
assumption about numbers: a client's messages do not wrap.  With a
KeepAlive a second that takes eighteen hours; past it, `AcksAreOfThisPeer` is
false in the model as it is in the code, for the reason `finding_nothing` shows.

### A frame's way (`VideoPathProofs`)

| theorem | statement |
|---|---|
| `PathInvariance`, `TypesAndStorage` | `Spec /\ []KeepsUp => []PathInv`, `... []TypeOK` |
| `TheDecoderCanDecode` | `... []FedIsDecodable` |
| `TheDecoderIsFedInOrder` | `... []FedInOrder` |
| `NoGapIsSilent` | `... []NoSilentGap` |
| `OldestLossIsBehind` | `... OldestLossIsAvoided` |

`PathInv` ties what is held, fed, reported and pending to the log of what was
encoded.  `LogOK`: without reference invalidation a frame that is no keyframe
predicts from the one before it; builds only go on.  `ServerOK`: the abandon that is pending
is the oldest loss noted since the last frame, at most `MaxReportLag` back.
`LoopOK`: within the client's storage, nothing queued is behind what is expected;
what lies between two frames fed is reported or made up for by a keyframe, and
while the gate is open that goes for all that has been released since.

`KeepsUp` is what the theorems suppose, and is here because they are about
a number space that wraps, which the run leaves out: while half the
space is encoded, 32,768 frames or nine minutes, no frame stays in the queue,
the expected frame moves, and the decoder is reconfigured.  The jitter buffer releases a frame
within milliseconds, and a stream that receives nothing for so long has been
ended by its channel; but the third part is not assured: that is
`finding_gate`, which shows what becomes of a build that lasts longer.

### The services (`ServicesProofs`)

| theorem | statement |
|---|---|
| `ServicesInvariance` | `MCSpec => []ServicesInv` |
| `TVsArePairedOnceAndTold` | `MCSpec => []PairedOnceAndTold` |
| `ClientsStayAsSaved` | `MCSpec => []ClientsAreAsSaved` |
| `SavedSettingsAreActedOn` | `MCSpec => []ActsOnWhatIsSaved` |
| `HostIsLeftAsFound` | `MCSpec => []HostIsAsFound` |
| `ArtShownIsTrue` | `MCSpec => []CacheIsTrue` |
| `DevicesStayWhole` | `MCSpec => []DevicesAreWhole` |
| `HeadsetsStayCapped` | `MCSpec => []HeadsetsAreCapped` |
| `MeasuresStayTrue` | `MCSpec => []MeasuresAreTrue` |
| `EffectsOnlyGoForward` | `MCSpec => EffectsGoForward` |

`MCSpec` runs one part, whichever; the constants, the bounds among them, are any
that the machines' assumptions allow.  `ServicesInv` is the invariant of the machine
that runs, each defined at the end of its module:

* `Pairing!PairingInv`: a secret in the file is of an arming that has been spent
  (`SpentOnce`), so a second device cannot be saved for it; the file has each secret
  once (`FileIsWhole`); and whoever is told that he is accepted, or will be, was
  in the file (`PromisesAreKept`), as the answers wait in two queues.
* `Catalogue!CatalogueInv`: every number an image or an upload goes by has been
  given out (`IdsAreSpent`), so that it cannot come to be another app's, and an
  upload under way is for the app its number is of (`UploadsAreOfTheirApp`).
* `WebApi!WebInv`: what a Hello has read was in force since it began, and valid
  (`HelloIsOfItsTime`), a launch that has looked its app up has a valid entry (`LaunchesAreValid`).
* `AppHost!HostInv`: nothing runs while the lock is held for prep or undo, a job
  that is dead stays dead (`LockOK`), the steps done so far are in place (`PreparedSoFar`),
  and as many commands are in effect as the launch has got to (`SoMany`).
* `SessionManager!DesktopInv`: for each setting, the guard not yet dropped that will
  write it last holds what was found (`WillBeFound`), whoever changed it meanwhile, and
  the virtual display is there for as long as a guard needs it.
* `AppGrid!CacheIsTrue` is inductive as it stands.
* `PadSection!SectionInv`: the counter is odd while a write is under way or was left
  unfinished, and where it is even the areas are one frame's.  What the driver has
  read since it looked is there still, unless the counter has moved on, and it
  never comes back, a killed server or not.
* `PadDevice!DeviceInv`: what a create has set so far is what its next step needs
  (`SetSoFar`), its node is there from the registration on (`RegisteredSoFar`), and
  before that a node of its name is the one in the slot (`OthersIsInTheSlot`), which
  is why undoing a failed create takes no other pad's.
* `PadBridge!BridgeInv`: the gate counts the pads it holds, and holds every pad
  whose headset this stream opened (`GateCountsTheOpen`); a call on a bridge that was
  detached meanwhile finds none open; what the first stream finds on it has enabled
  (`FirstEnabledAll`).  The queue's newest event is what the pad that
  spoke last shows (`NewestIsQueued`).
* `PadOutput!EffectInv`: how far a sequence number is behind the policy's tells how
  far its effect is behind the newest: of datagrams on their way, none of them half
  the space behind (`WireAgesWithReports`), and between each of these and the one
  applied last, however far that one is behind by now (`RouterAgesWithReports`).
* `Instrumentation!InstrInv`: a ring lives from its thread's try at a place until
  it is freed, and that is after its thread retired it (`RingOf`, `RegistryHolds`); what
  the collector with the lock has looked up is there until it frees it (`SeenIs`);
  each sample is somewhere, and in one place only (`SamplesHeld`).

### The stages of a frame, and sound (`MediaProofs`)

| theorem | statement |
|---|---|
| `MediaInvariance` | `MCSpec => []MediaInv` |
| `FramesAreAsTold` | `MCSpec => []SentAsTold` |
| `PictureStaysExact` | `MCSpec => []PictureIsExact` |
| `NewestFrameIsNeverForgotten` | `MCSpec => []NewestIsShownOrHeld` |
| `StreamStaysWhole` | `MCSpec => []StreamIsWhole` |
| `RatesStayKept` | `MCSpec => []RatesAreKept` |
| `SoundStaysInTime` | `MCSpec => []SoundKeepsTime` |
| `FramesAndNacksAreInTime` | `MCSpec => ShownAndAskedInTime` |

`MediaInv` is put together likewise:

* `CapturePath!PathInv`: the contexts on the thread are those of the capture and of
  its spine, in the order they were made (`ContextsMade`); the spine is of the
  capture's kind and is what the client was last told; the first frame of a
  description is still to come, and owed a keyframe, or gone.
* `SubframeDrain!DrainInv`: with the grid right, of the units a drain has yet to
  meet the last real one alone ends the picture (`EndIsAhead`), and no more groups are
  counted than units passed.  With the grid wrong nothing is claimed: the
  counting bounds, `IdleLimit` and `Rounds` only end the drain.
* `FrameLoop!LoopInv`: the slot is no older than the last frame let through and an
  interval past the one before it; a frame held is the newest captured, and waits
  at least for the slot; what the converter keeps is the newest too, where the
  backend can wait.
* `Rings!RingInv`: a thread's stale copy of the other's index is a value that index
  once had, and from there on there was room, or were items, enough for what
  the thread is about to do (`HasRoom`, `HasItems`).  Counts do not wrap, indices do, and
  two counts less than a ring apart have one place only if they are equal.
* `SendPath!SendInv`: packets come frame by frame and index by index (`InOrder`,
  `LeftIsNext`); no frame id is in use when it comes round (`IdsLive`); the cache's
  slots are the last packets taken (`SlotsHold`), and the entry of a frame leads to its first
  (`EntriesLead`), so a slot and an entry that agree are of the packet asked for, for
  as long as NACKs are answered (`CacheHolds`: the drain of a stream that stops
  does not store); each datagram is the packet of its place or was not sent; and
  the kernel's cut of a batch falls between packets, since all but the last are of one length (`BatchHolds`).
* `Pacer!PaceInv`: what left since any batch, that batch and the last included, is
  paid for by the time the link is free, but for the burst (`PaidFor`).
* `RateControl!RateInv`: while a ceiling is known the limit is the margin under it,
  and the target passes a limit whose ceiling is gone on account of the
  probe that dropped it, one interval at least after the one before.
* `HoleNacks!NackInv`: the bar new holes must pass is what was last asked for.
* `AudioSend!SendInv`: what left and what waits is no more than has played and a
  period for each turn (`Taken`, `Elapsed`), and since the last frame of sound no more than the
  periods and the silence since (`SinceSound`).
* `AudioReorder!ReorderInv`: packets are near enough the position for their ids
  to tell where they are (`Nearby`); of each place that came out empty something
  `WINDOW` past its hole has come (`HolesAreOverdue`).
* `Playout!PlayInv`: the peak is clamped wherever it changes, and every change of
  the cushion is published.

Most of the arithmetic is of two kinds, and is lemmas: numbers that go round
(`OneRest`, `OneQuotient`, and with them when two counts have one place), and
packets laid end to end, where an index of the batch tells packet and byte.

The assumptions are the code's: a ring's index space is a multiple of its
slots and larger; a frame id comes round only when ring, cache and table have nothing left of the
frame that had it (`IdIsFree`: 65,536 ids against 4,096 slots and 64 entries); audio
packets are no later than `RESYNC_AHEAD`, and that is less than half their numbers
(`MaxLag`); silence is sent for after a grace that is longer than a frame and a period; the
sound ring has the room `AudioPlayer::new` reserves.  TLC evaluates them in the runs.

### What the proofs changed

When a step could not be proved, TLC told a property that is false from a proof
that has a gap, on an instance made for the question.

* `AudioSend!StreamKeepsTime` said that the stream is never more than a frame ahead of
  the clock.  The part of a period that a start delivers early adds up over starts and
  stops, so the bound is a period for each (`turns * Period`), and with nothing started or
  stopped it is stricter than it was.
* `AudioSend`'s assumption was that the grace is longer than a frame and than a period.
  Between a frame's end and the next delivery both may pass: the grace is now
  assumed to cover their sum, as the code's 30 ms do.
* `AudioReorder!PlayedInItsPlace` now says too that what is held is short of `WINDOW`
  ahead, on which the code's slots, `id % WINDOW`, rely.
* `RateControl` compares target and ceiling in whole numbers, and a target that passes its
  limit is judged by the probe that dropped the ceiling, not by the time of the step.
* `SendPath` kept a batch as packets, and cut them when it was flushed.  It is bytes now, with the
  segment size of the first packet, closed by a shorter one, as in `send.rs`;
  what is proved is that the cut falls between packets.
* Sums and sets that were folds over a history (`Pacer`, `Instrumentation`, `SubframeDrain`) are
  running sums, quantifiers and choices: the same values, which the checks confirm.

### What is only model-checked

* `PointerAndKeysFollow`, `SeenAsHeld`, `ReadAsWritten`, the properties of `client`.  The last
  two are about data: that reading undoes writing, over layouts that are folds of lists of fields
  (`PadSession`, `Wire`, `ControlWire`, `DatagramWire`, `Av1Headers`), and a
  percentile found by a walk over a histogram (`LatencyTable`).  An induction over
  data, with an operator for its hypothesis, is out of the prover's reach.
  The first is not: `InputPath` and `CursorShape` are machines like those above.
* Everything that must *eventually* happen, which the prover cannot do: `DeliveredOrGone`,
  `NoGhostStream`, `WhatWasBegunIsEnded` (`PrepIsUndone`, `DisconnectsHappen`).
* `OwnFramesPass`, `EveryLossIsAvoided`, `KeysAlwaysAgree`, `NothingReceivedRetiresNothing`
  are false, as is what is under "Stated, and not kept".

What a loop over a sequence keeps is proved (`LeftFolds`, by induction over the
prefixes that are done); what a recursive definition computes is not.

## Not modelled

* Arithmetic of encryption and MACs, formatting, logging, the JSON and HTTP of the web server.
* `owd.rs`, a regression in floating point, whose gradient is an input of `RateControl`.
* GPU work, shaders, Opus, MediaCodec, device I/O: external choices, or nothing.
* `mic_pipeline.rs` and `render.rs`, the microphone's way back.
* The adaptive depth of the jitter buffer, and the packetizer's copying.
* The intra-refresh schedule, quirks applied to a running stream.
* `autostart` and `restart_self`, thread priorities, the virtual display driver.
* The tables of key codes and the built-in pad profiles, which are data; the
  eight profiles of `MCClient` have what they have.
* The programs under `tools`, the tests, and the Kotlin activities, which call
  the native library.
* Two streams or two clients at a time: the code runs one.

## Plan

What is left to prove: `InputPath!OverlayIsAhead` and `ChordLandsWhole`, from
moves that are numbered in the order they are sent and confirmed up to one of
them; `CursorShape!DrawnIsCaptured`, from chunks that come in the order of their
queue.  What is left to model is listed above; of it the microphone's way
back and the adaptive depth of the jitter buffer have behaviour of their own.
