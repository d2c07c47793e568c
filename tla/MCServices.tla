----------------------------- MODULE MCServices -----------------------------
(***************************************************************************)
(* The server beside its streams, for TLC: pairing, the catalogue, the web *)
(* API, the application host, the sessions' effect on the desktop, and the *)
(* launcher's grid on the TV; the pads, from their effects and the         *)
(* sections and devices the drivers see to USB pads and their headsets;    *)
(* and the registry of the rings that samples of latency are kept in.      *)
(* They share nothing that changes, so one run checks them side by side: a *)
(* behaviour is a behaviour of one part, and the parts take turns with the *)
(* same variables, numbered.  The part that is not running has no state.   *)
(***************************************************************************)
EXTENDS Naturals, TLC

CONSTANTS
    Attempt, MaxPinTries, MaxArmings, MaxFaults, MaxRequests,         \* Pairing
    Worker, MaxCreates, MaxWriteFails, MaxRestarts,                   \* Catalogue
    Server, Settings, Entries, Tokens, WebCreates, MaxSaves, MaxFailures, \* WebApi
    HostApp, Uri, Waits, Prep, MaxLaunches, MaxStarts,                    \* AppHost
    Web, MaxSessions, MaxMeddling,                                    \* SessionManager
    Apps, Images, Chunks, PageSize, NoArt, MaxEdits, MaxBatches, MaxRuns, \* AppGrid
    Thread, Collector, Places, Capacity, MaxSamples, MaxDrains, Nobody, \* Instrumentation
    OutRing, EffectWrap, MaxEffects,                                  \* PadOutput
    MaxSubmits, MaxKills,                                             \* PadSection
    MaxPlugs, DeviceFailures, DeviceKills,                            \* PadDevice
    Pads, MaxHeadsets, MaxQueued, MaxBridges, MaxStreams, BridgeChanges \* PadBridge

VARIABLES
    part,
    v1, v2, v3, v4, v5, v6, v7, v8, v9, v10, v11, v12, v13, v14, v15

vars == <<part, v1, v2, v3, v4, v5, v6, v7, v8, v9, v10, v11, v12, v13, v14, v15>>

\* The variables from the nth on, which no machine with fewer has.
Unused13 == v13 = 0 /\ v14 = 0 /\ v15 = 0
Unused11 == v11 = 0 /\ v12 = 0 /\ Unused13
Unused10 == v10 = 0 /\ Unused11
Unused9 == v9 = 0 /\ Unused10
Rest13 == <<v13, v14, v15>>
Rest11 == <<v11, v12, v13, v14, v15>>
Rest10 == <<v10, v11, v12, v13, v14, v15>>
Rest9 == <<v9, v10, v11, v12, v13, v14, v15>>

\* Values for the constants of WebApi and AppHost.  Settings: the web server's
\* address and token, the stream's, the input's.
Setting(lan, token, port, rate, sensitivity) ==
    [web |-> [lan |-> lan, port |-> 47810, token |-> token],
     stream |-> [port |-> port, rate |-> rate, codec |-> "auto"],
     input |-> [sensitivity |-> sensitivity, epp |-> FALSE]]
FourSettings == {Setting(TRUE, "lan", 47811, 100, 2), Setting(TRUE, "", 47811, 100, 2),
                 Setting(FALSE, "", 47811, 120, 2), Setting(FALSE, "minted", 47810, 90, 3)}

Entry(name, exe, wait, rate) ==
    [name |-> name, exe |-> exe, wait |-> wait, rate |-> rate, codec |-> "none"]
ThreeEntries == {Entry("A", "a", "none", 50), Entry("B", "steam://rungameid", "none", 0),
                 Entry("C", "c", "c/d", 70)}

TwoEach == [a \in HostApp |-> 2]

-----------------------------------------------------------------------------
(* The machines.                                                           *)

Pair == INSTANCE Pairing WITH
    armed <- v1, armings <- v2, expired <- v3, pending <- v4, results <- v5,
    requests <- v6, clients <- v7, nextClient <- v8, disk <- v9, peers <- v10,
    tv <- v11, saved <- v12, revoked <- v13, booted <- v14, faults <- v15

Cat == INSTANCE Catalogue WITH
    config <- v1, configFile <- v2, art <- v3, artFiles <- v4, calls <- v5,
    creates <- v6, writeFails <- v7, restarts <- v8

Api == INSTANCE WebApi WITH
    Worker <- Server, MaxCreates <- WebCreates, config <- v1, configFile <- v2,
    auth <- v3, calls <- v4, running <- v5, listed <- v6, hello <- v7,
    session <- v8, since <- v9, saves <- v10, failures <- v11, restarts <- v12

Host == INSTANCE AppHost WITH
    App <- HostApp, Caller <- Worker, running <- v1, lock <- v2, caller <- v3, world <- v4,
    launches <- v5, applied <- v6, failures <- v7, restarts <- v8

Stream == INSTANCE SessionManager WITH
    desktop <- v1, active <- v2, stopping <- v3, summary <- v4, disconnect <- v5,
    nextId <- v6, page <- v7, accepted <- v8, found <- v9, lost <- v10,
    meddling <- v11, restarts <- v12

Grid == INSTANCE AppGrid WITH
    None <- NoArt, art <- v1, serving <- v2, asked <- v3, sent <- v4, tv <- v5,
    cache <- v6, shown <- v7, bounds <- v8

Effect == INSTANCE PadOutput WITH
    RingSlots <- OutRing, SeqMod <- EffectWrap, MaxReports <- MaxEffects,
    written <- v1, kind <- v2, ring <- v3, seen <- v4, policy <- v5, effect <- v6,
    wire <- v7, router <- v8, motors <- v9

Section == INSTANCE PadSection WITH
    MaxFrames <- MaxSubmits, MaxRestarts <- MaxKills, family <- v1, frame <- v2,
    restarts <- v3, section <- v4, writer <- v5, bell <- v6, reader <- v7,
    shown <- v8, settled <- v9

Device == INSTANCE PadDevice WITH
    MaxFailures <- DeviceFailures, MaxRestarts <- DeviceKills, staged <- v1,
    slot <- v2, making <- v3, plugs <- v4, failures <- v5, restarts <- v6,
    nodes <- v7, swd <- v8, ctx <- v9, kept <- v10

Bridge == INSTANCE PadBridge WITH
    MaxChanges <- BridgeChanges, bridge <- v1, attached <- v2, held <- v3,
    headset <- v4, on <- v5, queue <- v6, told <- v7, latest <- v8, gate <- v9,
    active <- v10, framers <- v11, opened <- v12, call <- v13, streams <- v14,
    changes <- v15

Instr == INSTANCE Instrumentation WITH
    registry <- v1, rings <- v2, threads <- v3, collectors <- v4, locked <- v5,
    clock <- v6, drains <- v7, collected <- v8, dropped <- v9

ASSUME PairingAssumption == Pair!PairingBounds
ASSUME CatalogueAssumption == Cat!CatalogueBounds
ASSUME WebAssumption == Api!WebBounds
ASSUME HostAssumption == Host!HostBounds
ASSUME GridAssumption == Grid!GridBounds
ASSUME EffectAssumption == Effect!PadBounds
ASSUME SectionAssumption == Section!SectionBounds
ASSUME DeviceAssumption == Device!DeviceBounds
ASSUME BridgeAssumption == Bridge!BridgeBounds
ASSUME InstrAssumption == Instr!InstrBounds

-----------------------------------------------------------------------------

MCInit ==
    \/ part = "pairing" /\ Pair!Init
    \/ part = "catalogue" /\ Cat!Init /\ Unused9
    \/ part = "web" /\ Api!Init /\ Unused13
    \/ part = "host" /\ Host!Init /\ Unused9
    \/ part = "sessions" /\ Stream!Init /\ Unused13
    \/ part = "grid" /\ Grid!Init /\ Unused9
    \/ part = "effects" /\ Effect!Init /\ Unused10
    \/ part = "section" /\ Section!Init /\ Unused10
    \/ part = "device" /\ Device!Init /\ Unused11
    \/ part = "bridge" /\ Bridge!Init
    \/ part = "samples" /\ Instr!Init /\ Unused10

MCNext ==
    /\ UNCHANGED part
    /\ \/ part = "pairing" /\ Pair!Next
       \/ part = "catalogue" /\ Cat!Next /\ UNCHANGED Rest9
       \/ part = "web" /\ Api!Next /\ UNCHANGED Rest13
       \/ part = "host" /\ Host!Next /\ UNCHANGED Rest9
       \/ part = "sessions" /\ Stream!Next /\ UNCHANGED Rest13
       \/ part = "grid" /\ Grid!Next /\ UNCHANGED Rest9
       \/ part = "effects" /\ Effect!Next /\ UNCHANGED Rest10
       \/ part = "section" /\ Section!Next /\ UNCHANGED Rest10
       \/ part = "device" /\ Device!Next /\ UNCHANGED Rest11
       \/ part = "bridge" /\ Bridge!Next
       \/ part = "samples" /\ Instr!Next /\ UNCHANGED Rest10

MCSpec == MCInit /\ [][MCNext]_vars

-----------------------------------------------------------------------------
(* Properties.  Each is said of one part, and defined with its machine.    *)

\* Of the TVs that type a PIN against one arming at most one becomes a client;
\* no two clients share an identifier; and a TV whose attempt the server ends
\* is told so (web/pairing.rs, android/pair.rs).
PairedOnceAndTold == part = "pairing" =>
    Pair!OneClientPerArming /\ Pair!IdsAreUnique /\ Pair!EndsAreTold

\* A TV that was told it is paired is on disk, and so is a client that may
\* connect; one that was revoked is not let in again, whichever writes failed
\* and wherever the server died between them (web/pairing.rs, web/store.rs).
ClientsAreAsSaved == part = "pairing" =>
    Pair!AcceptedIsSaved /\ Pair!KnownIsSaved /\ Pair!RevokedStaysRevoked

\* An image belongs to the app it was uploaded for, never to one that took a
\* deleted app's number, and the catalogue in memory is the one on disk.  What the
\* server does, to a web request or to a Hello, it does by settings that are saved
\* and were in force since it began (web/store.rs, web/api.rs, web/control.rs).
ActsOnWhatIsSaved ==
    /\ part = "catalogue" => Cat!ArtIsOfItsApp /\ Cat!ConfigIsSaved
    /\ part = "web" => Api!ActsOnWhatIsSaved

\* Prep commands stay in effect while their game runs, however its launcher hands
\* over to it, and are undone in the reverse order.  However a stream ends, the
\* desktop is left as it was found, apart from what somebody else set meanwhile
\* (server/win_host.rs, server/session.rs, server/display.rs).
HostIsAsFound ==
    /\ part = "host" => Host!PrepOutlivesTheLauncher /\ Host!PrepIsAStack
    /\ part = "sessions" => Stream!DesktopAsFound

\* The art the launcher shows for an app is the app's, however the cache, the
\* pages and the chunks interleave (android/launcher.rs, endpoint.rs).
CacheIsTrue == part = "grid" => Grid!CacheIsTrue

\* The driver reads no frame made of two, the frame shown while the server is
\* restarted included; a plug that fails or is given up leaves nothing behind, its
\* late callback does no harm, and a device is bound as the family it shows itself
\* as (input/pad/shmem.rs, device.rs).
DevicesAreWhole ==
    /\ part = "section" => Section!NeverTorn
    /\ part = "device" =>
         Device!LateCallbackIsHarmless /\ Device!NothingLeftBehind /\ Device!BoundAsItsFamily

\* No stream has more headsets on than the cap allows, and while the activity's
\* first one lasts no more are on at all; and the last word of a pad is not lost in
\* the queue (android/headset.rs, gip/shim, android/usb.rs).
HeadsetsAreCapped == part = "bridge" => Bridge!HeadsetsAreCapped /\ Bridge!LastWordIsTold

\* The pad in the hand never goes back from the effect it follows to one of an earlier
\* report, over any order of delivery, loss, repetition and wrap (input/inject.rs,
\* android/pad.rs).
EffectsGoForward == [][part = "effects" => Effect!GoesForward]_vars

\* Every sample of a latency is counted once or counted as dropped, threads and
\* collectors coming and going, and none of them holds a ring that is freed
\* (core/instr/ring.rs).
MeasuresAreTrue == part = "samples" => Instr!SamplesAccountedFor

\* Attempts are interchangeable, and so are threads.
Symmetry == Permutations(Attempt) \cup Permutations(Worker) \cup Permutations(Server)

=============================================================================
