------------------------------- MODULE AppGrid -------------------------------
(***************************************************************************)
(* The TV's app grid: the catalogue fetched in pages and each app's box    *)
(* art in chunks over a control connection of its own, and the cache of    *)
(* images on the TV (android/launcher.rs, catalogue.rs), against a server  *)
(* (net/endpoint.rs, web/control.rs, core/proto/art.rs) whose catalogue    *)
(* the web UI changes meanwhile.                                           *)
(*                                                                         *)
(* The channel delivers the server's messages in order; when a lost one is *)
(* sent again, several become deliverable at once, and recv_control hands  *)
(* over the first and drops the others (endpoint.rs:1127-1137).  An image  *)
(* is its own digest; its bytes are its chunks.                            *)
(***************************************************************************)
EXTENDS Naturals, Sequences, FiniteSets

LOCAL INSTANCE SequencesExt

CONSTANTS
    Apps,      \* how many apps the catalogue starts with
    Images,    \* box art
    Chunks,    \* chunks an image is sent in
    PageSize,  \* apps a page has room for
    None,      \* no art
    MaxEdits,  \* bound: changes in the web UI
    MaxBatches,\* bound: batches of more than one message
    MaxRuns    \* bound: times the TV fetches the grid

GridBounds ==
    /\ {Apps, Chunks, PageSize, MaxRuns} \subseteq Nat \ {0}
    /\ {MaxEdits, MaxBatches} \subseteq Nat
    /\ None \notin Images

VARIABLES
    art,      \* the server's catalogue: the art of each app that is there
    serving,  \* on_app_list between its two reads, or NotServing
    asked,    \* the client's requests on their way, in order
    sent,     \* the server's messages on their way, in order
    tv,       \* what the launcher is doing, and what it has so far
    cache,    \* the TV's files: the bytes under each name
    shown,    \* the grid the last finished fetch returned
    bounds    \* edits, batches and runs so far

vars == <<art, serving, asked, sent, tv, cache, shown, bounds>>

App == 1 .. Apps
NotServing == [app |-> 0]
Whole(image) == [c \in 1 .. Chunks |-> <<image, c>>]

\* AppPages: the apps so far and how many there will be.
NoPages == [apps |-> <<>>, total |-> Apps + 1]

\* ArtAssembler, before the first chunk.
NoBytes == [digest |-> None, bytes |-> <<>>]
Off == [at |-> "off", pages |-> NoPages, next |-> 1, joined |-> NoBytes, paths |-> <<>>]

Init ==
    /\ art \in [App -> Images \cup {None}]
    /\ serving = NotServing
    /\ asked = <<>> /\ sent = <<>>
    /\ tv = Off
    /\ cache = <<>>
    /\ shown = <<>>
    /\ bounds = [edits |-> 0, batches |-> 0, runs |-> 0]

(* The web UI. *)

\* put_art, delete_art: an app's art is another image, or none.
ChangeArt ==
    /\ bounds.edits < MaxEdits
    /\ \E a \in DOMAIN art : \E i \in (Images \cup {None}) \ {art[a]} :
         art' = [art EXCEPT ![a] = i]
    /\ bounds' = [bounds EXCEPT !.edits = @ + 1]
    /\ UNCHANGED <<serving, asked, sent, tv, cache, shown>>

\* delete_app, with its art.
DeleteApp ==
    /\ bounds.edits < MaxEdits
    /\ \E a \in DOMAIN art : art' = [b \in DOMAIN art \ {a} |-> art[b]]
    /\ bounds' = [bounds EXCEPT !.edits = @ + 1]
    /\ UNCHANGED <<serving, asked, sent, tv, cache, shown>>

(* The server's endpoint. *)

\* app_list_pages: the whole list, at least one page.
Page(list, start) ==
    [kind |-> "page", total |-> Len(list), start |-> start,
     apps |-> SubSeq(list, start + 1,
                     IF start + PageSize < Len(list) THEN start + PageSize ELSE Len(list))]

Pages(list) ==
    LET count == IF list = <<>> THEN 1 ELSE (Len(list) + PageSize - 1) \div PageSize
    IN  [p \in 1 .. count |-> Page(list, (p - 1) * PageSize)]

ArtOf(app) == IF app \in DOMAIN art THEN art[app] ELSE None

\* on_app_list: the apps first, then each one's art, under locks of their own.
ReadApps ==
    /\ serving = NotServing
    /\ asked # <<>> /\ Head(asked).kind = "list"
    /\ serving' = [app |-> 1, ids |-> SetToSortSeq(DOMAIN art, <), list |-> <<>>]
    /\ UNCHANGED <<art, asked, sent, tv, cache, shown, bounds>>

ReadArt ==
    /\ serving # NotServing
    /\ serving.app <= Len(serving.ids)
    /\ LET id == serving.ids[serving.app] IN
       serving' = [serving EXCEPT !.list = Append(@, [id |-> id, art |-> ArtOf(id)]),
                                  !.app = @ + 1]
    /\ UNCHANGED <<art, asked, sent, tv, cache, shown, bounds>>

SendList ==
    /\ serving # NotServing
    /\ serving.app > Len(serving.ids)
    /\ sent' = sent \o Pages(serving.list)
    /\ asked' = Tail(asked)
    /\ serving' = NotServing
    /\ UNCHANGED <<art, tv, cache, shown, bounds>>

\* chunk_art: the image in order, or one empty chunk.  The whole transfer is
\* queued at once, of whatever the art is now.
ChunksOf(app) ==
    IF ArtOf(app) = None
    THEN <<[kind |-> "chunk", app |-> app, digest |-> None, offset |-> 0]>>
    ELSE [c \in 1 .. Chunks |->
            [kind |-> "chunk", app |-> app, digest |-> ArtOf(app), offset |-> c - 1]]

SendArt ==
    /\ serving = NotServing
    /\ asked # <<>> /\ Head(asked).kind = "art"
    /\ sent' = sent \o ChunksOf(Head(asked).app)
    /\ asked' = Tail(asked)
    /\ UNCHANGED <<art, serving, tv, cache, shown, bounds>>

(* The TV's launcher: one blocking call. *)

\* catalogue: a connection of its own, and the request.
Fetch ==
    /\ tv.at = "off" /\ bounds.runs < MaxRuns
    /\ tv' = [Off EXCEPT !.at = "list"]
    /\ asked' = <<[kind |-> "list"]>> /\ sent' = <<>> /\ serving' = NotServing
    /\ bounds' = [bounds EXCEPT !.runs = @ + 1]
    /\ UNCHANGED <<art, cache, shown>>

\* AppPages::push ignores a page that does not continue the list.
Continues(page, pages) == page.start = Len(pages.apps)

PagesWith(page, pages) ==
    IF Continues(page, pages)
    THEN [apps |-> pages.apps \o page.apps, total |-> page.total]
    ELSE pages

Complete(pages) == pages.total <= Len(pages.apps)

\* What one message does to the launcher that waits for the list.
OnList(m) ==
    LET pages == IF m.kind = "page" THEN PagesWith(m, tv.pages) ELSE tv.pages IN
    [tv EXCEPT !.pages = pages, !.at = IF Complete(pages) THEN "next" ELSE "list"]

\* ArtAssembler::push: a first chunk says what the image is, another continues
\* it or is refused.
Joined(m) ==
    IF m.offset = 0 THEN [digest |-> m.digest, bytes |-> <<(<<m.digest, 1>>)>>]
    ELSE [tv.joined EXCEPT !.bytes = Append(@, <<m.digest, m.offset + 1>>)]

Refused(m) ==
    m.offset # 0 /\ (m.offset # Len(tv.joined.bytes) \/ m.digest # tv.joined.digest)

Wanted == tv.pages.apps[tv.next]
WithPath(t, path) ==
    [t EXCEPT !.at = "next", !.next = @ + 1, !.joined = NoBytes,
              !.paths = Append(@, path)]

\* A chunk of another app is passed over; an image that is whole is stored next.
OnArt(m) ==
    CASE m.kind # "chunk" \/ m.app # Wanted.id -> tv
      [] m.kind = "chunk" /\ m.app = Wanted.id /\ m.digest = None -> WithPath(tv, None)
      [] m.kind = "chunk" /\ m.app = Wanted.id /\ m.digest # None /\ Refused(m) ->
           WithPath(tv, None)
      [] OTHER -> [tv EXCEPT !.joined = Joined(m),
                             !.at = IF Len(Joined(m).bytes) = Chunks THEN "store" ELSE "art"]

\* await_control: one message is taken; those that came with it are gone.
Receive ==
    /\ sent # <<>> /\ tv.at \in {"list", "art"}
    /\ \E batch \in 1 .. Len(sent) :
         /\ batch > 1 => bounds.batches < MaxBatches
         /\ sent' = SubSeq(sent, batch + 1, Len(sent))
         /\ bounds' = [bounds EXCEPT !.batches = @ + IF batch > 1 THEN 1 ELSE 0]
    /\ tv' = IF tv.at = "list" THEN OnList(Head(sent)) ELSE OnArt(Head(sent))
    /\ UNCHANGED <<art, serving, asked, cache, shown>>

\* await_control gives up: no list is the end, no image is an app without one.
TimeOut ==
    /\ tv.at \in {"list", "art"}
    /\ tv' = IF tv.at = "list" THEN Off ELSE WithPath(tv, None)
    /\ UNCHANGED <<art, serving, asked, sent, cache, shown, bounds>>

\* The next app: without art, cached already, or to be fetched.
NextApp ==
    /\ tv.at = "next" /\ tv.next <= Len(tv.pages.apps)
    /\ \/ /\ Wanted.art = None \/ Wanted.art \in DOMAIN cache
          /\ tv' = WithPath(tv, Wanted.art)
          /\ UNCHANGED asked
       \/ /\ Wanted.art # None /\ Wanted.art \notin DOMAIN cache
          /\ tv' = [tv EXCEPT !.at = "art"]
          /\ asked' = Append(asked, [kind |-> "art", app |-> Wanted.id])
    /\ UNCHANGED <<art, serving, sent, cache, shown, bounds>>

\* A plausible slip: the image is named by the digest that was asked for.
NamedAsAsked == Wanted.art

\* The image is verified against the digest it came under, written to a file of
\* another name and renamed: it is in the cache whole.
NamedBy == tv.joined.digest
Verified == tv.joined.bytes = Whole(tv.joined.digest)

Store ==
    /\ tv.at = "store"
    /\ cache' = IF Verified
                THEN [n \in DOMAIN cache \cup {NamedBy} |->
                        IF n = NamedBy THEN tv.joined.bytes ELSE cache[n]]
                ELSE cache
    /\ tv' = WithPath(tv, IF Verified THEN NamedBy ELSE None)
    /\ UNCHANGED <<art, serving, asked, sent, shown, bounds>>

\* stale: the images no listing names any more.
Keep == {tv.pages.apps[i].art : i \in DOMAIN tv.pages.apps}

\* The cache is swept of them, and the grid is returned.
Finish ==
    /\ tv.at = "next" /\ tv.next > Len(tv.pages.apps)
    /\ cache' = [n \in DOMAIN cache \cap Keep |-> cache[n]]
    /\ shown' = [i \in DOMAIN tv.pages.apps |-> [app |-> tv.pages.apps[i], path |-> tv.paths[i]]]
    /\ tv' = Off
    /\ UNCHANGED <<art, serving, asked, sent, bounds>>

\* The app is killed while it fetches; the files stay.
Killed ==
    /\ tv.at # "off"
    /\ tv' = Off
    /\ UNCHANGED <<art, serving, asked, sent, cache, shown, bounds>>

Next ==
    \/ ChangeArt \/ DeleteApp
    \/ ReadApps \/ ReadArt \/ SendList \/ SendArt
    \/ Fetch \/ Receive \/ TimeOut \/ NextApp \/ Store \/ Finish \/ Killed

Spec == Init /\ [][Next]_vars

(***************************************************************************)
(* A file of the cache holds the image it is named after, whole, although  *)
(* messages are dropped in the middle of a transfer and the art changes    *)
(* between the list and the request: a name is looked for and never read   *)
(* again, so a wrong file would be shown for good (launcher.rs:141-142).   *)
(***************************************************************************)
CacheIsTrue == \A n \in DOMAIN cache : cache[n] = Whole(n)

(***************************************************************************)
(* Stated by launcher.rs:73-74 ("the list, with each app's cached art path *)
(* ... evicting what is no longer listed"): the grid that is returned names*)
(* files that are there.                                                   *)
(***************************************************************************)
PathsExist ==
    [][shown' # shown =>
         \A i \in DOMAIN shown' : shown'[i].path \in DOMAIN cache' \cup {None}]_vars
=============================================================================
