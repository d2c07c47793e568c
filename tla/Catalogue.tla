------------------------------ MODULE Catalogue ------------------------------
(***************************************************************************)
(* The app catalogue of the web UI and the art that goes with it           *)
(* (web/api.rs, web/config.rs, web/store.rs).  The catalogue lives under   *)
(* the state's lock and in config.json, the art under a lock of its own    *)
(* and in one file an app.  Requests run on several threads, and those     *)
(* that touch art take the two locks and the files one after the other.    *)
(*                                                                         *)
(* An app is the number of the request that created it, whatever id it     *)
(* was given; an image is the app it was uploaded for.                     *)
(***************************************************************************)
EXTENDS Naturals, Functions

CONSTANTS
    Worker,        \* threads that serve requests
    MaxCreates,    \* bound: apps created
    MaxWriteFails, \* bound: writes that fail
    MaxRestarts    \* bound: restarts of the server

CatalogueBounds == {MaxCreates, MaxWriteFails, MaxRestarts} \subseteq Nat

VARIABLES
    config,    \* the catalogue in memory: apps by id, and next_app_id
    configFile,\* config.json
    art,       \* the art index in memory, by app id
    artFiles,  \* the files of the art directory, by app id
    calls,     \* the request each worker is in the middle of
    creates,   \* apps created so far
    writeFails,\* writes that have failed
    restarts   \* restarts so far

vars == <<config, configFile, art, artFiles, calls, creates, writeFails, restarts>>

AppId == 0 .. MaxCreates - 1
App == 1 .. MaxCreates

Idle == [op |-> "idle", id |-> 0, for |-> 0]
Call(op, id, app) == [op |-> op, id |-> id, for |-> app]

\* Config::default: no app, and ids from zero.
Empty == [apps |-> <<>>, next |-> 0]

With(f, id, value) == [i \in DOMAIN f \cup {id} |-> IF i = id THEN value ELSE f[i]]
Less(f, id) == [i \in DOMAIN f \ {id} |-> f[i]]

Init ==
    /\ config = Empty /\ configFile = Empty
    /\ art = <<>> /\ artFiles = <<>>
    /\ calls = [w \in Worker |-> Idle]
    /\ creates = 0 /\ writeFails = 0 /\ restarts = 0

\* delete_app holds the state's lock to its end.
Locked == \E w \in Worker : calls[w].op \in {"unindex", "unlink app"}

CountWrite(ok) ==
    /\ ok \/ writeFails < MaxWriteFails
    /\ writeFails' = IF ok THEN writeFails ELSE writeFails + 1

\* Store::save_config, and the candidate taking the place of the config once
\* it is on disk.
CommitFirst(candidate, ok) ==
    /\ CountWrite(ok)
    /\ configFile' = IF ok THEN candidate ELSE configFile
    /\ config' = candidate
Commit(candidate, ok) ==
    /\ CountWrite(ok)
    /\ configFile' = IF ok THEN candidate ELSE configFile
    /\ config' = IF ok THEN candidate ELSE config

\* Config::allocate_app_id.
AllocatedAfterLast(c) ==
    CHOOSE n \in {0} \cup {i + 1 : i \in DOMAIN c.apps} : \A i \in DOMAIN c.apps : i < n
AllocatedId(c) == c.next

\* The entry create_app adds to its candidate.
Added(c, app) == [apps |-> With(c.apps, AllocatedId(c), app), next |-> c.next + 1]

CreateApp(w) ==
    /\ calls[w] = Idle /\ ~Locked
    /\ creates < MaxCreates
    /\ creates' = creates + 1
    /\ \E ok \in BOOLEAN : Commit(Added(config, creates'), ok)
    /\ UNCHANGED <<art, artFiles, calls, restarts>>

\* delete_app: the file and the catalogue, then the index, then the image.
DeleteApp(w, id) ==
    /\ calls[w] = Idle /\ ~Locked
    /\ id \in DOMAIN config.apps
    /\ \E ok \in BOOLEAN :
         /\ Commit([config EXCEPT !.apps = Less(@, id)], ok)
         /\ calls' = IF ok THEN [calls EXCEPT ![w] = Call("unindex", id, 0)] ELSE calls
    /\ UNCHANGED <<art, artFiles, creates, restarts>>

Unindex(w) ==
    /\ calls[w].op = "unindex"
    /\ art' = Less(art, calls[w].id)
    /\ calls' = [calls EXCEPT ![w].op = "unlink app"]
    /\ UNCHANGED <<config, configFile, artFiles, creates, writeFails, restarts>>

\* put_art looks the app up, lets the lock go, and then writes.
PutArt(w, id) ==
    /\ calls[w] = Idle /\ ~Locked
    /\ id \in DOMAIN config.apps
    /\ calls' = [calls EXCEPT ![w] = Call("write", id, config.apps[id])]
    /\ UNCHANGED <<config, configFile, art, artFiles, creates, writeFails, restarts>>

WriteArt(w) ==
    /\ calls[w].op = "write"
    /\ \E ok \in BOOLEAN :
         /\ CountWrite(ok)
         /\ artFiles' = IF ok THEN With(artFiles, calls[w].id, calls[w].for) ELSE artFiles
         /\ calls' = [calls EXCEPT ![w] = IF ok THEN [@ EXCEPT !.op = "index"] ELSE Idle]
    /\ UNCHANGED <<config, configFile, art, creates, restarts>>

IndexArt(w) ==
    /\ calls[w].op = "index"
    /\ art' = With(art, calls[w].id, calls[w].for)
    /\ calls' = [calls EXCEPT ![w] = Idle]
    /\ UNCHANGED <<config, configFile, artFiles, creates, writeFails, restarts>>

\* delete_art: out of the index, then off the disk.
DeleteArt(w, id) ==
    /\ calls[w] = Idle
    /\ id \in DOMAIN art
    /\ art' = Less(art, id)
    /\ calls' = [calls EXCEPT ![w] = Call("unlink", id, 0)]
    /\ UNCHANGED <<config, configFile, artFiles, creates, writeFails, restarts>>

\* Store::delete_art; delete_app does not look at how it went.
Unlink(w) ==
    /\ calls[w].op \in {"unlink", "unlink app"}
    /\ \E ok \in BOOLEAN :
         /\ CountWrite(ok)
         /\ artFiles' = IF ok THEN Less(artFiles, calls[w].id) ELSE artFiles
    /\ calls' = [calls EXCEPT ![w] = Idle]
    /\ UNCHANGED <<config, configFile, art, creates, restarts>>

\* AppState::load: art of apps that are not in the catalogue is ignored.
Loaded == Restrict(artFiles, DOMAIN artFiles \cap DOMAIN configFile.apps)

Restart ==
    /\ restarts < MaxRestarts
    /\ restarts' = restarts + 1
    /\ config' = configFile
    /\ art' = Loaded
    /\ calls' = [w \in Worker |-> Idle]
    /\ UNCHANGED <<configFile, artFiles, creates, writeFails>>

Next ==
    \/ Restart
    \/ \E w \in Worker :
         \/ CreateApp(w) \/ Unindex(w) \/ WriteArt(w) \/ IndexArt(w) \/ Unlink(w)
         \/ \E id \in AppId : DeleteApp(w, id) \/ PutArt(w, id) \/ DeleteArt(w, id)

Spec == Init /\ [][Next]_vars

-----------------------------------------------------------------------------

Request == [op : {"idle", "unindex", "unlink app", "write", "index", "unlink"},
            id : Nat, for : Nat]
Index == UNION {[ids -> App] : ids \in SUBSET AppId}
Listing == [apps : Index, next : 0 .. MaxCreates]

TypeOK ==
    /\ {config, configFile} \subseteq Listing
    /\ {art, artFiles} \subseteq Index
    /\ calls \in [Worker -> Request] /\ creates \in 0 .. MaxCreates

\* No app is ever shown another's image: an upload that outlives its app's
\* deletion, and stays on disk, is for an id nothing else is given, whatever
\* is deleted, written and restarted meanwhile (config.rs: "Monotonic, never
\* reused"; api.rs: "an id is never reused, so a stale image would only ever
\* be dead weight").
ArtIsOfItsApp ==
    /\ \A id \in DOMAIN config.apps \cap DOMAIN art : art[id] = config.apps[id]
    /\ \A id \in DOMAIN configFile.apps \cap DOMAIN artFiles :
         artFiles[id] = configFile.apps[id]

\* What the UI was told is saved is what a restart brings back.
ConfigIsSaved == config = configFile

(***************************************************************************)
(* What makes these inductive: an id that anything goes by has been given  *)
(* out, and an upload under way is for the app that its id is of, if that  *)
(* is still there.                                                         *)
(***************************************************************************)
Uploads(w) == calls[w].op \in {"write", "index"}

IdsAreSpent ==
    /\ config.next <= creates
    /\ DOMAIN config.apps \cup DOMAIN art \cup DOMAIN artFiles
         \cup {calls[w].id : w \in {v \in Worker : Uploads(v)}}
       \subseteq 0 .. config.next - 1

UploadsAreOfTheirApp ==
    \A w \in Worker : Uploads(w) =>
        /\ calls[w].for \in App
        /\ calls[w].id \in DOMAIN config.apps => calls[w].for = config.apps[calls[w].id]

CatalogueInv ==
    TypeOK /\ ConfigIsSaved /\ ArtIsOfItsApp /\ IdsAreSpent /\ UploadsAreOfTheirApp
=============================================================================
