-------------------------------- MODULE WebApi --------------------------------
(***************************************************************************)
(* The management API (web/api.rs with web/http.rs, web/auth.rs and        *)
(* web/config.rs) and the two things it governs: the host behind it        *)
(* (web/host.rs) and the session the control channel starts with its       *)
(* settings (web/control.rs).  Clients and pairing are Pairing, art is     *)
(* Catalogue, what a launch does is AppHost.                               *)
(*                                                                         *)
(* A request is answered on a thread of the web server, which lets the     *)
(* state's lock go between authorising and handling, and between looking   *)
(* an app up and asking the host; a hello, on the endpoint's thread, reads *)
(* the host and then the settings, one lock at a time.                     *)
(***************************************************************************)
EXTENDS Naturals, FiniteSets

CONSTANTS
    Worker,      \* threads that serve requests
    Settings,    \* what PUT /api/config may hold: the cases to try
    Entries,     \* what POST and PUT of an app may hold: the cases to try
    Tokens,      \* what the Authorization header may hold
    MaxCreates,  \* bound: apps created
    MaxSaves,    \* bound: requests that save
    MaxFailures, \* bound: writes and host calls that fail
    MaxRestarts  \* bound: restarts of the server

WebBounds ==
    /\ {MaxCreates, MaxSaves, MaxFailures, MaxRestarts} \subseteq Nat
    /\ \A body \in Settings : DOMAIN body.web = {"lan", "port", "token"}

VARIABLES
    config,     \* Inner.config
    configFile, \* config.json
    auth,       \* Inner.auth
    calls,      \* what each worker is in the middle of
    running,    \* the host's running app
    listed,     \* the sessions the host lists
    hello,      \* on_hello: what it has read, and of which
    session,    \* the settings of the session started last
    since,      \* every configuration in force since on_hello began
    saves, failures, restarts \* counts, for the bounds

vars == <<config, configFile, auth, calls, running, listed, hello,
          session, since, saves, failures, restarts>>

None == "none"
NoId == 99
NoApp == [id |-> NoId]
NoHello == [at |-> None]
NoSession == [of |-> {}]
Idle == [op |-> None]
Admitted == [op |-> "admitted"]

-----------------------------------------------------------------------------
(* The configuration.                                                      *)

\* Config::default: loopback, and no app.
DefaultWeb == [lan |-> FALSE, port |-> 47810, token |-> ""]
DefaultStream == [port |-> 47811, rate |-> 120, codec |-> "auto"]
DefaultInput == [sensitivity |-> 1, epp |-> FALSE]
Default == [web |-> DefaultWeb, stream |-> DefaultStream, input |-> DefaultInput,
            apps |-> [id \in {} |-> NoApp], next |-> 0]

\* load: a token is minted even for a loopback bind.
WithToken(c) == IF c.web.token = "" THEN [c EXCEPT !.web.token = "minted"] ELSE c
FirstRun == WithToken(Default)

ProcessNames == {"Game.exe"}
EntryIsValid(e) ==
    /\ e.name # "" /\ e.exe # ""
    /\ e.wait \in ProcessNames \cup {None}

\* validate, by load and before every save.
IsValid(c) ==
    /\ ~(c.web.lan /\ c.web.token = "")
    /\ c.web.port # c.stream.port
    /\ \A id \in DOMAIN c.apps : id < c.next /\ EntryIsValid(c.apps[id])

\* effective: an app's overrides over the settings of the stream.
Overridden(value, inherit, default) == IF value = inherit THEN default ELSE value
Effective(c, id) ==
    IF id \in DOMAIN c.apps
      THEN [c.stream EXCEPT !.rate = Overridden(c.apps[id].rate, 0, @),
                            !.codec = Overridden(c.apps[id].codec, None, @)]
      ELSE c.stream

\* Auth::from_config and authorize.
AuthOf(web) == IF web.token # "" THEN web.token ELSE IF web.lan THEN "denied" ELSE "open"
Admits(header) == auth = "open" \/ (auth # "denied" /\ header = auth)

-----------------------------------------------------------------------------

Init ==
    /\ config = FirstRun /\ configFile = FirstRun
    /\ auth = AuthOf(FirstRun.web)
    /\ calls = [w \in Worker |-> Idle]
    /\ running = NoApp /\ listed = {}
    /\ hello = NoHello /\ session = NoSession
    /\ since = {}
    /\ saves = 0 /\ failures = 0 /\ restarts = 0

Answered(w) == calls' = [calls EXCEPT ![w] = Idle]

Count(ok) ==
    /\ ok \/ failures < MaxFailures
    /\ failures' = IF ok THEN failures ELSE failures + 1

\* The head of dispatch: authorised first, and the lock let go.  A body over
\* the limit or cut short never gets here, and any other header is a 401.
Authorize(w, header) ==
    /\ calls[w] = Idle
    /\ Admits(header)
    /\ calls' = [calls EXCEPT ![w] = Admitted]
    /\ UNCHANGED <<config, configFile, auth, running, listed, hello, session, since,
                   saves, failures, restarts>>

\* What every handler that saves does: the candidate is validated and written,
\* and only then takes the place of the configuration.
KeptFirst(candidate, ok) == candidate
InForce(candidate, ok) == IF ok THEN candidate ELSE config

Save(w, candidate) ==
    /\ saves < MaxSaves /\ saves' = saves + 1
    /\ \E written \in IF IsValid(candidate) THEN BOOLEAN ELSE {FALSE} :
         /\ Count(written \/ ~IsValid(candidate))
         /\ configFile' = IF written THEN candidate ELSE configFile
         /\ config' = InForce(candidate, written)
         /\ Answered(w)
    /\ since' = IF hello = NoHello THEN {} ELSE since \cup {config'}
    /\ UNCHANGED <<running, listed, hello, session, restarts>>

\* update_settings: the body holds no apps, so saving it cannot wipe them.
UpdateSettings(w, body) ==
    /\ calls[w] = Admitted
    /\ Save(w, [config EXCEPT !.web = body.web, !.stream = body.stream,
                              !.input = body.input])
    /\ auth' = AuthOf(config'.web)

\* The id is the server's to assign.
CreateApp(w, entry) ==
    /\ calls[w] = Admitted /\ config.next < MaxCreates
    /\ Save(w, [config EXCEPT !.next = @ + 1,
                              !.apps = [id \in DOMAIN @ \cup {config.next} |->
                                          IF id = config.next THEN entry ELSE @[id]]])
    /\ UNCHANGED auth

UpdateApp(w, id, entry) ==
    /\ calls[w] = Admitted /\ id \in DOMAIN config.apps
    /\ Save(w, [config EXCEPT !.apps[id] = entry])
    /\ UNCHANGED auth

DeleteApp(w, id) ==
    /\ calls[w] = Admitted /\ id \in DOMAIN config.apps
    /\ Save(w, [config EXCEPT !.apps = [i \in DOMAIN @ \ {id} |-> @[i]]])
    /\ UNCHANGED auth

\* A body that does not parse, a path that is not an endpoint, an id that is
\* not there; and the requests that only read.
AnswerOnly(w) ==
    /\ calls[w] = Admitted
    /\ Answered(w)
    /\ UNCHANGED <<config, configFile, auth, running, listed, hello, session, since,
                   saves, failures, restarts>>

-----------------------------------------------------------------------------
(* The host.                                                               *)

\* launch_app, and launch for the control channel: the entry is copied under
\* the lock, which is let go before the host is asked.
LookUp(w, id) ==
    /\ calls[w] = Admitted /\ id \in DOMAIN config.apps
    /\ calls' = [calls EXCEPT ![w] = [op |-> "launch", id |-> id, entry |-> config.apps[id]]]
    /\ UNCHANGED <<config, configFile, auth, running, listed, hello, session,
                   since, saves, failures, restarts>>

IsUri(exe) == exe = "steam://rungameid"
TrackingOf(e) == IF e.wait # None THEN "process" ELSE IF IsUri(e.exe) THEN "untracked" ELSE "job"

\* Host::launch: one at a time, but one that nothing could see exit gives way.
HostLaunch(w) ==
    /\ calls[w].op = "launch"
    /\ LET busy == running # NoApp /\ running.tracking # "untracked"
           app  == calls[w]
       IN  \E ok \in BOOLEAN :
             /\ Count(ok)
             /\ Answered(w)
             /\ running' = IF ok /\ ~busy
                             THEN [id |-> app.id, entry |-> app.entry,
                                   tracking |-> TrackingOf(app.entry)]
                             ELSE running
    /\ UNCHANGED <<config, configFile, auth, listed, hello, session, since, saves, restarts>>

Terminate(w) ==
    /\ calls[w] = Admitted
    /\ \E ok \in BOOLEAN :
         /\ Count(ok)
         /\ Answered(w)
         /\ running' = IF ok THEN NoApp ELSE running
    /\ UNCHANGED <<config, configFile, auth, listed, hello, session, since, saves, restarts>>

\* The watcher sees it exit.
Exits ==
    /\ running # NoApp /\ running.tracking # "untracked"
    /\ running' = NoApp
    /\ UNCHANGED <<config, configFile, auth, calls, listed, hello, session,
                   since, saves, failures, restarts>>

Disconnect(w) ==
    /\ calls[w] = Admitted
    /\ \E ok \in BOOLEAN :
         /\ Count(ok)
         /\ Answered(w)
         /\ listed' = IF ok THEN {} ELSE listed
    /\ UNCHANGED <<config, configFile, auth, running, hello, session, since, saves, restarts>>

\* restart, and load in the process that follows.  The answer left first.
Restart(w) ==
    /\ calls[w] = Admitted /\ restarts < MaxRestarts
    /\ restarts' = restarts + 1
    /\ config' = WithToken(configFile) /\ configFile' = WithToken(configFile)
    /\ auth' = AuthOf(config'.web)
    /\ calls' = [v \in Worker |-> Idle]
    /\ running' = NoApp /\ listed' = {}
    /\ hello' = NoHello /\ session' = NoSession
    /\ since' = {}
    /\ UNCHANGED <<saves, failures>>

-----------------------------------------------------------------------------
(* on_hello.                                                               *)

\* effective_stream_config asks the host before it takes the lock.
AskHost ==
    /\ hello = NoHello
    /\ hello' = [at |-> "effective", app |-> running.id]
    /\ since' = {config}
    /\ UNCHANGED <<config, configFile, auth, calls, running, listed, session,
                   saves, failures, restarts>>

ReadEffective ==
    /\ hello.at = "effective"
    /\ hello' = [at |-> "input", app |-> hello.app, stream |-> Effective(config, hello.app)]
    /\ UNCHANGED <<config, configFile, auth, calls, running, listed, session,
                   since, saves, failures, restarts>>

\* The input settings are read once for the session and once for the injector.
ReadInput ==
    /\ hello.at = "input"
    /\ hello' = [at |-> "configure", app |-> hello.app, stream |-> hello.stream,
                 input |-> config.input]
    /\ UNCHANGED <<config, configFile, auth, calls, running, listed, session,
                   since, saves, failures, restarts>>

\* configure, then session_start.
SessionStart ==
    /\ hello.at = "configure"
    /\ session' = [stream |-> hello.stream, input |-> hello.input, app |-> hello.app,
                   injector |-> config.input.sensitivity, of |-> since]
    /\ listed' = {hello.app} /\ hello' = NoHello /\ since' = {}
    /\ UNCHANGED <<config, configFile, auth, calls, running, saves, failures, restarts>>

Next ==
    \/ Exits \/ AskHost \/ ReadEffective \/ ReadInput \/ SessionStart
    \/ \E w \in Worker :
         \/ AnswerOnly(w) \/ HostLaunch(w) \/ Terminate(w)
         \/ Disconnect(w) \/ Restart(w)
         \/ \E header \in Tokens : Authorize(w, header)
         \/ \E body \in Settings : UpdateSettings(w, body)
         \/ \E entry \in Entries : CreateApp(w, entry)
         \/ \E id \in 0 .. MaxCreates - 1 :
              \/ DeleteApp(w, id) \/ LookUp(w, id)
              \/ \E entry \in Entries : UpdateApp(w, id, entry)

Spec == Init /\ [][Next]_vars

-----------------------------------------------------------------------------

\* What acts is what was saved.  However saves that fail, edits of the running
\* app and a restart fall between the locks of a hello or a launch, a session
\* streams by one whole configuration that was in force since its hello, with
\* the overrides of the app it asked about; its input settings, and the
\* injector's, are each of one too; and a restart brings back what is in force
\* (config.rs: "a bad edit through the API is refused rather than persisted
\* and then failed on at the next start").
ActsOnWhatIsSaved ==
    /\ config = configFile /\ IsValid(config) /\ auth = AuthOf(config.web)
    /\ session # NoSession =>
         /\ \E c \in session.of : IsValid(c) /\ session.stream = Effective(c, session.app)
         /\ \E c \in session.of : IsValid(c) /\ session.input = c.input
         /\ \E c \in session.of : IsValid(c) /\ session.injector = c.input.sensitivity
    /\ running # NoApp => EntryIsValid(running.entry)

(***************************************************************************)
(* What makes it inductive: what a hello has read so far is of valid       *)
(* configurations in force since it began, and a launch that has looked    *)
(* its app up has a valid entry.                                           *)
(***************************************************************************)
HelloIsOfItsTime ==
    hello # NoHello =>
        /\ config \in since /\ \A c \in since : IsValid(c)
        /\ hello.at \in {"input", "configure"} =>
             \E c \in since : hello.stream = Effective(c, hello.app)
        /\ hello.at = "configure" => \E c \in since : hello.input = c.input

LaunchesAreValid ==
    /\ DOMAIN calls = Worker
    /\ \A w \in Worker : calls[w].op = "launch" => EntryIsValid(calls[w].entry)

ConfigIsWhole ==
    /\ DOMAIN config = {"web", "stream", "input", "apps", "next"}
    /\ DOMAIN config.web = {"lan", "port", "token"}

WebInv == ActsOnWhatIsSaved /\ HelloIsOfItsTime /\ LaunchesAreValid /\ ConfigIsWhole
=============================================================================
