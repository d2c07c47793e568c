------------------------------- MODULE AppHost -------------------------------
(***************************************************************************)
(* The app the server has launched on its machine: the prep commands that  *)
(* are run before and undone after (server/win_host.rs), the tracker that  *)
(* decides when it has exited (web/apptrack.rs) and the job object the     *)
(* tracker looks at (server/proc.rs).                                      *)
(*                                                                         *)
(* Launches are asked for by the web UI's threads and the endpoint's; a    *)
(* watcher looks once a second.  All of them take the lock of running, and *)
(* hold it across the prep commands, each of which is a step of its own    *)
(* here: games start and exit, and the server may go down, in between.     *)
(* A game and its launcher are all the processes of a launch.              *)
(***************************************************************************)
EXTENDS Naturals, Sequences

CONSTANTS
    App,          \* the catalogue's entries
    Uri,          \* those whose exe is a URI
    Waits,        \* those with a wait_process
    Prep,         \* how many prep commands an app has
    Caller,       \* threads that launch
    MaxLaunches,  \* bound: launches that reach their prep
    MaxStarts,    \* bound: times a launch's game starts
    MaxFailures,  \* bound: commands and spawns that fail
    MaxRestarts   \* bound: restarts of the server

VARIABLES
    running,   \* the launch being tracked, Nothing when there is none
    lock,      \* what the holder of running's lock is doing, Free if nobody
    caller,    \* the app each thread is about to take the lock for
    world,     \* the processes of each launch
    launches,  \* launches so far
    applied,   \* the prep commands in effect, in the order they were run
    failures, restarts   \* counts, for the bounds

vars == <<running, lock, caller, world, launches, applied, failures, restarts>>

Nothing == [launch |-> 0]
NoApp == "none"
Free == [doing |-> "nothing"]

HostBounds ==
    /\ Prep \in [App -> Nat] /\ NoApp \notin App
    /\ {MaxLaunches, MaxStarts, MaxFailures, MaxRestarts} \subseteq Nat

\* Tracking::for_entry.
Tracking(app) == IF app \in Waits THEN "process"
                 ELSE IF app \in Uri THEN "untracked" ELSE "job"

\* What a launch has started so far: its launcher, and in or out of the
\* launch's job the game, since how many launches.
Launched(app, launcher, joined) ==
    [app |-> app, launcher |-> launcher, joined |-> joined,
     game |-> FALSE, inJob |-> FALSE, since |-> 0, starts |-> 0]
NotStarted(app) == Launched(app, FALSE, FALSE)

Init ==
    /\ running = Nothing /\ lock = Free
    /\ caller = [c \in Caller |-> NoApp]
    /\ world = <<>> /\ launches = 0
    /\ applied = <<>>
    /\ failures = 0 /\ restarts = 0

Fail ==
    /\ failures < MaxFailures
    /\ failures' = failures + 1

-----------------------------------------------------------------------------
(* One look at the running app: Launched::observe and Tracker::observe.    *)

\* Mutant: the child alone is looked at, job or no job.
ChildAlive(n) == world[n].launcher

\* Processes the job counts; with no job the child alone stands for the tree.
JobActive(n) ==
    IF world[n].joined THEN world[n].launcher \/ (world[n].game /\ world[n].inJob)
                       ELSE world[n].launcher

\* Whether a process of the awaited name is there, whoever started it.
Present(app) == \E n \in 1 .. launches : world[n].game /\ world[n].app = app

\* What Tracker::observe answers, and the tracker after it.
Seen(r) == r.seen \/ Present(r.app)
\* Mutant: every look that finds it gone starts the debounce anew.
AbsenceAnew(r) == IF r.seen /\ ~Present(r.app) THEN "since now" ELSE "not"

Absence(r) == IF Present(r.app) THEN "not"
              ELSE IF r.seen /\ r.absent = "not" THEN "since now" ELSE r.absent

Exited(r) ==
    CASE Tracking(r.app) = "untracked" -> FALSE
      [] Tracking(r.app) = "job" -> ~JobActive(r.launch)
      [] OTHER -> /\ ~Present(r.app)
                  /\ IF r.seen THEN Absence(r) = "for long"
                               ELSE ~JobActive(r.launch) /\ ~r.inGrace

Observed(r) == IF Tracking(r.app) = "process"
                 THEN [r EXCEPT !.seen = Seen(r), !.absent = Absence(r)]
                 ELSE r

Undo(r, next) == [doing |-> "undo", launch |-> r.launch, app |-> r.app,
                  step |-> Prep[r.app], next |-> next]
DoPrep(app) == [doing |-> "prep", app |-> app, step |-> 1]

\* reap(): look once, and if the app has exited forget it and undo its prep.
Look ==
    /\ lock = Free
    /\ IF running = Nothing
         THEN UNCHANGED <<running, lock>>
         ELSE IF Exited(running)
                THEN running' = Nothing /\ lock' = Undo(running, NoApp)
                ELSE running' = Observed(running) /\ lock' = Free

\* The watcher, or running_app() for anyone who asks.
Reap ==
    /\ running # Nothing
    /\ Look
    /\ UNCHANGED <<caller, world, launches, applied, failures, restarts>>

\* launch() looks first ...
LaunchLooks(c, app) ==
    /\ caller[c] = NoApp /\ launches < MaxLaunches
    /\ Look
    /\ caller' = [caller EXCEPT ![c] = app]
    /\ UNCHANGED <<world, launches, applied, failures, restarts>>

\* ... and then takes the lock anew: whatever is running by then is refused,
\* unless nothing could ever notice it exit, when it is replaced.
LaunchLocks(c) ==
    /\ caller[c] # NoApp /\ lock = Free
    /\ caller' = [caller EXCEPT ![c] = NoApp]
    /\ IF running = Nothing /\ launches < MaxLaunches
         THEN lock' = DoPrep(caller[c]) /\ UNCHANGED running
       ELSE IF running # Nothing /\ Tracking(running.app) = "untracked"
               /\ launches < MaxLaunches
         THEN lock' = Undo(running, caller[c]) /\ running' = Nothing
       ELSE UNCHANGED <<running, lock>>
    /\ UNCHANGED <<world, launches, applied, failures, restarts>>

\* terminate(): the job's processes, the child, and whatever has the awaited
\* name and was started since the launch.
Ended(r) == [n \in 1 .. launches |->
    LET own == n = r.launch
        named == Tracking(r.app) = "process" /\ world[n].app = r.app /\ world[n].since >= r.launch
    IN [world[n] EXCEPT !.launcher = @ /\ ~own,
                        !.game = @ /\ ~(own /\ world[n].inJob) /\ ~named]]

Terminate ==
    /\ lock = Free /\ running # Nothing
    /\ world' = Ended(running)
    /\ running' = Nothing
    /\ lock' = Undo(running, NoApp)
    /\ UNCHANGED <<caller, launches, applied, failures, restarts>>

-----------------------------------------------------------------------------
(* With the lock held: the prep commands, the spawn, and the undoing.      *)

\* The launch being prepared is the next one.
Preparing == launches + 1

PrepStep ==
    /\ lock.doing = "prep" /\ lock.step <= Prep[lock.app]
    /\ lock' = [lock EXCEPT !.step = @ + 1]
    /\ applied' = Append(applied, [launch |-> Preparing, step |-> lock.step])
    /\ UNCHANGED <<running, caller, world, launches, failures, restarts>>

\* A prep command or the spawn fails: the launch is given up, and what it had
\* already applied stays.
LaunchFails ==
    /\ lock.doing = "prep"
    /\ Fail
    /\ lock' = Free
    /\ launches' = Preparing
    /\ world' = Append(world, NotStarted(lock.app))
    /\ UNCHANGED <<running, caller, applied, restarts>>

\* The spawn, into a job unless one could not be made or joined, or the URI's
\* hand-over.
Spawn ==
    /\ lock.doing = "prep" /\ lock.step > Prep[lock.app]
    /\ launches' = Preparing
    /\ \E joined \in BOOLEAN :
         /\ joined => lock.app \notin Uri
         /\ joined \/ lock.app \in Uri \/ failures < MaxFailures
         /\ failures' = IF joined \/ lock.app \in Uri THEN failures ELSE failures + 1
         /\ world' = Append(world, Launched(lock.app, lock.app \notin Uri, joined))
    /\ running' = [launch |-> Preparing, app |-> lock.app, seen |-> FALSE,
                   absent |-> "not", inGrace |-> TRUE]
    /\ lock' = Free
    /\ UNCHANGED <<caller, applied, restarts>>

\* Mutant: undone in the order it was done.
StepForward(k, app) == Prep[app] + 1 - k

\* The step undo_prep is at, counting down from the last.
StepOf(k, app) == k

\* What is in effect once a command, which was run once if at all, is undone.
Without(command) ==
    LET at == CHOOSE i \in 1 .. Len(applied) : applied[i] = command
    IN  IF \E i \in 1 .. Len(applied) : applied[i] = command
          THEN SubSeq(applied, 1, at - 1) \o SubSeq(applied, at + 1, Len(applied))
          ELSE applied

\* undo_prep, one command of it.  One that fails does not stop the rest.
UndoStep ==
    /\ lock.doing = "undo" /\ lock.step > 0
    /\ LET step == StepOf(lock.step, lock.app) IN
        \/ /\ applied' = Without([launch |-> lock.launch, step |-> step])
           /\ UNCHANGED failures
        \/ /\ Fail
           /\ UNCHANGED applied
    /\ lock' = [lock EXCEPT !.step = @ - 1]
    /\ UNCHANGED <<running, caller, world, launches, restarts>>

UndoDone ==
    /\ lock.doing = "undo" /\ lock.step = 0
    /\ lock' = IF lock.next = NoApp THEN Free ELSE DoPrep(lock.next)
    /\ UNCHANGED <<running, caller, world, launches, applied, failures, restarts>>

-----------------------------------------------------------------------------
(* The machine: processes come and go, and time passes.                    *)

\* The game starts: a launcher's child, in its job or broken away, or what a
\* URI's handler starts.
GameStarts(n) ==
    /\ ~world[n].game /\ world[n].starts < MaxStarts
    /\ world[n].launcher \/ world[n].app \in Uri
    /\ \E inJob \in BOOLEAN :
         /\ inJob => world[n].joined
         /\ ~inJob => world[n].app \in Uri \cup Waits
         /\ world' = [world EXCEPT ![n].game = TRUE, ![n].inJob = inJob,
                                      ![n].since = launches, ![n].starts = @ + 1]

GameExits(n) ==
    /\ world[n].game
    /\ world' = [world EXCEPT ![n].game = FALSE]

LauncherExits(n) ==
    /\ world[n].launcher
    /\ world' = [world EXCEPT ![n].launcher = FALSE]

Machine ==
    /\ \E n \in 1 .. launches : GameStarts(n) \/ GameExits(n) \/ LauncherExits(n)
    /\ UNCHANGED <<running, lock, caller, launches, applied, failures, restarts>>

\* LAUNCH_GRACE_MS or EXIT_DEBOUNCE_MS go by.
TimePasses ==
    /\ running # Nothing
    /\ \/ running.inGrace /\ running' = [running EXCEPT !.inGrace = FALSE]
       \/ running.absent = "since now" /\ running' = [running EXCEPT !.absent = "for long"]
    /\ UNCHANGED <<lock, caller, world, launches, applied, failures, restarts>>

\* restart_self ends in process::exit, which like a crash runs no drop: the
\* games carry on, and whatever was to be put back no longer is by anyone.
Restart ==
    /\ restarts < MaxRestarts
    /\ restarts' = restarts + 1
    /\ running' = Nothing /\ lock' = Free
    /\ caller' = [c \in Caller |-> NoApp]
    /\ IF lock.doing = "prep"
       THEN launches' = Preparing /\ world' = Append(world, NotStarted(lock.app))
       ELSE UNCHANGED <<launches, world>>
    /\ UNCHANGED <<applied, failures>>

Next ==
    \/ Reap \/ Terminate \/ PrepStep \/ LaunchFails \/ Spawn \/ UndoStep \/ UndoDone
    \/ Machine \/ TimePasses \/ Restart
    \/ \E c \in Caller : LaunchLocks(c) \/ \E app \in App : LaunchLooks(c, app)

Spec == Init /\ [][Next]_vars

\* The watcher looks every second, what holds the lock gets on with it, and
\* time passes.
Works == PrepStep \/ LaunchFails \/ Spawn \/ UndoStep \/ UndoDone
Fairness == WF_vars(Reap) /\ WF_vars(TimePasses) /\ WF_vars(Works)

FairSpec == Spec /\ Fairness

-----------------------------------------------------------------------------
(* Properties.                                                             *)

\* The prep of launch n that is in effect.
InPlace(n, k) == \E i \in 1 .. Len(applied) : applied[i] = [launch |-> n, step |-> k]
Steps(n) == {k \in 1 .. Prep[world[n].app] : InPlace(n, k)}

\* A process of a job-tracked launch is in its job.
JobLives(n) == /\ Tracking(world[n].app) = "job" /\ world[n].joined
               /\ world[n].launcher \/ (world[n].game /\ world[n].inJob)

Process == [app : App, launcher : BOOLEAN, joined : BOOLEAN, game : BOOLEAN,
            inJob : BOOLEAN, since : Nat, starts : Nat]
Command == [launch : Nat \ {0}, step : Nat \ {0}]

TypeOK ==
    /\ launches \in Nat /\ Len(world) = launches /\ world \in Seq(Process)
    /\ applied \in Seq(Command) /\ failures \in Nat /\ restarts \in Nat
    /\ caller \in [Caller -> App \cup {NoApp}]

\* While any process of a job-tracked launch lives, whatever it started and
\* whichever of them exited first, all the prep of that launch is in effect
\* (win_host.rs reap, apptrack.rs Tracking::Job): the launcher that exits
\* after starting the game does not take the game's display mode with it.
PrepOutlivesTheLauncher ==
    \A n \in 1 .. launches : JobLives(n) => Steps(n) = 1 .. Prep[world[n].app]

\* The launch that the prep in effect is of: the one tracked or the one the
\* lock's holder is at.
Owner == CASE running # Nothing -> running.launch
           [] running = Nothing /\ lock.doing = "prep" -> Preparing
           [] running = Nothing /\ lock.doing = "undo" -> lock.launch
           [] OTHER -> 0

\* Unless a command failed or the server went down, what is in effect is a
\* prefix of the prep of one launch, its owner's (win_host.rs launch,
\* terminate, reap, undo_prep): no prep is forgotten by a replaced or refused
\* launch, and none undone out of order.
PrepIsAStack ==
    failures = 0 /\ restarts = 0 =>
        /\ applied = [i \in 1 .. Len(applied) |-> [launch |-> Owner, step |-> i]]
        /\ Owner = 0 => applied = <<>>

(***************************************************************************)
(* What makes these inductive: nothing runs while the lock is held for     *)
(* prep or undo; a launch is undone when its job is dead, which never      *)
(* comes back to life; and so many commands are in effect as the launch    *)
(* being prepared, running or undone has got to.                           *)
(***************************************************************************)
PrepHeld == [doing : {"prep"}, app : App, step : Nat \ {0}]
UndoHeld == [doing : {"undo"}, launch : 1 .. launches, app : App, step : Nat,
             next : App \cup {NoApp}]
Tracked == [launch : 1 .. launches, app : App, seen : BOOLEAN,
            absent : {"not", "since now", "for long"}, inGrace : BOOLEAN]

LockOK ==
    /\ lock = Free \/ running = Nothing
    /\ lock = Free \/ lock \in PrepHeld \/ lock \in UndoHeld
    /\ running = Nothing \/ running \in Tracked
    /\ running # Nothing => world[running.launch].app = running.app
    /\ lock.doing = "prep" => lock.step <= Prep[lock.app] + 1
    /\ lock.doing = "undo" => world[lock.launch].app = lock.app /\ ~JobLives(lock.launch)

PreparedSoFar ==
    lock.doing = "prep" => \A k \in 1 .. lock.step - 1 : InPlace(Preparing, k)

HowMany == CASE running # Nothing -> Prep[running.app]
             [] running = Nothing /\ lock.doing = "prep" -> lock.step - 1
             [] running = Nothing /\ lock.doing = "undo" -> lock.step
             [] OTHER -> 0
SoMany == failures = 0 /\ restarts = 0 => Len(applied) = HowMany

HostInv ==
    /\ TypeOK /\ LockOK /\ PreparedSoFar /\ SoMany
    /\ PrepOutlivesTheLauncher /\ PrepIsAStack

\* Everything launch n started, or goes by the awaited name, has gone.
Gone(n) == IF n \in 1 .. launches
             THEN ~world[n].launcher /\ ~world[n].game /\ ~Present(world[n].app)
             ELSE FALSE

InEffect(n) == \E i \in 1 .. Len(applied) : applied[i].launch = n

\* An app that can be seen to exit has its prep undone once it is gone for
\* good, with nobody asking (win_host.rs start_watcher), unless a command
\* failed or the server went down.
PrepIsUndone ==
    \A n \in 1 .. MaxLaunches :
        <>[](Gone(n) /\ Tracking(world[n].app) # "untracked")
        => []<>(~InEffect(n) \/ failures > 0 \/ restarts > 0)
=============================================================================
