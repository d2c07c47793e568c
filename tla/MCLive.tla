------------------------------- MODULE MCLive -------------------------------
(***************************************************************************)
(* Liveness, for TLC: the control endpoint, beside it the reliable channel,*)
(* the application host and the sessions.  A behaviour is a behaviour of   *)
(* one part, and the others stay as they began.  Each is fair only in what *)
(* its threads do unasked.                                                 *)
(***************************************************************************)
EXTENDS ControlEndpoint

VARIABLES
    part,
    chan, gone, wire, sent, delivered,                                    \* ReliableChannel
    running, lock, caller, world, launches, prep, failures, hostRestarts, \* AppHost
    desktop, active, stopping, summary, disconnect, nextId, page, accepted,
    found, lost, meddling, restarts                              \* SessionManager

chanVars == <<chan, gone, wire, sent, delivered>>
hostVars == <<running, lock, caller, world, launches, prep, failures, hostRestarts>>
sessVars == <<desktop, active, stopping, summary, disconnect, nextId, page, accepted,
              found, lost, meddling, restarts>>
liveVars == <<part, vars, chanVars, hostVars, sessVars>>

Apps == {"exe", "handoff", "uri"}

\* Two messages one way through a space of six numbers, one the other way.
Channel == INSTANCE ReliableChannel WITH
    SeqMod <- 6, Window <- 2, MaxAttempts <- 2, MaxLag <- 2,
    MaxFromClient <- 2, MaxFromServer <- 1, net <- wire

\* Every kind of app, one of them launched after another.
Host == INSTANCE AppHost WITH
    App <- Apps, Uri <- {"uri"}, Waits <- {"handoff"}, Prep <- [a \in Apps |-> 2], Caller <- {"c1"},
    MaxLaunches <- 2, MaxStarts <- 1, MaxFailures <- 0, MaxRestarts <- 0,
    applied <- prep, restarts <- hostRestarts

\* Two streams, and a page of the web UI that may be behind them.
Session == INSTANCE SessionManager WITH
    Web <- {"w1"}, MaxSessions <- 2, MaxMeddling <- 0, MaxRestarts <- 0

-----------------------------------------------------------------------------

LiveInit ==
    /\ part \in {"channel", "endpoint", "host", "sessions"}
    /\ Init /\ Channel!Init /\ Host!Init /\ Session!Init

LiveNext ==
    /\ UNCHANGED part
    /\ \/ part = "channel" /\ Channel!Next /\ UNCHANGED <<vars, hostVars, sessVars>>
       \/ part = "endpoint" /\ Next /\ UNCHANGED <<chanVars, hostVars, sessVars>>
       \/ part = "host" /\ Host!Next /\ UNCHANGED <<chanVars, vars, sessVars>>
       \/ part = "sessions" /\ Session!Next /\ UNCHANGED <<chanVars, vars, hostVars>>

\* As FairSpec of each module has it.
Fairness ==
    /\ \A p \in {"client", "server"} : WF_chanVars(part = "channel" /\ Channel!TimerAllDue(p))
    /\ WF_vars(part = "endpoint" /\ Waited)
    /\ WF_vars(part = "endpoint" /\ Silent)
    /\ WF_hostVars(part = "host" /\ Host!Reap)
    /\ WF_hostVars(part = "host" /\ Host!TimePasses)
    /\ WF_hostVars(part = "host" /\ Host!Works)
    /\ WF_sessVars(part = "sessions" /\ Session!Drain)
    /\ WF_sessVars(part = "sessions" /\ Session!StopStep)

LiveSpec == LiveInit /\ [][LiveNext]_liveVars /\ Fairness

-----------------------------------------------------------------------------
\* Properties, defined with their machines; NoGhostStream is the endpoint's.

\* Every message submitted is delivered, or its sender learns that its peer is
\* gone (net/reliable.rs).
DeliveredOrGone == Channel!DeliveredOrGone

\* What was begun for another's sake is ended: once a game is gone its prep
\* commands are undone (server/win_host.rs), and a disconnect the web UI was told
\* had been accepted ends that stream (server/session.rs).
WhatWasBegunIsEnded == Host!PrepIsUndone /\ Session!DisconnectsHappen

=============================================================================
