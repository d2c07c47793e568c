------------------------------- MODULE Pairing -------------------------------
(***************************************************************************)
(* Pairing a TV, from the button in the web UI to the secret both ends     *)
(* keep: the arming and its pending requests (web/pairing.rs), the API     *)
(* calls that drive them and the clients file they end in (web/api.rs,     *)
(* web/store.rs), the endpoint's table of peers with no key                *)
(* (net/endpoint.rs), and the TV's half (android/pair.rs).                 *)
(*                                                                         *)
(* An Attempt is one run of the TV's pair(): a socket of its own, so an    *)
(* address of its own, and a nonce of its own.  The reliable channel       *)
(* beneath is taken at its word (ReliableChannel): messages arrive in      *)
(* order and once, any number of them at a time.                           *)
(***************************************************************************)
EXTENDS Naturals, Sequences, FiniteSets

CONSTANTS
    Attempt,       \* runs of pair() on the TVs
    MaxPinTries,   \* MAX_PIN_ATTEMPTS
    MaxArmings,    \* bound: presses of the pairing button
    MaxFaults,     \* bound: failed writes, restarts, lost peers, TVs giving up
    MaxRequests    \* bound: pair requests taken by one process

PairingBounds ==
    /\ MaxPinTries \in Nat \ {0}
    /\ {MaxArmings, MaxFaults, MaxRequests} \subseteq Nat

VARIABLES
    armed,     \* the arming's server nonce, 0 when pairing is not armed
    armings,   \* the nonces drawn so far
    expired,   \* whether the armed window has run out on the clock
    pending,   \* the requests waiting for a PIN, by id
    results,   \* the outcomes recorded and not yet taken, by request id
    requests,  \* the next request id
    clients,   \* the paired clients in memory
    nextClient,\* the next client id
    disk,      \* the paired clients in clients.json
    peers,     \* the endpoint's peers with no key, by attempt
    tv,        \* the TV's end of each attempt
    saved,     \* every secret that has been in clients.json
    revoked,   \* the secrets whose revocation was answered with success
    booted,    \* the nonces drawn before the server last started
    faults     \* what has gone wrong so far

vars == <<armed, armings, expired, pending, results, requests, clients,
          nextClient, disk, peers, tv, saved, revoked, booted, faults>>

serverVars == <<armed, armings, expired, pending, results, requests>>
storeVars == <<clients, nextClient, disk, saved, revoked>>

NoId == MaxRequests
RequestId == 0 .. MaxRequests - 1
Nonce == 1 .. MaxArmings

\* What a right PIN derives from the two nonces (proto/pairing.rs); a wrong
\* PIN derives something else, equal to none of these.
Secret == Attempt \X Nonce

\* A client as the file and the memory hold it.
Client == [id : Nat, secret : Secret]

Final == {"rejected", "accepted"}

Challenge(id) == [kind |-> "challenge", id |-> id, nonce |-> armed, secret |-> <<>>]
Result(id, outcome) ==
    [kind |-> outcome.kind, id |-> id, nonce |-> 0, secret |-> outcome.secret]

Wrong == [kind |-> "wrong", secret |-> <<>>]
Rejected == [kind |-> "rejected", secret |-> <<>>]
Accepted(secret) == [kind |-> "accepted", secret |-> secret]

Fresh == [tracked |-> FALSE, id |-> NoId, heard |-> 0, out |-> <<>>]
NotAsking == [phase |-> "idle", id |-> NoId, nonce |-> 0, sent |-> 0, got |-> 0]

Init ==
    /\ armed = 0 /\ armings = 0 /\ expired = FALSE
    /\ pending = <<>>
    /\ results = [id \in RequestId |-> <<>>]
    /\ requests = 0
    /\ clients = {} /\ nextClient = 1 /\ disk = {}
    /\ peers = [a \in Attempt |-> Fresh]
    /\ tv = [a \in Attempt |-> NotAsking]
    /\ saved = {} /\ revoked = {}
    /\ booted = 0 /\ faults = 0

-----------------------------------------------------------------------------
(* The state machine of pairing.rs.                                        *)

Fault ==
    /\ faults < MaxFaults
    /\ faults' = faults + 1

\* reject_pending: every pending request ends, and its end is recorded.
RejectedAll(from, kept) ==
    [id \in RequestId |-> IF id \in DOMAIN kept THEN Append(from[id], Rejected)
                                                ELSE from[id]]

\* drop_if_expired, which every call that looks at the pending ones makes.
StillArmed == IF expired THEN 0 ELSE armed
StillPending == IF expired THEN <<>> ELSE pending
NoticedSilently == results
Noticed == IF expired THEN RejectedAll(results, pending) ELSE results

Without(id) == [i \in DOMAIN StillPending \ {id} |-> StillPending[i]]

\* POST /api/pair/arm.
Arm ==
    /\ armings < MaxArmings
    /\ armings' = armings + 1
    /\ armed' = armings'
    /\ expired' = FALSE
    /\ results' = RejectedAll(results, pending)
    /\ pending' = <<>>
    /\ UNCHANGED <<requests, storeVars, peers, tv, booted, faults>>

\* POST /api/pair/disarm.
Disarm ==
    /\ armed # 0
    /\ armed' = 0 /\ expired' = FALSE
    /\ results' = RejectedAll(results, pending)
    /\ pending' = <<>>
    /\ UNCHANGED <<armings, requests, storeVars, peers, tv, booted, faults>>

\* The window runs out on the clock; the code notices at its next call.
Expire ==
    /\ armed # 0 /\ ~expired
    /\ expired' = TRUE
    /\ UNCHANGED <<armed, armings, pending, results, requests, storeVars,
                   peers, tv, booted, faults>>

-----------------------------------------------------------------------------
(* The endpoint: peers with no key.                                        *)

\* The peer an attempt's datagrams belong to: the tracked one, or a new one
\* whose channel numbers from the beginning.
Peer(a) == IF peers[a].tracked THEN peers[a] ELSE [Fresh EXCEPT !.tracked = TRUE]

\* The attempt's next message in the order of the channel reaches the server.
Hearable(a) == Peer(a).heard < tv[a].sent

Heard(a) == [Peer(a) EXCEPT !.heard = @ + 1]

\* A PairRequest: an id, a pending entry and the challenge.
HearRequest(a) ==
    /\ Hearable(a) /\ Peer(a).heard = 0
    /\ armed # 0 /\ ~expired
    /\ requests < MaxRequests
    /\ requests' = requests + 1
    /\ pending' = [i \in DOMAIN pending \cup {requests} |->
                     IF i = requests THEN [from |-> a, tag |-> <<>>, tries |-> 0]
                                     ELSE pending[i]]
    /\ peers' = [peers EXCEPT ![a] =
                   [Heard(a) EXCEPT !.id = requests,
                                    !.out = Append(@, Challenge(requests))]]
    /\ UNCHANGED <<armed, armings, expired, results, storeVars, tv, booted, faults>>

\* A PairConfirm: the tag is recorded on the request it names.
HearConfirm(a) ==
    /\ Hearable(a) /\ Peer(a).heard = 1
    /\ armed # 0 /\ ~expired
    /\ pending' = IF tv[a].id \in DOMAIN pending
                    THEN [pending EXCEPT ![tv[a].id].tag = <<a, tv[a].nonce>>]
                    ELSE pending
    /\ peers' = [peers EXCEPT ![a] = Heard(a)]
    /\ UNCHANGED <<armed, armings, expired, results, requests, storeVars, tv, booted, faults>>

\* Not armed: a peer already pairing is acknowledged and not listened to, and
\* so is a new one when the window closed after the endpoint looked at it.
HearUnarmed(a) ==
    /\ Hearable(a) /\ (armed = 0 \/ expired)
    /\ peers[a].tracked \/ armings > booted
    /\ peers' = [peers EXCEPT ![a] = Heard(a)]
    /\ UNCHANGED <<serverVars, storeVars, tv, booted, faults>>

\* dispatch_outbound: what was recorded since goes to the peer that holds the
\* request, and nowhere when none does.
Drain ==
    /\ armed' = StillArmed /\ expired' = FALSE
    /\ pending' = StillPending
    /\ results' = [id \in RequestId |-> <<>>]
    /\ peers' = [a \in Attempt |->
         IF peers[a].tracked /\ peers[a].id # NoId
           THEN LET id == peers[a].id
                IN [peers[a] EXCEPT !.out =
                      @ \o [k \in 1 .. Len(Noticed[id]) |-> Result(id, Noticed[id][k])]]
           ELSE peers[a]]
    /\ UNCHANGED <<armings, requests, storeVars, tv, booted, faults>>

\* tick: the TV acknowledged nothing for too long (PeerGone).  What was sent
\* may still be on its way.  Idleness is left out: IDLE_SECS is longer than a
\* TV waits for its result (PAIRING_WINDOW_SECS), so it forgets nobody who is
\* still waiting.
Forget(a) ==
    /\ peers[a].tracked
    /\ Len(peers[a].out) > tv[a].got
    /\ Fault
    /\ peers' = [peers EXCEPT ![a] = [Fresh EXCEPT !.out = peers[a].out]]
    /\ UNCHANGED <<serverVars, storeVars, tv, booted>>

-----------------------------------------------------------------------------
(* The web UI's calls.  Each holds the state's lock from end to end, the   *)
(* write of clients.json included.                                         *)

\* load: the id after the highest known.
NextByCount(known) == Cardinality(known) + 1
NextAfter(known) ==
    CHOOSE n \in {1} \cup {c.id + 1 : c \in known} : \A c \in known : c.id < n

\* save_clients: the file holds the list or what it held before.
Save(list, ok) ==
    /\ IF ok THEN UNCHANGED faults ELSE Fault
    /\ disk' = IF ok THEN list ELSE disk
    /\ saved' = IF ok THEN saved \cup {c.secret : c \in list} ELSE saved

\* GET /api/pair/pending, or any call refused for want of an arming.
ListPending ==
    /\ expired
    /\ armed' = 0 /\ expired' = FALSE
    /\ pending' = <<>> /\ results' = Noticed
    /\ UNCHANGED <<armings, requests, storeVars, peers, tv, booted, faults>>

\* A PIN was typed for a request whose confirmation has come.
Typed(id) ==
    /\ armed # 0 /\ ~expired
    /\ id \in DOMAIN pending /\ pending[id].tag # <<>>

\* Whether a PIN derives the secret whose tag the TV sent.
Matches(id, right) == right /\ pending[id].tag = <<pending[id].from, armed>>

OutOfTriesLate(tries) == tries > MaxPinTries
OutOfTries(tries) == tries >= MaxPinTries

\* POST /api/pair/confirm with a PIN that does not derive the TV's tag.
ConfirmWrong(id) ==
    /\ Typed(id) /\ \E right \in BOOLEAN : ~Matches(id, right)
    /\ IF OutOfTries(pending[id].tries + 1)
         THEN /\ pending' = Without(id)
              /\ results' = [results EXCEPT ![id] = Append(@, Rejected)]
         ELSE /\ pending' = [pending EXCEPT ![id].tries = @ + 1]
              /\ results' = [results EXCEPT ![id] = Append(@, Wrong)]
    /\ UNCHANGED <<armed, armings, expired, requests, storeVars, peers, tv, booted, faults>>

\* The client confirm() makes of the request, and what becomes of the rest.
Paired(id) == [id |-> nextClient, secret |-> <<pending[id].from, armed>>]
Losers(id) == RejectedAll(results, Without(id))

\* The arming after a pairing, the list a save leaves, and what is announced.
SpentNot == armed
Spent == 0
ListedAnyway(list, ok) == list
Listed(list, ok) == IF ok THEN list ELSE clients
AnnouncedFirst(id, ok) == Accepted(Paired(id).secret)
Announced(id, ok) == IF ok THEN Accepted(Paired(id).secret) ELSE Rejected

\* POST /api/pair/confirm with the right PIN: the arming is spent, the others
\* in its window lose, and the TV may believe it is paired once it is saved.
ConfirmRight(id) ==
    /\ Typed(id) /\ Matches(id, TRUE)
    /\ armed' = Spent
    /\ pending' = <<>>
    /\ \E ok \in BOOLEAN :
         /\ Save(clients \cup {Paired(id)}, ok)
         /\ clients' = Listed(clients \cup {Paired(id)}, ok)
         /\ nextClient' = IF ok THEN nextClient + 1 ELSE nextClient
         /\ results' = [Losers(id) EXCEPT ![id] =
                          Append(@, Announced(id, ok))]
    /\ UNCHANGED <<armings, expired, requests, peers, tv, revoked, booted>>

\* What revoke_client writes: the list it has just removed the client from.
WrittenFirst(c) == clients
Written(c) == clients \ {c}

\* DELETE /api/clients/id: gone from memory whatever becomes of the file.
Revoke(c) ==
    /\ c \in clients
    /\ clients' = clients \ {c}
    /\ \E ok \in BOOLEAN :
         /\ Save(Written(c), ok)
         /\ revoked' = IF ok THEN revoked \cup {c.secret} ELSE revoked
    /\ UNCHANGED <<serverVars, nextClient, peers, tv, booted>>

\* The process dies and starts again: AppState::load.
Crash ==
    /\ Fault
    /\ booted' = armings
    /\ armed' = 0 /\ expired' = FALSE
    /\ pending' = <<>> /\ results' = [id \in RequestId |-> <<>>]
    /\ requests' = 0
    /\ clients' = disk /\ nextClient' = NextAfter(disk)
    /\ peers' = [a \in Attempt |-> [Fresh EXCEPT !.out = peers[a].out]]
    /\ UNCHANGED <<armings, disk, tv, saved, revoked>>

-----------------------------------------------------------------------------
(* The TV: pair() in android/pair.rs.                                      *)

Ask(a) ==
    /\ tv[a].phase = "idle"
    /\ tv' = [tv EXCEPT ![a].phase = "asking", ![a].sent = 1]
    /\ UNCHANGED <<serverVars, storeVars, peers, booted, faults>>

\* What pair() makes of the message recv_control returned.
After(t, a, m) ==
    CASE t.phase = "asking" /\ m.kind = "challenge" ->
           [t EXCEPT !.phase = "confirming", !.sent = 2, !.id = m.id, !.nonce = m.nonce]
      [] t.phase = "confirming" /\ m.id = t.id /\ m.kind = "rejected" ->
           [t EXCEPT !.phase = "failed"]
      [] t.phase = "confirming" /\ m.id = t.id /\ m.kind = "accepted"
           /\ m.secret = <<a, t.nonce>> ->
           [t EXCEPT !.phase = "done"]
      [] OTHER -> t

\* A datagram completes a run of n messages: recv_control returns the first,
\* and the rest, acknowledged like it, are seen by nobody.
Deliver(a) ==
    /\ tv[a].phase \in {"asking", "confirming"}
    /\ \E n \in 1 .. Len(peers[a].out) - tv[a].got :
        /\ tv' = [tv EXCEPT ![a] = [After(tv[a], a, peers[a].out[tv[a].got + 1])
                                     EXCEPT !.got = @ + n]]
        /\ UNCHANGED <<serverVars, storeVars, peers, booted, faults>>

\* The challenge or the PIN did not come in time, the person cancelled, or
\* the channel gave up.
GiveUp(a) ==
    /\ tv[a].phase \in {"asking", "confirming"}
    /\ Fault
    /\ tv' = [tv EXCEPT ![a].phase = "failed"]
    /\ UNCHANGED <<serverVars, storeVars, peers, booted>>

Next ==
    \/ Arm \/ Disarm \/ Expire \/ ListPending \/ Drain \/ Crash
    \/ \E a \in Attempt :
         \/ HearRequest(a) \/ HearConfirm(a) \/ HearUnarmed(a) \/ Forget(a)
         \/ Ask(a) \/ Deliver(a) \/ GiveUp(a)
    \/ \E id \in RequestId : ConfirmWrong(id) \/ ConfirmRight(id)
    \/ \E c \in clients : Revoke(c)

Spec == Init /\ [][Next]_vars

-----------------------------------------------------------------------------

Outcome == [kind : {"wrong"} \cup Final, secret : {<<>>} \cup Attempt \X Nat]
Message == [kind : {"challenge", "wrong"} \cup Final, id : RequestId, nonce : Nat,
            secret : {<<>>} \cup Attempt \X Nat]
Waiting == [from : Attempt, tag : {<<>>} \cup Attempt \X Nat, tries : 0 .. MaxPinTries - 1]
Unkeyed == [tracked : BOOLEAN, id : 0 .. MaxRequests, heard : 0 .. 2, out : Seq(Message)]
Television == [phase : {"idle", "asking", "confirming", "done", "failed"},
               id : 0 .. MaxRequests, nonce : Nat, sent : 0 .. 2, got : Nat]

TypeOK ==
    /\ armed \in {0, armings} /\ armings \in 0 .. MaxArmings /\ expired \in BOOLEAN
    /\ DOMAIN pending \subseteq 0 .. requests - 1 /\ requests \in 0 .. MaxRequests
    /\ pending \in [DOMAIN pending -> Waiting]
    /\ results \in [RequestId -> Seq(Outcome)]
    /\ clients \subseteq Client /\ disk \subseteq Client /\ nextClient \in Nat \ {0}
    /\ peers \in [Attempt -> Unkeyed] /\ tv \in [Attempt -> Television]

\* An arming pairs one device at most, whatever is typed, cancelled, saved or
\* restarted in its window (confirm's "an arming is good for exactly one").
OneClientPerArming ==
    \A s, t \in saved : s[2] = t[2] => s = t

\* A TV that believes it is paired holds a secret the server wrote to disk
\* first, so a crash at any later point cannot have it turned away as unknown
\* (api.rs confirm announces only after save_clients).
AcceptedIsSaved ==
    \A a \in Attempt : tv[a].phase = "done" => <<a, tv[a].nonce>> \in saved

\* Nobody is paired in memory only: what the server would forget at a restart
\* it does not accept now (confirm's rollback of a failed save).
KnownIsSaved == clients \subseteq disk

\* A client whose revocation was answered with success never comes back, in
\* memory or on disk, whatever is saved, fails or restarts afterwards.
RevokedStaysRevoked ==
    \A c \in clients \cup disk : c.secret \notin revoked

\* Two clients never share an id, across rollbacks, revocations and restarts:
\* sessions, keys and revocations all go by it (next_client_id).
IdsAreUnique ==
    /\ \A c, d \in clients \cup disk : c.id = d.id => c = d
    /\ \A c \in clients \cup disk : c.id < nextClient

\* A peer being paired is waiting for a PIN, or the end of its request is
\* recorded for it or on its way to it: no request is dropped in silence
\* (pairing.rs: "Every way a request leaves pending lands here").
EndsAreTold ==
    \A a \in Attempt : LET p == peers[a] IN
        p.tracked /\ p.id # NoId =>
            \/ p.id \in DOMAIN pending
            \/ \E k \in 1 .. Len(results[p.id]) : results[p.id][k].kind \in Final
            \/ \E k \in 1 .. Len(p.out) : p.out[k].id = p.id /\ p.out[k].kind \in Final

(***************************************************************************)
(* What makes these inductive: a secret in the file is of an arming that   *)
(* has been spent; the file has the secrets and the numbers it gave out    *)
(* once each; and whoever is told that he is accepted, or will be, is in   *)
(* what has been in the file.                                              *)
(***************************************************************************)
SpentOnce == saved \subseteq Attempt \X ((1 .. armings) \ {armed})

FileIsWhole ==
    /\ {c.secret : c \in disk} \cup revoked \subseteq saved
    /\ \A c, d \in disk : c.secret = d.secret => c = d

PromisesAreKept ==
    /\ \A id \in RequestId : \A k \in 1 .. Len(results[id]) :
         results[id][k].kind = "accepted" => results[id][k].secret \in saved
    /\ \A a \in Attempt : \A k \in 1 .. Len(peers[a].out) :
         peers[a].out[k].kind = "accepted" => peers[a].out[k].secret \in saved

PairingInv ==
    /\ TypeOK /\ SpentOnce /\ FileIsWhole /\ PromisesAreKept
    /\ OneClientPerArming /\ AcceptedIsSaved /\ KnownIsSaved
    /\ RevokedStaysRevoked /\ IdsAreUnique /\ EndsAreTold
=============================================================================
