--------------------------- MODULE ServicesProofs ---------------------------
(***************************************************************************)
(* Proofs about the machines of MCServices, for every value of the         *)
(* constants: the safety properties that its run checks on one instance.   *)
(* A machine's inductive invariant is defined beside its properties, in    *)
(* its own module; here is one lemma for every action that it preserves    *)
(* it, on the variables as MCServices numbers them.                        *)
(***************************************************************************)
EXTENDS MCServices, Integers, Sequences, FiniteSetTheorems, WellFoundedInduction,
        TLAPS

-----------------------------------------------------------------------------
(* Numbers.                                                                *)

\* A nonempty set of natural numbers has a least, and one with a bound has a
\* greatest.
LEMMA LeastNumber ==
    ASSUME NEW S, S \subseteq Nat, S # {}
    PROVE  \E m \in S : \A n \in S : m <= n
<1>1. PICK m \in S : \A n \in S : ~ (<<n, m>> \in OpToRel(<, Nat))
  BY WFMin, NatLessThanWellFounded, Zenon
<1>2. \A n \in S : ~ (n < m)
  BY <1>1, Zenon DEF OpToRel
<1> QED BY <1>2

LEMMA GreatestNumber ==
    ASSUME NEW S, S \subseteq Nat, S # {}, NEW b \in Nat, \A n \in S : n < b
    PROVE  \E m \in S : \A n \in S : n <= m
<1> DEFINE T == {b - n : n \in S}
<1>1. T \subseteq Nat /\ T # {}
  <2>1. \A n \in S : n \in Nat /\ n < b /\ b - n \in Nat
    OBVIOUS
  <2>2. PICK n \in S : TRUE
    BY Zenon
  <2>3. b - n \in T
    OBVIOUS
  <2> QED BY <2>1, <2>3
<1>2. PICK t \in T : \A u \in T : t <= u
  BY <1>1, LeastNumber, Zenon
<1>3. PICK m \in S : t = b - m
  BY <1>2
<1>4. ASSUME NEW n \in S PROVE n <= m
  <2>1. b - n \in T
    OBVIOUS
  <2>2. t <= b - n /\ n \in Nat /\ m \in Nat
    BY <1>2, <2>1
  <2> QED BY <1>3, <2>2
<1> QED BY <1>4

-----------------------------------------------------------------------------
(* Pairing.  v1 armed, v2 armings, v3 expired, v4 pending, v5 results,     *)
(* v6 requests, v7 clients, v8 nextClient, v9 disk, v10 peers, v11 tv,     *)
(* v12 saved, v13 revoked.                                                 *)

LEMMA RequestsAreNumbers ==
    /\ Pair!NoId \in Nat
    /\ Pair!RequestId = 0 .. Pair!NoId - 1
    /\ \A id \in 0 .. Pair!NoId : id # Pair!NoId => id \in Pair!RequestId
BY PairingAssumption DEF Pair!PairingBounds, Pair!NoId, Pair!RequestId

\* Rejecting some requests adds to what is recorded of these, and of no other.
LEMMA RejectedAllAdds ==
    ASSUME NEW from \in [Pair!RequestId -> Seq(Pair!Outcome)], NEW kept
    PROVE  LET to == Pair!RejectedAll(from, kept) IN
           /\ to \in [Pair!RequestId -> Seq(Pair!Outcome)]
           /\ \A id \in Pair!RequestId :
                /\ \A k \in 1 .. Len(from[id]) : k \in 1 .. Len(to[id]) /\ to[id][k] = from[id][k]
                /\ \A k \in 1 .. Len(to[id]) : k \in 1 .. Len(from[id]) \/ to[id][k] = Pair!Rejected
                /\ id \in DOMAIN kept => \E k \in 1 .. Len(to[id]) : to[id][k] = Pair!Rejected
<1> DEFINE O == Pair!Outcome
           to == Pair!RejectedAll(from, kept)
<1>1. Pair!Rejected \in O
  BY DEF Pair!Rejected, Pair!Outcome, Pair!Final
<1> HIDE DEF O
<1>2. to = [id \in Pair!RequestId |-> IF id \in DOMAIN kept THEN Append(from[id], Pair!Rejected)
                                                         ELSE from[id]]
  BY DEF Pair!RejectedAll
<1> HIDE DEF to
<1>3. ASSUME NEW id \in Pair!RequestId
      PROVE  /\ to[id] \in Seq(O)
             /\ \A k \in 1 .. Len(from[id]) : k \in 1 .. Len(to[id]) /\ to[id][k] = from[id][k]
             /\ \A k \in 1 .. Len(to[id]) : k \in 1 .. Len(from[id]) \/ to[id][k] = Pair!Rejected
             /\ id \in DOMAIN kept => \E k \in 1 .. Len(to[id]) : to[id][k] = Pair!Rejected
  <2> DEFINE s == from[id]
  <2>1. s \in Seq(O)
    BY DEF O
  <2>2. to[id] = IF id \in DOMAIN kept THEN Append(s, Pair!Rejected) ELSE s
    BY <1>2, <1>3
  <2> HIDE DEF s
  <2>3. /\ Len(Append(s, Pair!Rejected)) = Len(s) + 1
        /\ Append(s, Pair!Rejected) \in Seq(O)
        /\ \A k \in 1 .. Len(s) : Append(s, Pair!Rejected)[k] = s[k]
        /\ Append(s, Pair!Rejected)[Len(s) + 1] = Pair!Rejected
        /\ Len(s) \in Nat
    BY <2>1, <1>1
  <2>4. CASE id \in DOMAIN kept
    BY <2>2, <2>3, <2>4 DEF s
  <2>5. CASE id \notin DOMAIN kept
    BY <2>1, <2>2, <2>3, <2>5 DEF s
  <2> QED BY <2>4, <2>5
<1>4. to \in [Pair!RequestId -> Seq(O)]
  BY <1>2, <1>3
<1> QED BY <1>3, <1>4 DEF to, O

\* What each look at the pending requests makes of a window that has run out.
LEMMA NoticedAdds ==
    ASSUME Pair!TypeOK
    PROVE  /\ Pair!Noticed \in [Pair!RequestId -> Seq(Pair!Outcome)]
           /\ \A id \in Pair!RequestId :
                /\ \A k \in 1 .. Len(v5[id]) :
                     k \in 1 .. Len(Pair!Noticed[id]) /\ Pair!Noticed[id][k] = v5[id][k]
                /\ \A k \in 1 .. Len(Pair!Noticed[id]) :
                     k \in 1 .. Len(v5[id]) \/ Pair!Noticed[id][k] = Pair!Rejected
                /\ \/ id \in DOMAIN v4 => id \in DOMAIN Pair!StillPending
                   \/ \E k \in 1 .. Len(Pair!Noticed[id]) : Pair!Noticed[id][k] = Pair!Rejected
<1>1. v5 \in [Pair!RequestId -> Seq(Pair!Outcome)]
  BY DEF Pair!TypeOK
<1>2. CASE v3
  <2> DEFINE to == Pair!RejectedAll(v5, v4)
  <2>1. Pair!Noticed = to
    BY <1>2 DEF Pair!Noticed
  <2>2. /\ to \in [Pair!RequestId -> Seq(Pair!Outcome)]
        /\ \A id \in Pair!RequestId :
             /\ \A k \in 1 .. Len(v5[id]) : k \in 1 .. Len(to[id]) /\ to[id][k] = v5[id][k]
             /\ \A k \in 1 .. Len(to[id]) : k \in 1 .. Len(v5[id]) \/ to[id][k] = Pair!Rejected
             /\ id \in DOMAIN v4 => \E k \in 1 .. Len(to[id]) : to[id][k] = Pair!Rejected
    BY <1>1, RejectedAllAdds
  <2> HIDE DEF to
  <2> QED BY <2>1, <2>2
<1>3. CASE ~v3
  <2>1. Pair!Noticed = v5 /\ Pair!StillPending = v4
    BY <1>3 DEF Pair!Noticed, Pair!StillPending
  <2> QED BY <1>1, <2>1
<1> QED BY <1>2, <1>3

\* Nothing more is promised than has been saved, when what is added to the
\* results is, and the messages stay.
LEMMA PromisesStay ==
    ASSUME Pair!PromisesAreKept, v12 \subseteq v12', UNCHANGED v10,
           \A id \in Pair!RequestId : \A k \in 1 .. Len(v5'[id]) :
               \/ k \in 1 .. Len(v5[id]) /\ v5'[id][k] = v5[id][k]
               \/ v5'[id][k].kind # "accepted"
               \/ v5'[id][k].secret \in v12'
    PROVE  Pair!PromisesAreKept'
BY DEF Pair!PromisesAreKept

\* No end is forgotten when every request that is no longer pending has its own
\* recorded, and the messages stay.
LEMMA EndsStay ==
    ASSUME Pair!TypeOK, Pair!EndsAreTold, UNCHANGED v10,
           \A id \in Pair!RequestId : \A k \in 1 .. Len(v5[id]) :
               k \in 1 .. Len(v5'[id]) /\ v5'[id][k] = v5[id][k],
           \A id \in Pair!RequestId : id \in DOMAIN v4 =>
               \/ id \in DOMAIN v4'
               \/ \E k \in 1 .. Len(v5'[id]) : v5'[id][k].kind \in Pair!Final
    PROVE  Pair!EndsAreTold'
<1> SUFFICES ASSUME NEW a \in Attempt, v10[a].tracked, v10[a].id # Pair!NoId
             PROVE  \/ v10[a].id \in DOMAIN v4'
                    \/ \E k \in 1 .. Len(v5'[v10[a].id]) : v5'[v10[a].id][k].kind \in Pair!Final
                    \/ \E k \in 1 .. Len(v10[a].out) :
                         v10[a].out[k].id = v10[a].id /\ v10[a].out[k].kind \in Pair!Final
  BY DEF Pair!EndsAreTold
<1>1. v10[a].id \in Pair!RequestId
  BY RequestsAreNumbers DEF Pair!TypeOK, Pair!Unkeyed, Pair!NoId
<1> QED BY <1>1 DEF Pair!EndsAreTold

\* Nobody is waiting.
LEMMA NobodyWaits == DOMAIN <<>> = {} /\ \A S : <<>> \in [DOMAIN <<>> -> S]
<1>1. \A S : <<>> \in Seq(S) /\ Len(<<>>) = 0
  OBVIOUS
<1>2. \A S : \A s \in Seq(S) : s \in [1 .. Len(s) -> S]
  OBVIOUS
<1> QED BY <1>1, <1>2

\* What a call does that ends an arming, begins one, or finds one run out.
LEMMA RejectingKeeps ==
    ASSUME Pair!PairingInv,
           UNCHANGED <<v6, v7, v8, v9, v10, v11, v12, v13>>,
           v4' = <<>>, v3' \in BOOLEAN,
           \/ v1' = 0 /\ v2' = v2
           \/ v2 < MaxArmings /\ v2' = v2 + 1 /\ v1' = v2',
           v5' = Pair!RejectedAll(v5, v4)
    PROVE  Pair!PairingInv'
<1> USE DEF Pair!PairingInv
<1>1. /\ v2 \in 0 .. MaxArmings /\ MaxArmings \in Nat
      /\ v5 \in [Pair!RequestId -> Seq(Pair!Outcome)]
  BY PairingAssumption DEF Pair!TypeOK, Pair!PairingBounds
<1>2. v5' \in [Pair!RequestId -> Seq(Pair!Outcome)]
  BY <1>1, RejectedAllAdds
<1>3. Pair!TypeOK'
  <2>1. v1' \in {0, v2'} /\ v2' \in 0 .. MaxArmings
    BY <1>1
  <2>2. DOMAIN v4' = {} /\ \A S : v4' \in [DOMAIN v4' -> S]
    BY NobodyWaits
  <2> HIDE DEF Pair!PairingInv
  <2>3. Pair!TypeOK
    BY DEF Pair!PairingInv
  <2> QED BY <1>2, <2>1, <2>2, <2>3 DEF Pair!TypeOK
<1>4. Pair!SpentOnce'
  BY <1>1 DEF Pair!SpentOnce
<1>5. /\ Pair!FileIsWhole' /\ Pair!OneClientPerArming' /\ Pair!AcceptedIsSaved'
      /\ Pair!KnownIsSaved' /\ Pair!RevokedStaysRevoked' /\ Pair!IdsAreUnique'
  BY DEF Pair!FileIsWhole, Pair!OneClientPerArming, Pair!AcceptedIsSaved,
         Pair!KnownIsSaved, Pair!RevokedStaysRevoked, Pair!IdsAreUnique
<1>6. \A id \in Pair!RequestId :
        /\ \A k \in 1 .. Len(v5[id]) : k \in 1 .. Len(v5'[id]) /\ v5'[id][k] = v5[id][k]
        /\ \A k \in 1 .. Len(v5'[id]) : k \in 1 .. Len(v5[id]) \/ v5'[id][k].kind = "rejected"
        /\ id \in DOMAIN v4 => \E k \in 1 .. Len(v5'[id]) : v5'[id][k].kind = "rejected"
  <2> HIDE DEF Pair!PairingInv
  <2>1. Pair!Rejected.kind = "rejected"
    BY DEF Pair!Rejected
  <2>2. \A id \in Pair!RequestId :
        /\ \A k \in 1 .. Len(v5[id]) : k \in 1 .. Len(v5'[id]) /\ v5'[id][k] = v5[id][k]
        /\ \A k \in 1 .. Len(v5'[id]) : k \in 1 .. Len(v5[id]) \/ v5'[id][k] = Pair!Rejected
        /\ id \in DOMAIN v4 => \E k \in 1 .. Len(v5'[id]) : v5'[id][k] = Pair!Rejected
    BY <1>1, RejectedAllAdds, SMTT(30)
  <2> QED BY <2>1, <2>2
<1>7. Pair!PromisesAreKept'
  BY <1>6, PromisesStay
<1>8. Pair!EndsAreTold'
  BY <1>6, EndsStay DEF Pair!Final
<1> QED BY <1>3, <1>4, <1>5, <1>7, <1>8

LEMMA ArmKeeps == ASSUME Pair!PairingInv, Pair!Arm PROVE Pair!PairingInv'
<1>1. /\ UNCHANGED <<v6, v7, v8, v9, v10, v11, v12, v13>> /\ v4' = <<>> /\ v3' \in BOOLEAN
      /\ v2 < MaxArmings /\ v2' = v2 + 1 /\ v1' = v2' /\ v5' = Pair!RejectedAll(v5, v4)
  BY Zenon DEF Pair!Arm, Pair!storeVars
<1> QED BY <1>1, RejectingKeeps

LEMMA DisarmKeeps == ASSUME Pair!PairingInv, Pair!Disarm PROVE Pair!PairingInv'
<1>1. /\ UNCHANGED <<v6, v7, v8, v9, v10, v11, v12, v13>> /\ v4' = <<>> /\ v3' \in BOOLEAN
      /\ v1' = 0 /\ v2' = v2 /\ v5' = Pair!RejectedAll(v5, v4)
  BY Zenon DEF Pair!Disarm, Pair!storeVars
<1> QED BY <1>1, RejectingKeeps

LEMMA ListPendingKeeps == ASSUME Pair!PairingInv, Pair!ListPending PROVE Pair!PairingInv'
<1>1. /\ UNCHANGED <<v6, v7, v8, v9, v10, v11, v12, v13>> /\ v4' = <<>> /\ v3' \in BOOLEAN
      /\ v1' = 0 /\ v2' = v2 /\ v5' = Pair!RejectedAll(v5, v4)
  BY Zenon DEF Pair!ListPending, Pair!Noticed, Pair!storeVars
<1> QED BY <1>1, RejectingKeeps

LEMMA ExpireKeeps == ASSUME Pair!PairingInv, Pair!Expire PROVE Pair!PairingInv'
BY DEF Pair!PairingInv, Pair!Expire, Pair!storeVars, Pair!TypeOK, Pair!SpentOnce,
       Pair!FileIsWhole, Pair!OneClientPerArming, Pair!AcceptedIsSaved, Pair!KnownIsSaved,
       Pair!RevokedStaysRevoked, Pair!IdsAreUnique, Pair!PromisesAreKept, Pair!EndsAreTold

\* What a call does that concerns one peer: a request it makes is pending, and
\* what it was told before stays told.
LEMMA PeerKeeps ==
    ASSUME Pair!PairingInv, NEW a \in Attempt, NEW p \in Pair!Unkeyed,
           UNCHANGED <<v1, v2, v3, v5, v7, v8, v9, v11, v12, v13>>,
           v10' = [v10 EXCEPT ![a] = p],
           v6' \in v6 .. MaxRequests, DOMAIN v4 \subseteq DOMAIN v4',
           DOMAIN v4' \subseteq 0 .. v6' - 1, v4' \in [DOMAIN v4' -> Pair!Waiting],
           v10[a].tracked => \A k \in 1 .. Len(v10[a].out) :
               k \in 1 .. Len(p.out) /\ p.out[k] = v10[a].out[k],
           \A k \in 1 .. Len(p.out) :
               \/ k \in 1 .. Len(v10[a].out) /\ p.out[k] = v10[a].out[k]
               \/ p.out[k].kind # "accepted",
           p.tracked /\ p.id # Pair!NoId =>
               \/ p.id \in DOMAIN v4'
               \/ v10[a].tracked /\ v10[a].id = p.id
    PROVE  Pair!PairingInv'
<1> USE DEF Pair!PairingInv
<1>1. Pair!TypeOK'
  <2> HIDE DEF Pair!PairingInv
  <2>1. Pair!TypeOK /\ MaxRequests \in Nat
    BY PairingAssumption DEF Pair!PairingInv, Pair!PairingBounds
  <2>2. v6' \in 0 .. MaxRequests
    BY <2>1 DEF Pair!TypeOK
  <2>3. v10' \in [Attempt -> Pair!Unkeyed]
    BY <2>1 DEF Pair!TypeOK
  <2> QED BY <2>1, <2>2, <2>3 DEF Pair!TypeOK
<1>2. /\ Pair!SpentOnce' /\ Pair!FileIsWhole' /\ Pair!OneClientPerArming' /\ Pair!AcceptedIsSaved'
      /\ Pair!KnownIsSaved' /\ Pair!RevokedStaysRevoked' /\ Pair!IdsAreUnique'
  BY DEF Pair!SpentOnce, Pair!FileIsWhole, Pair!OneClientPerArming, Pair!AcceptedIsSaved,
         Pair!KnownIsSaved, Pair!RevokedStaysRevoked, Pair!IdsAreUnique
<1>3. /\ v10'[a] = p
      /\ \A b \in Attempt : b # a => v10'[b] = v10[b]
  BY DEF Pair!TypeOK
<1>4. Pair!PromisesAreKept'
  <2> HIDE DEF Pair!PairingInv
  <2>1. Pair!PromisesAreKept
    BY DEF Pair!PairingInv
  <2>2. ASSUME NEW b \in Attempt, NEW k \in 1 .. Len(v10'[b].out), v10'[b].out[k].kind = "accepted"
        PROVE  v10'[b].out[k].secret \in v12
    BY <1>3, <2>1, <2>2 DEF Pair!PromisesAreKept
  <2> QED BY <2>1, <2>2 DEF Pair!PromisesAreKept
<1>5. Pair!EndsAreTold'
  <2> HIDE DEF Pair!PairingInv
  <2>1. Pair!EndsAreTold
    BY DEF Pair!PairingInv
  <2>2. ASSUME NEW b \in Attempt, v10'[b].tracked, v10'[b].id # Pair!NoId
        PROVE  \/ v10'[b].id \in DOMAIN v4'
               \/ \E k \in 1 .. Len(v5[v10'[b].id]) : v5[v10'[b].id][k].kind \in Pair!Final
               \/ \E k \in 1 .. Len(v10'[b].out) :
                    v10'[b].out[k].id = v10'[b].id /\ v10'[b].out[k].kind \in Pair!Final
    <3>1. CASE b # a
      BY <1>3, <2>1, <2>2, <3>1 DEF Pair!EndsAreTold
    <3>2. CASE b = a
      BY <1>3, <2>1, <2>2, <3>2 DEF Pair!EndsAreTold
    <3> QED BY <3>1, <3>2
  <2> QED BY <2>2 DEF Pair!EndsAreTold, Pair!NoId
<1> QED BY <1>1, <1>2, <1>4, <1>5

\* The peer a datagram comes from, before and after it has been heard.
LEMMA HeardPeer ==
    ASSUME Pair!TypeOK, NEW a \in Attempt, Pair!Hearable(a)
    PROVE  LET p == Pair!Peer(a)
               h == Pair!Heard(a)
           IN  /\ h \in Pair!Unkeyed /\ p \in Pair!Unkeyed
               /\ h.out = p.out /\ h.id = p.id
               /\ v10[a].tracked => p.out = v10[a].out
               /\ p.out = v10[a].out \/ p.out = <<>>
               /\ p.id # Pair!NoId => v10[a].tracked /\ p.id = v10[a].id
<1> DEFINE M == Seq(Pair!Message)
<1>1. <<>> \in M /\ v10[a] \in Pair!Unkeyed /\ v11[a] \in Pair!Television
  BY DEF Pair!TypeOK
<1> HIDE DEF M
<1>2. Pair!Peer(a) \in Pair!Unkeyed
  <2>1. Pair!NoId \in 0 .. MaxRequests
    BY RequestsAreNumbers DEF Pair!NoId
  <2>2. Pair!Fresh \in Pair!Unkeyed
    BY <1>1, <2>1 DEF Pair!Fresh, Pair!Unkeyed, M
  <2>3. [Pair!Fresh EXCEPT !.tracked = TRUE] \in Pair!Unkeyed
    BY <2>2, Zenon DEF Pair!Unkeyed
  <2> QED BY <1>1, <2>2, <2>3 DEF Pair!Peer
<1>3. Pair!Peer(a).heard + 1 \in 0 .. 2
  BY <1>1, <1>2 DEF Pair!Hearable, Pair!Unkeyed, Pair!Television
<1>4. Pair!Heard(a) \in Pair!Unkeyed /\ Pair!Heard(a).out = Pair!Peer(a).out
      /\ Pair!Heard(a).id = Pair!Peer(a).id
  BY <1>2, <1>3 DEF Pair!Heard, Pair!Unkeyed
<1> QED BY <1>2, <1>4 DEF Pair!Peer, Pair!Fresh

LEMMA HearUnarmedKeeps ==
    ASSUME Pair!PairingInv, NEW a \in Attempt, Pair!HearUnarmed(a)
    PROVE  Pair!PairingInv'
<1>1. Pair!TypeOK /\ Pair!Hearable(a) /\ MaxRequests \in Nat
  BY PairingAssumption DEF Pair!PairingInv, Pair!HearUnarmed, Pair!PairingBounds
<1>2. /\ v10' = [v10 EXCEPT ![a] = Pair!Heard(a)]
      /\ UNCHANGED <<v1, v2, v3, v4, v5, v6, v7, v8, v9, v11, v12, v13>>
  BY DEF Pair!HearUnarmed, Pair!serverVars, Pair!storeVars
<1>3. /\ v6' \in v6 .. MaxRequests /\ DOMAIN v4 \subseteq DOMAIN v4'
      /\ DOMAIN v4' \subseteq 0 .. v6' - 1 /\ v4' \in [DOMAIN v4' -> Pair!Waiting]
  BY <1>1, <1>2 DEF Pair!TypeOK
<1> DEFINE p == Pair!Heard(a)
<1>4. /\ p \in Pair!Unkeyed
      /\ v10[a].tracked => p.out = v10[a].out
      /\ p.out = v10[a].out \/ p.out = <<>>
      /\ p.id # Pair!NoId => v10[a].tracked /\ p.id = v10[a].id
  BY <1>1, HeardPeer
<1> HIDE DEF p
<1>5. /\ v10[a].tracked => \A k \in 1 .. Len(v10[a].out) :
               k \in 1 .. Len(p.out) /\ p.out[k] = v10[a].out[k]
      /\ \A k \in 1 .. Len(p.out) :
               \/ k \in 1 .. Len(v10[a].out) /\ p.out[k] = v10[a].out[k]
               \/ p.out[k].kind # "accepted"
  BY <1>4
<1>6. v10' = [v10 EXCEPT ![a] = p]
  BY <1>2 DEF p
<1> QED BY <1>2, <1>3, <1>4, <1>5, <1>6, PeerKeeps, Zenon

LEMMA HearConfirmKeeps ==
    ASSUME Pair!PairingInv, NEW a \in Attempt, Pair!HearConfirm(a)
    PROVE  Pair!PairingInv'
<1>1. Pair!TypeOK /\ Pair!Hearable(a) /\ MaxRequests \in Nat
  BY PairingAssumption DEF Pair!PairingInv, Pair!HearConfirm, Pair!PairingBounds
<1>2. /\ v10' = [v10 EXCEPT ![a] = Pair!Heard(a)]
      /\ UNCHANGED <<v1, v2, v3, v5, v6, v7, v8, v9, v11, v12, v13>>
      /\ v4' = IF v11[a].id \in DOMAIN v4
                  THEN [v4 EXCEPT ![v11[a].id].tag = <<a, v11[a].nonce>>]
                  ELSE v4
  BY DEF Pair!HearConfirm, Pair!storeVars
<1>3. /\ v6' \in v6 .. MaxRequests /\ DOMAIN v4 \subseteq DOMAIN v4'
      /\ DOMAIN v4' \subseteq 0 .. v6' - 1 /\ v4' \in [DOMAIN v4' -> Pair!Waiting]
  <2>1. v11[a].nonce \in Nat
    BY <1>1 DEF Pair!TypeOK, Pair!Television
  <2>2. DOMAIN v4' = DOMAIN v4
    BY <1>2
  <2>3. ASSUME NEW i \in DOMAIN v4, i = v11[a].id
        PROVE  [v4[i] EXCEPT !.tag = <<a, v11[a].nonce>>] \in Pair!Waiting
    BY <1>1, <2>1, Zenon DEF Pair!TypeOK, Pair!Waiting
  <2>4. v4' \in [DOMAIN v4 -> Pair!Waiting]
    BY <1>1, <1>2, <2>3 DEF Pair!TypeOK
  <2> QED BY <1>1, <1>2, <2>2, <2>4 DEF Pair!TypeOK
<1> DEFINE p == Pair!Heard(a)
<1>4. /\ p \in Pair!Unkeyed
      /\ v10[a].tracked => p.out = v10[a].out
      /\ p.out = v10[a].out \/ p.out = <<>>
      /\ p.id # Pair!NoId => v10[a].tracked /\ p.id = v10[a].id
  BY <1>1, HeardPeer
<1> HIDE DEF p
<1>5. /\ v10[a].tracked => \A k \in 1 .. Len(v10[a].out) :
               k \in 1 .. Len(p.out) /\ p.out[k] = v10[a].out[k]
      /\ \A k \in 1 .. Len(p.out) :
               \/ k \in 1 .. Len(v10[a].out) /\ p.out[k] = v10[a].out[k]
               \/ p.out[k].kind # "accepted"
  BY <1>4
<1>6. v10' = [v10 EXCEPT ![a] = p]
  BY <1>2 DEF p
<1> QED BY <1>2, <1>3, <1>4, <1>5, <1>6, PeerKeeps, Zenon

LEMMA PeerFields ==
    ASSUME NEW h \in Pair!Unkeyed, NEW o \in Seq(Pair!Message)
    PROVE  /\ LET p == [h EXCEPT !.out = o] IN
              p \in Pair!Unkeyed /\ p.out = o /\ p.id = h.id
           /\ \A i \in 0 .. MaxRequests :
                LET p == [h EXCEPT !.id = i, !.out = o] IN
                p \in Pair!Unkeyed /\ p.out = o /\ p.id = i
<1> DEFINE M == Seq(Pair!Message)
<1>1. o \in M /\ h \in [tracked : BOOLEAN, id : 0 .. MaxRequests, heard : 0 .. 2, out : M]
  BY DEF Pair!Unkeyed
<1>2. Pair!Unkeyed = [tracked : BOOLEAN, id : 0 .. MaxRequests, heard : 0 .. 2, out : M]
  BY DEF Pair!Unkeyed
<1> HIDE DEF M
<1> QED BY <1>1, <1>2, Zenon

LEMMA HearRequestKeeps ==
    ASSUME Pair!PairingInv, NEW a \in Attempt, Pair!HearRequest(a)
    PROVE  Pair!PairingInv'
<1>1. Pair!TypeOK /\ Pair!Hearable(a) /\ MaxRequests \in Nat /\ MaxPinTries \in Nat \ {0}
  BY PairingAssumption DEF Pair!PairingInv, Pair!HearRequest, Pair!PairingBounds
<1> DEFINE h == Pair!Heard(a)
           m == Pair!Challenge(v6)
           p == [h EXCEPT !.id = v6, !.out = Append(h.out, m)]
           made == [from |-> a, tag |-> <<>>, tries |-> 0]
<1>2. /\ v10' = [v10 EXCEPT ![a] = p]
      /\ UNCHANGED <<v1, v2, v3, v5, v7, v8, v9, v11, v12, v13>>
      /\ v6 < MaxRequests /\ v6' = v6 + 1
      /\ v4' = [i \in DOMAIN v4 \cup {v6} |-> IF i = v6 THEN made ELSE v4[i]]
  BY DEF Pair!HearRequest, Pair!storeVars
<1>3. v6 \in Nat /\ DOMAIN v4 \subseteq 0 .. v6 - 1 /\ v4 \in [DOMAIN v4 -> Pair!Waiting]
  BY <1>1 DEF Pair!TypeOK
<1>4. /\ v6' \in v6 .. MaxRequests /\ DOMAIN v4 \subseteq DOMAIN v4' /\ v6 \in DOMAIN v4'
      /\ DOMAIN v4' \subseteq 0 .. v6' - 1 /\ v4' \in [DOMAIN v4' -> Pair!Waiting]
  <2>1. made \in Pair!Waiting
    BY <1>1 DEF Pair!Waiting
  <2> HIDE DEF made
  <2>2. DOMAIN v4' = DOMAIN v4 \cup {v6}
    BY <1>2
  <2>3. v4' \in [DOMAIN v4 \cup {v6} -> Pair!Waiting]
    BY <1>2, <1>3, <2>1
  <2> QED BY <1>1, <1>2, <1>3, <2>2, <2>3
<1>5. /\ h \in Pair!Unkeyed
      /\ v10[a].tracked => h.out = v10[a].out
      /\ h.out = v10[a].out \/ h.out = <<>>
  BY <1>1, HeardPeer
<1>6. m \in Pair!Message /\ m.kind # "accepted"
  BY <1>1, <1>2, <1>3, RequestsAreNumbers
  DEF Pair!Challenge, Pair!Message, Pair!NoId, Pair!TypeOK, Pair!RequestId
<1> HIDE DEF h, m
<1>7. Append(h.out, m) \in Seq(Pair!Message) /\ h.out \in Seq(Pair!Message)
  <2> DEFINE M == Pair!Message
  <2>1. h.out \in Seq(M) /\ m \in M
    BY <1>5, <1>6 DEF Pair!Unkeyed
  <2> HIDE DEF M
  <2>2. Append(h.out, m) \in Seq(M)
    BY <2>1
  <2> QED BY <2>1, <2>2 DEF M
<1>8. p \in Pair!Unkeyed /\ p.out = Append(h.out, m) /\ p.id = v6
  <2>1. v6 \in 0 .. MaxRequests
    BY <1>1, <1>2, <1>3
  <2> DEFINE o == Append(h.out, m)
  <2>2. h \in Pair!Unkeyed /\ o \in Seq(Pair!Message)
    BY <1>5, <1>7
  <2> HIDE DEF o
  <2>3. \A i \in 0 .. MaxRequests :
          LET q == [h EXCEPT !.id = i, !.out = o] IN
          q \in Pair!Unkeyed /\ q.out = o /\ q.id = i
    BY <2>2, PeerFields, ZenonT(40)
  <2>4. p = [h EXCEPT !.id = v6, !.out = o]
    BY DEF o
  <2> HIDE DEF p
  <2> QED BY <2>1, <2>3, <2>4, Zenon DEF o
<1> HIDE DEF p
<1>9. /\ v10[a].tracked => \A k \in 1 .. Len(v10[a].out) :
               k \in 1 .. Len(p.out) /\ p.out[k] = v10[a].out[k]
      /\ \A k \in 1 .. Len(p.out) :
               \/ k \in 1 .. Len(v10[a].out) /\ p.out[k] = v10[a].out[k]
               \/ p.out[k].kind # "accepted"
  BY <1>5, <1>6, <1>7, <1>8
<1>10. p.tracked /\ p.id # Pair!NoId =>
         \/ p.id \in DOMAIN v4'
         \/ v10[a].tracked /\ v10[a].id = p.id
  BY <1>4, <1>8
<1> QED BY <1>2, <1>4, <1>8, <1>9, <1>10, PeerKeeps, Zenon

LEMMA ForgetKeeps ==
    ASSUME Pair!PairingInv, NEW a \in Attempt, Pair!Forget(a)
    PROVE  Pair!PairingInv'
<1> DEFINE p == [Pair!Fresh EXCEPT !.out = v10[a].out]
<1>1. Pair!TypeOK /\ MaxRequests \in Nat
  BY PairingAssumption DEF Pair!PairingInv, Pair!PairingBounds
<1>2. /\ v10' = [v10 EXCEPT ![a] = p]
      /\ UNCHANGED <<v1, v2, v3, v4, v5, v6, v7, v8, v9, v11, v12, v13>>
  BY DEF Pair!Forget, Pair!serverVars, Pair!storeVars
<1>3. /\ v6' \in v6 .. MaxRequests /\ DOMAIN v4 \subseteq DOMAIN v4'
      /\ DOMAIN v4' \subseteq 0 .. v6' - 1 /\ v4' \in [DOMAIN v4' -> Pair!Waiting]
  BY <1>1, <1>2 DEF Pair!TypeOK
<1>4. p \in Pair!Unkeyed /\ p.out = v10[a].out /\ p.id = Pair!NoId
  <2>1. Pair!NoId \in 0 .. MaxRequests
    BY RequestsAreNumbers DEF Pair!NoId
  <2>2. <<>> \in Seq(Pair!Message)
    OBVIOUS
  <2>3. Pair!Fresh \in Pair!Unkeyed /\ Pair!Fresh.id = Pair!NoId
    BY <2>1, <2>2 DEF Pair!Fresh, Pair!Unkeyed
  <2>4. v10[a].out \in Seq(Pair!Message)
    BY <1>1 DEF Pair!TypeOK, Pair!Unkeyed
  <2> QED BY <2>3, <2>4, PeerFields, Zenon
<1> HIDE DEF p
<1> QED BY <1>2, <1>3, <1>4, PeerKeeps, Zenon

\* What a television does: it believes it is paired when it is.
LEMMA TelevisionKeeps ==
    ASSUME Pair!PairingInv, NEW a \in Attempt, NEW t \in Pair!Television,
           UNCHANGED <<v1, v2, v3, v4, v5, v6, v7, v8, v9, v10, v12, v13>>,
           v11' = [v11 EXCEPT ![a] = t],
           t.phase = "done" => <<a, t.nonce>> \in v12
    PROVE  Pair!PairingInv'
<1> USE DEF Pair!PairingInv
<1>1. Pair!TypeOK'
  BY DEF Pair!TypeOK
<1>2. Pair!AcceptedIsSaved'
  BY Zenon DEF Pair!TypeOK, Pair!AcceptedIsSaved
<1>3. /\ Pair!SpentOnce' /\ Pair!FileIsWhole' /\ Pair!OneClientPerArming' /\ Pair!PromisesAreKept'
      /\ Pair!KnownIsSaved' /\ Pair!RevokedStaysRevoked' /\ Pair!IdsAreUnique' /\ Pair!EndsAreTold'
  BY DEF Pair!SpentOnce, Pair!FileIsWhole, Pair!OneClientPerArming, Pair!PromisesAreKept,
         Pair!KnownIsSaved, Pair!RevokedStaysRevoked, Pair!IdsAreUnique, Pair!EndsAreTold
<1> QED BY <1>1, <1>2, <1>3

LEMMA AskKeeps ==
    ASSUME Pair!PairingInv, NEW a \in Attempt, Pair!Ask(a)
    PROVE  Pair!PairingInv'
<1> DEFINE t == [v11[a] EXCEPT !.phase = "asking", !.sent = 1]
<1>1. v11[a] \in Pair!Television /\ DOMAIN v11 = Attempt
  BY DEF Pair!PairingInv, Pair!TypeOK
<1>2. t \in Pair!Television /\ t.phase = "asking"
  <2>1. 1 \in 0 .. 2
    OBVIOUS
  <2> QED BY <1>1, <2>1, Zenon DEF Pair!Television
<1>3. /\ v11' = [v11 EXCEPT ![a] = t]
      /\ UNCHANGED <<v1, v2, v3, v4, v5, v6, v7, v8, v9, v10, v12, v13>>
  BY <1>1, Zenon DEF Pair!Ask, Pair!serverVars, Pair!storeVars
<1> HIDE DEF t
<1> QED BY <1>2, <1>3, TelevisionKeeps, Zenon

LEMMA GiveUpKeeps ==
    ASSUME Pair!PairingInv, NEW a \in Attempt, Pair!GiveUp(a)
    PROVE  Pair!PairingInv'
<1> DEFINE t == [v11[a] EXCEPT !.phase = "failed"]
<1>1. v11[a] \in Pair!Television /\ DOMAIN v11 = Attempt
  BY DEF Pair!PairingInv, Pair!TypeOK
<1>2. t \in Pair!Television /\ t.phase = "failed"
  BY <1>1 DEF Pair!Television
<1>3. /\ v11' = [v11 EXCEPT ![a] = t]
      /\ UNCHANGED <<v1, v2, v3, v4, v5, v6, v7, v8, v9, v10, v12, v13>>
  BY <1>1 DEF Pair!GiveUp, Pair!serverVars, Pair!storeVars
<1> HIDE DEF t
<1> QED BY <1>2, <1>3, TelevisionKeeps, Zenon

\* A message leaves the television waiting, or ends its attempt as it says.
LEMMA AfterMessage ==
    ASSUME NEW t \in Pair!Television, NEW a \in Attempt, NEW m \in Pair!Message
    PROVE  LET u == Pair!After(t, a, m) IN
           /\ u \in Pair!Television
           /\ u.phase = "done" =>
                \/ t.phase = "done" /\ u = t
                \/ m.kind = "accepted" /\ m.secret = <<a, u.nonce>>
<1> DEFINE u == Pair!After(t, a, m)
<1>1. CASE t.phase = "asking" /\ m.kind = "challenge"
  <2>1. u = [t EXCEPT !.phase = "confirming", !.sent = 2, !.id = m.id, !.nonce = m.nonce]
    BY <1>1 DEF Pair!After
  <2>2. m.id \in 0 .. MaxRequests /\ m.nonce \in Nat
    BY PairingAssumption DEF Pair!PairingBounds, Pair!Message, Pair!RequestId
  <2> HIDE DEF u
  <2>3. u \in Pair!Television
    <3>1. 2 \in 0 .. 2
      OBVIOUS
    <3> QED BY <2>1, <2>2, <3>1, Zenon DEF Pair!Television
  <2>4. u.phase = "confirming"
    BY <2>1 DEF Pair!Television
  <2> QED BY <2>3, <2>4 DEF u
<1>2. CASE t.phase = "confirming" /\ m.id = t.id /\ m.kind = "rejected"
  <2>1. u = [t EXCEPT !.phase = "failed"]
    BY <1>2 DEF Pair!After
  <2> QED BY <2>1 DEF Pair!Television
<1>3. CASE t.phase = "confirming" /\ m.id = t.id /\ m.kind = "accepted" /\ m.secret = <<a, t.nonce>>
  <2>1. u = [t EXCEPT !.phase = "done"]
    BY <1>3 DEF Pair!After
  <2>2. u \in Pair!Television /\ u.nonce = t.nonce
    BY <2>1 DEF Pair!Television
  <2> QED BY <1>3, <2>2
<1>4. CASE ~ \/ t.phase = "asking" /\ m.kind = "challenge"
             \/ t.phase = "confirming" /\ m.id = t.id /\ m.kind = "rejected"
             \/ /\ t.phase = "confirming" /\ m.id = t.id /\ m.kind = "accepted"
                /\ m.secret = <<a, t.nonce>>
  <2>1. u = t
    BY <1>4 DEF Pair!After
  <2> QED BY <2>1
<1> QED BY <1>1, <1>2, <1>3, <1>4

LEMMA DeliverKeeps ==
    ASSUME Pair!PairingInv, NEW a \in Attempt, Pair!Deliver(a)
    PROVE  Pair!PairingInv'
<1>1. /\ v11[a] \in Pair!Television /\ DOMAIN v11 = Attempt
      /\ v10[a].out \in Seq(Pair!Message) /\ v11[a].got \in Nat
      /\ v11[a].phase # "done"
  BY DEF Pair!PairingInv, Pair!TypeOK, Pair!Unkeyed, Pair!Television, Pair!Deliver
<1> DEFINE m == v10[a].out[v11[a].got + 1]
           u == Pair!After(v11[a], a, m)
<1>2. PICK n \in 1 .. Len(v10[a].out) - v11[a].got :
        /\ v11' = [v11 EXCEPT ![a] = [u EXCEPT !.got = @ + n]]
        /\ UNCHANGED <<v1, v2, v3, v4, v5, v6, v7, v8, v9, v10, v12, v13>>
  <2> QED BY Zenon DEF Pair!Deliver, Pair!serverVars, Pair!storeVars
<1>3. /\ v11[a].got + 1 \in 1 .. Len(v10[a].out) /\ n \in Nat
      /\ m \in Pair!Message
  <2> DEFINE M == Pair!Message
  <2>1. v10[a].out \in Seq(M)
    BY <1>1 DEF M
  <2> HIDE DEF M
  <2>2. v11[a].got + 1 \in 1 .. Len(v10[a].out) /\ n \in Nat
    BY <1>1, <2>1
  <2>3. m \in M
    BY <2>1, <2>2
  <2> QED BY <2>2, <2>3 DEF M
<1>4. /\ u \in Pair!Television
      /\ u.phase = "done" => m.kind = "accepted" /\ m.secret = <<a, u.nonce>>
  BY <1>1, <1>3, AfterMessage, Zenon
<1>5. m.kind = "accepted" => m.secret \in v12
  BY <1>3 DEF Pair!PairingInv, Pair!PromisesAreKept
<1> DEFINE t == [u EXCEPT !.got = u.got + n]
<1>6. v11' = [v11 EXCEPT ![a] = t]
  BY <1>2
<1> HIDE DEF u, m
<1>7. t \in Pair!Television /\ t.phase = u.phase /\ t.nonce = u.nonce
  BY <1>3, <1>4 DEF Pair!Television
<1> HIDE DEF t
<1>8. t.phase = "done" => <<a, t.nonce>> \in v12
  BY <1>4, <1>5, <1>7
<1> QED BY <1>2, <1>6, <1>7, <1>8, TelevisionKeeps, Zenon

\* Two sequences joined: where each element is.
LEMMA JoinedSequences ==
    ASSUME NEW S, NEW s \in Seq(S), NEW t \in Seq(S)
    PROVE  /\ s \o t \in Seq(S)
           /\ Len(s) \in Nat /\ Len(t) \in Nat /\ Len(s \o t) = Len(s) + Len(t)
           /\ \A k \in 1 .. Len(s) : (s \o t)[k] = s[k]
           /\ \A k \in 1 .. Len(t) : (s \o t)[Len(s) + k] = t[k]
<1>1. s \o t \in Seq(S) /\ Len(s) \in Nat /\ Len(t) \in Nat /\ Len(s \o t) = Len(s) + Len(t)
  OBVIOUS
<1>2. ASSUME NEW k \in 1 .. Len(s) PROVE (s \o t)[k] = s[k]
  <2>1. k \in 1 .. Len(s) + Len(t) /\ k <= Len(s)
    BY <1>1
  <2> QED BY <2>1
<1>3. ASSUME NEW k \in 1 .. Len(t) PROVE (s \o t)[Len(s) + k] = t[k]
  <2>1. /\ Len(s) + k \in 1 .. Len(s) + Len(t) /\ ~(Len(s) + k <= Len(s))
        /\ Len(s) + k - Len(s) = k
    BY <1>1
  <2> QED BY <2>1
<1> QED BY <1>1, <1>2, <1>3

\* A recorded end as the message that tells it.
LEMMA ResultsAsMessages ==
    ASSUME NEW id \in Pair!RequestId, NEW s \in Seq(Pair!Outcome)
    PROVE  LET t == [k \in 1 .. Len(s) |-> Pair!Result(id, s[k])] IN
           /\ t \in Seq(Pair!Message) /\ Len(t) = Len(s)
           /\ \A k \in 1 .. Len(s) :
                t[k].id = id /\ t[k].kind = s[k].kind /\ t[k].secret = s[k].secret
<1> DEFINE t == [k \in 1 .. Len(s) |-> Pair!Result(id, s[k])]
           O == Pair!Outcome
           M == Pair!Message
<1>1. s \in Seq(O)
  BY DEF O
<1>2. \A o \in O : Pair!Result(id, o) \in M
  BY DEF O, M, Pair!Outcome, Pair!Message, Pair!Result, Pair!Final
<1>3. \A k \in 1 .. Len(s) :
        t[k].id = id /\ t[k].kind = s[k].kind /\ t[k].secret = s[k].secret
  BY DEF Pair!Result
<1> HIDE DEF O, M
<1>4. t \in Seq(M) /\ Len(t) = Len(s)
  BY <1>1, <1>2
<1> QED BY <1>3, <1>4 DEF M

\* What the drain tells one peer: all that is recorded of its request.
LEMMA DrainedPeer ==
    ASSUME Pair!TypeOK, Pair!PromisesAreKept, NEW p \in Pair!Unkeyed, p.id \in Pair!RequestId,
           \A k \in 1 .. Len(p.out) : p.out[k].kind = "accepted" => p.out[k].secret \in v12
    PROVE  LET s == Pair!Noticed[p.id]
               q == [p EXCEPT !.out = @ \o [k \in 1 .. Len(s) |-> Pair!Result(p.id, s[k])]]
           IN  /\ q \in Pair!Unkeyed /\ q.id = p.id
               /\ \A k \in 1 .. Len(q.out) : q.out[k].kind = "accepted" => q.out[k].secret \in v12
               /\ \A k \in 1 .. Len(p.out) : k \in 1 .. Len(q.out) /\ q.out[k] = p.out[k]
               /\ (\E k \in 1 .. Len(s) : s[k].kind \in Pair!Final) =>
                     \E k \in 1 .. Len(q.out) : q.out[k].id = p.id /\ q.out[k].kind \in Pair!Final
<1> DEFINE s == Pair!Noticed[p.id]
           t == [k \in 1 .. Len(s) |-> Pair!Result(p.id, s[k])]
           q == [p EXCEPT !.out = p.out \o t]
           M == Pair!Message
<1>1. s \in Seq(Pair!Outcome)
  BY NoticedAdds
<1>2. \A k \in 1 .. Len(s) : s[k].kind = "accepted" => s[k].secret \in v12
  <2>1. \A k \in 1 .. Len(s) : k \in 1 .. Len(v5[p.id]) \/ s[k].kind = "rejected"
    BY NoticedAdds DEF Pair!Rejected
  <2>2. \A k \in 1 .. Len(v5[p.id]) : s[k] = v5[p.id][k]
    BY NoticedAdds
  <2> QED BY <2>1, <2>2 DEF Pair!PromisesAreKept
<1> HIDE DEF s
<1>3. /\ t \in Seq(M) /\ Len(t) = Len(s)
      /\ \A k \in 1 .. Len(s) :
           t[k].id = p.id /\ t[k].kind = s[k].kind /\ t[k].secret = s[k].secret
  BY <1>1, ResultsAsMessages DEF M
<1>4. p.out \in Seq(M)
  BY DEF Pair!Unkeyed, M
<1> HIDE DEF t, M
<1>5. /\ p.out \o t \in Seq(M)
      /\ Len(p.out) \in Nat /\ Len(t) \in Nat /\ Len(p.out \o t) = Len(p.out) + Len(t)
      /\ \A k \in 1 .. Len(p.out) : (p.out \o t)[k] = p.out[k]
      /\ \A k \in 1 .. Len(t) : (p.out \o t)[Len(p.out) + k] = t[k]
  <2> DEFINE o == p.out
  <2>1. o \in Seq(M) /\ t \in Seq(M)
    BY <1>3, <1>4
  <2> HIDE DEF o
  <2>2. /\ o \o t \in Seq(M)
        /\ Len(o) \in Nat /\ Len(t) \in Nat /\ Len(o \o t) = Len(o) + Len(t)
        /\ \A k \in 1 .. Len(o) : (o \o t)[k] = o[k]
        /\ \A k \in 1 .. Len(t) : (o \o t)[Len(o) + k] = t[k]
    BY <2>1, JoinedSequences
  <2> QED BY <2>2 DEF o
<1>6. q \in Pair!Unkeyed /\ q.out = p.out \o t /\ q.id = p.id
  <2> DEFINE o == p.out \o t
  <2>1. o \in Seq(Pair!Message)
    BY <1>5 DEF M
  <2> HIDE DEF o
  <2>2. LET r == [p EXCEPT !.out = o] IN r \in Pair!Unkeyed /\ r.out = o /\ r.id = p.id
    BY <2>1, PeerFields, Zenon
  <2> QED BY <2>2 DEF o
<1> HIDE DEF q
<1>7. ASSUME NEW k \in 1 .. Len(q.out), q.out[k].kind = "accepted"
      PROVE  q.out[k].secret \in v12
  <2>1. CASE k \in 1 .. Len(p.out)
    BY <1>5, <1>6, <1>7, <2>1
  <2>2. CASE k \notin 1 .. Len(p.out)
    <3>1. k - Len(p.out) \in 1 .. Len(t) /\ q.out[k] = t[k - Len(p.out)]
      BY <1>5, <1>6, <2>2
    <3> QED BY <1>2, <1>3, <1>7, <3>1
  <2> QED BY <2>1, <2>2
<1>8. \A k \in 1 .. Len(p.out) : k \in 1 .. Len(q.out) /\ q.out[k] = p.out[k]
  BY <1>5, <1>6
<1>9. ASSUME NEW k \in 1 .. Len(s), s[k].kind \in Pair!Final
      PROVE  \E j \in 1 .. Len(q.out) : q.out[j].id = p.id /\ q.out[j].kind \in Pair!Final
  <2> DEFINE n == Len(p.out)
  <2>1. k \in 1 .. Len(t) /\ t[k].id = p.id /\ t[k].kind = s[k].kind
    BY <1>3, <1>9
  <2>2. n \in Nat /\ Len(t) \in Nat /\ Len(q.out) = n + Len(t) /\ q.out[n + k] = t[k]
    BY <1>5, <1>6, <2>1, Zenon
  <2> HIDE DEF n
  <2>3. n + k \in 1 .. Len(q.out)
    BY <2>1, <2>2
  <2> QED BY <1>9, <2>1, <2>2, <2>3, Zenon
<1> QED BY <1>6, <1>7, <1>8, <1>9, Zenon DEF q, t, s

LEMMA DrainKeeps == ASSUME Pair!PairingInv, Pair!Drain PROVE Pair!PairingInv'
<1> DEFINE s(id) == Pair!Noticed[id]
           Told(p) == [p EXCEPT !.out = @ \o [k \in 1 .. Len(Pair!Noticed[p.id]) |->
                                                Pair!Result(p.id, Pair!Noticed[p.id][k])]]
           told(a) == IF v10[a].tracked /\ v10[a].id # Pair!NoId THEN Told(v10[a]) ELSE v10[a]
<1>1. /\ Pair!TypeOK /\ Pair!PromisesAreKept /\ Pair!EndsAreTold
      /\ v10 \in [Attempt -> Pair!Unkeyed] /\ MaxRequests \in Nat
  BY PairingAssumption DEF Pair!PairingInv, Pair!TypeOK, Pair!PairingBounds
<1>2. /\ UNCHANGED <<v2, v6, v7, v8, v9, v11, v12, v13>>
      /\ v1' \in {0, v1} /\ v3' = FALSE /\ v4' \in {<<>>, v4}
      /\ v4' = Pair!StillPending
      /\ v5' = [id \in Pair!RequestId |-> <<>>]
  BY DEF Pair!Drain, Pair!StillArmed, Pair!StillPending, Pair!storeVars
<1>3. v10' = [a \in Attempt |-> told(a)]
  BY DEF Pair!Drain
<1>4. ASSUME NEW a \in Attempt, v10[a].tracked /\ v10[a].id # Pair!NoId
      PROVE  /\ told(a) = Told(v10[a]) /\ v10[a].id \in Pair!RequestId /\ v10[a] \in Pair!Unkeyed
             /\ \A k \in 1 .. Len(v10[a].out) :
                  v10[a].out[k].kind = "accepted" => v10[a].out[k].secret \in v12
  BY <1>1, <1>4, RequestsAreNumbers DEF Pair!PromisesAreKept, Pair!Unkeyed, Pair!NoId
<1>5. ASSUME NEW a \in Attempt
      PROVE  /\ told(a) \in Pair!Unkeyed
             /\ \A k \in 1 .. Len(told(a).out) :
                  told(a).out[k].kind = "accepted" => told(a).out[k].secret \in v12
  <2>1. CASE v10[a].tracked /\ v10[a].id # Pair!NoId
    BY <1>1, <1>4, <2>1, DrainedPeer, Zenon
  <2>2. CASE ~(v10[a].tracked /\ v10[a].id # Pair!NoId)
    BY <1>1, <2>2 DEF Pair!PromisesAreKept
  <2> QED BY <2>1, <2>2, Zenon
<1>6. ASSUME NEW a \in Attempt, told(a).tracked, told(a).id # Pair!NoId
      PROVE  \/ told(a).id \in DOMAIN v4'
             \/ \E k \in 1 .. Len(told(a).out) :
                  told(a).out[k].id = told(a).id /\ told(a).out[k].kind \in Pair!Final
  <2> DEFINE p == v10[a]
             q == told(a)
  <2>1. p \in Pair!Unkeyed
    BY <1>1
  <2>2. p.tracked /\ p.id # Pair!NoId
    BY <1>6
  <2>3. /\ q = Told(p) /\ p.id \in Pair!RequestId
        /\ \A k \in 1 .. Len(p.out) : p.out[k].kind = "accepted" => p.out[k].secret \in v12
    BY <1>4, <2>2, Zenon
  <2>4. /\ q.id = p.id
        /\ \A k \in 1 .. Len(p.out) : k \in 1 .. Len(q.out) /\ q.out[k] = p.out[k]
        /\ (\E k \in 1 .. Len(s(p.id)) : s(p.id)[k].kind \in Pair!Final) =>
              \E k \in 1 .. Len(q.out) : q.out[k].id = p.id /\ q.out[k].kind \in Pair!Final
    BY <1>1, <2>1, <2>3, DrainedPeer, Zenon
  <2> HIDE DEF q
  <2>5. CASE p.id \in DOMAIN v4
    <3>1. \/ p.id \in DOMAIN v4'
          \/ \E k \in 1 .. Len(s(p.id)) : s(p.id)[k].kind \in Pair!Final
      BY <1>1, <1>2, <2>3, <2>5, NoticedAdds DEF Pair!Rejected, Pair!Final
    <3> QED BY <2>4, <3>1, Zenon DEF q
  <2>6. CASE \E k \in 1 .. Len(v5[p.id]) : v5[p.id][k].kind \in Pair!Final
    <3>1. \E k \in 1 .. Len(s(p.id)) : s(p.id)[k].kind \in Pair!Final
      BY <1>1, <2>3, <2>6, NoticedAdds
    <3> QED BY <2>4, <3>1, Zenon DEF q
  <2>7. CASE \E k \in 1 .. Len(p.out) : p.out[k].id = p.id /\ p.out[k].kind \in Pair!Final
    BY <2>4, <2>7, Zenon DEF q
  <2> QED BY <1>1, <2>2, <2>5, <2>6, <2>7, Zenon DEF Pair!EndsAreTold
<1> HIDE DEF told, Told
<1>7. Pair!TypeOK'
  <2>1. v10' \in [Attempt -> Pair!Unkeyed]
    BY <1>3, <1>5
  <2>2. v5' \in [Pair!RequestId -> Seq(Pair!Outcome)]
    <3>1. <<>> \in Seq(Pair!Outcome)
      OBVIOUS
    <3> QED BY <1>2, <3>1
  <2>3. DOMAIN v4' \subseteq 0 .. v6 - 1 /\ v4' \in [DOMAIN v4' -> Pair!Waiting]
    BY <1>1, <1>2, NobodyWaits, Zenon DEF Pair!TypeOK
  <2> QED BY <1>1, <1>2, <2>1, <2>2, <2>3, Zenon DEF Pair!TypeOK
<1>8. Pair!SpentOnce'
  <2>1. v1' \in {0, v1} /\ v2 \in Nat /\ v12' = v12 /\ v2' = v2
    BY <1>1, <1>2 DEF Pair!TypeOK
  <2> QED BY <2>1 DEF Pair!PairingInv, Pair!SpentOnce
<1>9. /\ Pair!FileIsWhole' /\ Pair!OneClientPerArming' /\ Pair!AcceptedIsSaved'
      /\ Pair!KnownIsSaved' /\ Pair!RevokedStaysRevoked' /\ Pair!IdsAreUnique'
  BY <1>2 DEF Pair!PairingInv, Pair!FileIsWhole, Pair!OneClientPerArming, Pair!AcceptedIsSaved,
         Pair!KnownIsSaved, Pair!RevokedStaysRevoked, Pair!IdsAreUnique
<1>10. Pair!PromisesAreKept'
  <2>1. \A id \in Pair!RequestId : Len(v5'[id]) = 0
    BY <1>2
  <2>2. \A a \in Attempt : v10'[a] = told(a)
    BY <1>3
  <2> QED BY <1>2, <1>5, <2>1, <2>2 DEF Pair!PromisesAreKept
<1>11. Pair!EndsAreTold'
  <2>1. \A a \in Attempt : v10'[a] = told(a)
    BY <1>3
  <2> QED BY <1>6, <2>1 DEF Pair!EndsAreTold, Pair!NoId
<1> QED BY <1>7, <1>8, <1>9, <1>10, <1>11 DEF Pair!PairingInv

\* The id after the highest is above them all.
LEMMA NextAfterAll ==
    ASSUME NEW known, known \subseteq Pair!Client, NEW b \in Nat, \A c \in known : c.id < b
    PROVE  Pair!NextAfter(known) \in Nat \ {0} /\ \A c \in known : c.id < Pair!NextAfter(known)
<1> DEFINE T == {1} \cup {c.id + 1 : c \in known}
           S == {c.id : c \in known}
<1>1. S \subseteq Nat /\ \A n \in S : n < b
  BY DEF Pair!Client
<1>2. \E n \in T : \A c \in known : c.id < n
  <2>1. CASE known = {}
    BY <2>1
  <2>2. CASE known # {}
    <3>1. PICK m \in S : \A n \in S : n <= m
      BY <1>1, <2>2, GreatestNumber, Zenon
    <3>2. PICK d \in known : m = d.id
      BY <3>1
    <3>3. \A c \in known : c.id \in S /\ c.id \in Nat
      BY <1>1
    <3>4. d.id + 1 \in T /\ \A c \in known : c.id < d.id + 1
      BY <3>1, <3>2, <3>3
    <3> QED BY <3>4, Zenon
  <2> QED BY <2>1, <2>2
<1>3. Pair!NextAfter(known) \in T /\ \A c \in known : c.id < Pair!NextAfter(known)
  BY <1>2 DEF Pair!NextAfter
<1>4. T \subseteq Nat \ {0}
  BY DEF Pair!Client
<1> QED BY <1>3, <1>4

LEMMA CrashKeeps == ASSUME Pair!PairingInv, Pair!Crash PROVE Pair!PairingInv'
<1> DEFINE lost(a) == [Pair!Fresh EXCEPT !.out = v10[a].out]
<1>1. /\ Pair!TypeOK /\ MaxRequests \in Nat
      /\ v10 \in [Attempt -> Pair!Unkeyed]
  BY PairingAssumption DEF Pair!PairingInv, Pair!TypeOK, Pair!PairingBounds
<1>2. /\ UNCHANGED <<v2, v9, v11, v12, v13>>
      /\ v1' = 0 /\ v3' = FALSE /\ v4' = <<>> /\ v6' = 0
      /\ v5' = [id \in Pair!RequestId |-> <<>>]
      /\ v7' = v9 /\ v8' = Pair!NextAfter(v9)
  BY DEF Pair!Crash
<1>3. v10' = [a \in Attempt |-> lost(a)]
  BY DEF Pair!Crash
<1>4. ASSUME NEW a \in Attempt
      PROVE  lost(a) \in Pair!Unkeyed /\ lost(a).out = v10[a].out /\ lost(a).id = Pair!NoId
  <2>1. Pair!NoId \in 0 .. MaxRequests
    BY RequestsAreNumbers DEF Pair!NoId
  <2>2. <<>> \in Seq(Pair!Message)
    OBVIOUS
  <2>3. Pair!Fresh \in Pair!Unkeyed /\ Pair!Fresh.id = Pair!NoId
    BY <2>1, <2>2 DEF Pair!Fresh, Pair!Unkeyed
  <2>4. v10[a].out \in Seq(Pair!Message)
    BY <1>1 DEF Pair!Unkeyed
  <2> QED BY <2>3, <2>4, PeerFields, Zenon
<1> HIDE DEF lost
<1>5. \A a \in Attempt : v10'[a] = lost(a)
  BY <1>3
<1>6. v8' \in Nat \ {0} /\ \A c \in v9 : c.id < v8'
  BY <1>1, <1>2, NextAfterAll, Zenon DEF Pair!TypeOK, Pair!PairingInv, Pair!IdsAreUnique
<1>7. Pair!TypeOK'
  <2>1. v10' \in [Attempt -> Pair!Unkeyed]
    BY <1>3, <1>4
  <2>2. v5' \in [Pair!RequestId -> Seq(Pair!Outcome)]
    <3>1. <<>> \in Seq(Pair!Outcome)
      OBVIOUS
    <3> QED BY <1>2, <3>1
  <2>3. DOMAIN v4' = {} /\ v4' \in [DOMAIN v4' -> Pair!Waiting]
    BY <1>2, NobodyWaits
  <2>4. v1' \in {0, v2'} /\ v3' \in BOOLEAN /\ v6' \in 0 .. MaxRequests
    <3>1. v1' = 0 /\ v3' = FALSE /\ v6' = 0
      BY <1>2
    <3>2. 0 \in 0 .. MaxRequests
      BY <1>1
    <3> QED BY <3>1, <3>2, Zenon
  <2>7. DOMAIN v4' \subseteq 0 .. v6' - 1
    BY <2>3, Zenon
  <2>5. v7' \subseteq Pair!Client /\ v9' \subseteq Pair!Client /\ v8' \in Nat \ {0}
    BY <1>1, <1>2, <1>6 DEF Pair!TypeOK
  <2>6. v2' \in 0 .. MaxArmings /\ v11' \in [Attempt -> Pair!Television]
    BY <1>1, <1>2 DEF Pair!TypeOK
  <2> QED BY <2>1, <2>2, <2>3, <2>4, <2>5, <2>6, <2>7 DEF Pair!TypeOK
<1>8. Pair!SpentOnce' /\ Pair!OneClientPerArming' /\ Pair!AcceptedIsSaved' /\ Pair!FileIsWhole'
  BY <1>1, <1>2
  DEF Pair!PairingInv, Pair!TypeOK, Pair!SpentOnce, Pair!OneClientPerArming,
      Pair!AcceptedIsSaved, Pair!FileIsWhole
<1>9. Pair!KnownIsSaved' /\ Pair!RevokedStaysRevoked' /\ Pair!IdsAreUnique'
  BY <1>2, <1>6 DEF Pair!PairingInv, Pair!KnownIsSaved, Pair!RevokedStaysRevoked, Pair!IdsAreUnique
<1>10. Pair!PromisesAreKept'
  <2>1. \A id \in Pair!RequestId : Len(v5'[id]) = 0
    BY <1>2
  <2> QED BY <1>2, <1>4, <1>5, <2>1 DEF Pair!PairingInv, Pair!PromisesAreKept
<1>11. Pair!EndsAreTold'
  BY <1>4, <1>5 DEF Pair!EndsAreTold, Pair!NoId
<1> QED BY <1>7, <1>8, <1>9, <1>10, <1>11 DEF Pair!PairingInv

\* A request confirmed or refused: an entry of its own is added to what is
\* recorded of it.
LEMMA RecordedForOne ==
    ASSUME NEW from \in [Pair!RequestId -> Seq(Pair!Outcome)], NEW id \in Pair!RequestId,
           NEW o \in Pair!Outcome
    PROVE  LET to == [from EXCEPT ![id] = Append(@, o)] IN
           /\ to \in [Pair!RequestId -> Seq(Pair!Outcome)]
           /\ \A i \in Pair!RequestId :
                /\ \A k \in 1 .. Len(from[i]) : k \in 1 .. Len(to[i]) /\ to[i][k] = from[i][k]
                /\ \A k \in 1 .. Len(to[i]) : k \in 1 .. Len(from[i]) \/ (i = id /\ to[i][k] = o)
           /\ \E k \in 1 .. Len(to[id]) : to[id][k] = o
<1> DEFINE O == Pair!Outcome
           to == [from EXCEPT ![id] = Append(@, o)]
           s == from[id]
<1>1. o \in O /\ s \in Seq(O) /\ from \in [Pair!RequestId -> Seq(O)]
  BY DEF O
<1>2. to[id] = Append(s, o) /\ \A i \in Pair!RequestId : i # id => to[i] = from[i]
  OBVIOUS
<1> HIDE DEF O, s
<1>3. /\ Len(Append(s, o)) = Len(s) + 1
      /\ Append(s, o) \in Seq(O)
      /\ \A k \in 1 .. Len(s) : Append(s, o)[k] = s[k]
      /\ Append(s, o)[Len(s) + 1] = o
      /\ Len(s) \in Nat
  BY <1>1
<1>4. \A k \in 1 .. Len(s) : k \in 1 .. Len(Append(s, o)) /\ Append(s, o)[k] = s[k]
  BY <1>3
<1>5. \A k \in 1 .. Len(Append(s, o)) : k \in 1 .. Len(s) \/ Append(s, o)[k] = o
  BY <1>3
<1>6. \E k \in 1 .. Len(Append(s, o)) : Append(s, o)[k] = o
  BY <1>3
<1>7. to \in [Pair!RequestId -> Seq(O)]
  BY <1>1, <1>3 DEF s
<1> HIDE DEF to
<1>8. /\ \E k \in 1 .. Len(to[id]) : to[id][k] = o
      /\ \A k \in 1 .. Len(from[id]) : k \in 1 .. Len(to[id]) /\ to[id][k] = from[id][k]
      /\ \A k \in 1 .. Len(to[id]) : k \in 1 .. Len(from[id]) \/ to[id][k] = o
  BY <1>2, <1>4, <1>5, <1>6 DEF s
<1> QED BY <1>2, <1>7, <1>8 DEF to, O

LEMMA ConfirmWrongKeeps ==
    ASSUME Pair!PairingInv, NEW id \in Pair!RequestId, Pair!ConfirmWrong(id)
    PROVE  Pair!PairingInv'
<1> DEFINE o == IF Pair!OutOfTries(v4[id].tries + 1) THEN Pair!Rejected ELSE Pair!Wrong
<1>1. /\ Pair!TypeOK /\ v5 \in [Pair!RequestId -> Seq(Pair!Outcome)]
      /\ v4 \in [DOMAIN v4 -> Pair!Waiting]
      /\ MaxPinTries \in Nat \ {0}
  BY PairingAssumption DEF Pair!PairingInv, Pair!TypeOK, Pair!PairingBounds
<1>2. /\ UNCHANGED <<v1, v2, v3, v6, v7, v8, v9, v10, v11, v12, v13>>
      /\ id \in DOMAIN v4 /\ ~v3
  BY DEF Pair!ConfirmWrong, Pair!Typed, Pair!storeVars
<1>3. v5' = [v5 EXCEPT ![id] = Append(@, o)]
  BY DEF Pair!ConfirmWrong
<1>4. /\ o \in Pair!Outcome /\ o.kind # "accepted"
      /\ Pair!OutOfTries(v4[id].tries + 1) => o.kind \in Pair!Final
  BY DEF Pair!Rejected, Pair!Wrong, Pair!Outcome, Pair!Final
<1> HIDE DEF o
<1>5. /\ v5' \in [Pair!RequestId -> Seq(Pair!Outcome)]
      /\ \A i \in Pair!RequestId :
           /\ \A k \in 1 .. Len(v5[i]) : k \in 1 .. Len(v5'[i]) /\ v5'[i][k] = v5[i][k]
           /\ \A k \in 1 .. Len(v5'[i]) : k \in 1 .. Len(v5[i]) \/ (i = id /\ v5'[i][k] = o)
      /\ \E k \in 1 .. Len(v5'[id]) : v5'[id][k] = o
  BY <1>1, <1>3, <1>4, RecordedForOne
<1>6. /\ DOMAIN v4' \subseteq DOMAIN v4 /\ v4' \in [DOMAIN v4' -> Pair!Waiting]
      /\ \A i \in DOMAIN v4 : i \in DOMAIN v4' \/ (i = id /\ o.kind \in Pair!Final)
  <2>1. CASE Pair!OutOfTries(v4[id].tries + 1)
    <3>1. v4' = [i \in DOMAIN v4 \ {id} |-> v4[i]]
      BY <1>2, <2>1 DEF Pair!ConfirmWrong, Pair!Without, Pair!StillPending
    <3>2. DOMAIN v4' = DOMAIN v4 \ {id} /\ \A i \in DOMAIN v4' : v4'[i] \in Pair!Waiting
      BY <1>1, <3>1
    <3>3. v4' \in [DOMAIN v4' -> Pair!Waiting]
      BY <3>1, <3>2
    <3> QED BY <1>4, <2>1, <3>2, <3>3
  <2>2. CASE ~Pair!OutOfTries(v4[id].tries + 1)
    <3> DEFINE w == [v4[id] EXCEPT !.tries = v4[id].tries + 1]
    <3>1. v4' = [v4 EXCEPT ![id] = w]
      BY <2>2 DEF Pair!ConfirmWrong
    <3>2. v4[id] \in Pair!Waiting
      BY <1>1, <1>2
    <3>3. v4[id].tries + 1 \in 0 .. MaxPinTries - 1
      BY <1>1, <2>2, <3>2 DEF Pair!OutOfTries, Pair!Waiting
    <3>4. w \in Pair!Waiting
      BY <3>2, <3>3 DEF Pair!Waiting
    <3> HIDE DEF w
    <3>5. DOMAIN v4' = DOMAIN v4 /\ \A i \in DOMAIN v4' : v4'[i] \in Pair!Waiting
      BY <1>1, <3>1, <3>4
    <3>6. v4' \in [DOMAIN v4' -> Pair!Waiting]
      BY <1>1, <3>1, <3>4, <3>5, Zenon
    <3> QED BY <3>5, <3>6
  <2> QED BY <2>1, <2>2
<1>7. Pair!TypeOK'
  BY <1>1, <1>2, <1>5, <1>6 DEF Pair!TypeOK
<1>8. /\ Pair!SpentOnce' /\ Pair!FileIsWhole' /\ Pair!OneClientPerArming' /\ Pair!AcceptedIsSaved'
      /\ Pair!KnownIsSaved' /\ Pair!RevokedStaysRevoked' /\ Pair!IdsAreUnique'
  BY <1>2 DEF Pair!PairingInv, Pair!SpentOnce, Pair!FileIsWhole, Pair!OneClientPerArming,
         Pair!AcceptedIsSaved, Pair!KnownIsSaved, Pair!RevokedStaysRevoked, Pair!IdsAreUnique
<1>9. Pair!PromisesAreKept'
  <2>1. Pair!PromisesAreKept /\ v12 \subseteq v12' /\ UNCHANGED v10
    BY <1>2 DEF Pair!PairingInv
  <2>2. \A i \in Pair!RequestId : \A k \in 1 .. Len(v5'[i]) :
           \/ k \in 1 .. Len(v5[i]) /\ v5'[i][k] = v5[i][k]
           \/ v5'[i][k].kind # "accepted"
           \/ v5'[i][k].secret \in v12'
    BY <1>4, <1>5
  <2> QED BY <2>1, <2>2, PromisesStay
<1>10. Pair!EndsAreTold'
  <2>1. Pair!TypeOK /\ Pair!EndsAreTold /\ UNCHANGED v10
    BY <1>1, <1>2 DEF Pair!PairingInv
  <2>2. \A i \in Pair!RequestId : i \in DOMAIN v4 =>
           \/ i \in DOMAIN v4'
           \/ \E k \in 1 .. Len(v5'[i]) : v5'[i][k].kind \in Pair!Final
    BY <1>5, <1>6
  <2>3. \A i \in Pair!RequestId : \A k \in 1 .. Len(v5[i]) :
           k \in 1 .. Len(v5'[i]) /\ v5'[i][k] = v5[i][k]
    BY <1>5
  <2> QED BY <2>1, <2>2, <2>3, EndsStay
<1> QED BY <1>7, <1>8, <1>9, <1>10 DEF Pair!PairingInv

\* The client that a right PIN makes: its secret and its number are nobody's.
LEMMA PairedIsNew ==
    ASSUME Pair!PairingInv, NEW id \in DOMAIN v4, v1 # 0
    PROVE  /\ Pair!Paired(id) \in Pair!Client
           /\ Pair!Paired(id).secret \in Attempt \X {v1} /\ Pair!Paired(id).id = v8
           /\ Pair!Paired(id).secret \notin v12
           /\ v1 \in 1 .. MaxArmings /\ v1 = v2
<1>1. /\ Pair!TypeOK /\ v4 \in [DOMAIN v4 -> Pair!Waiting]
      /\ v1 = v2 /\ v2 \in 0 .. MaxArmings /\ v8 \in Nat
      /\ MaxArmings \in Nat
  BY PairingAssumption DEF Pair!PairingInv, Pair!TypeOK, Pair!PairingBounds
<1>2. v4[id].from \in Attempt
  BY <1>1 DEF Pair!Waiting
<1>3. v1 \in 1 .. MaxArmings
  BY <1>1
<1>4. /\ Pair!Paired(id).id = v8 /\ Pair!Paired(id).secret = <<v4[id].from, v1>>
      /\ Pair!Paired(id) = [id |-> v8, secret |-> <<v4[id].from, v1>>]
  BY DEF Pair!Paired
<1>5. <<v4[id].from, v1>> \in Pair!Secret
  BY <1>2, <1>3 DEF Pair!Secret, Pair!Nonce
<1>6. Pair!Paired(id) \in Pair!Client
  BY <1>1, <1>4, <1>5 DEF Pair!Client
<1>7. <<v4[id].from, v1>> \notin v12
  BY DEF Pair!PairingInv, Pair!SpentOnce
<1> QED BY <1>1, <1>2, <1>3, <1>4, <1>6, <1>7

\* What is recorded when a right PIN ends an arming: the winner's end, and that
\* of everybody else who was waiting.
LEMMA WinnerAndLosers ==
    ASSUME NEW id \in Pair!RequestId, NEW o \in Pair!Outcome,
           v5 \in [Pair!RequestId -> Seq(Pair!Outcome)], ~v3,
           o.kind \in Pair!Final
    PROVE  LET to == [Pair!Losers(id) EXCEPT ![id] = Append(@, o)] IN
           /\ to \in [Pair!RequestId -> Seq(Pair!Outcome)]
           /\ \A i \in Pair!RequestId :
                /\ \A k \in 1 .. Len(v5[i]) : k \in 1 .. Len(to[i]) /\ to[i][k] = v5[i][k]
                /\ \A k \in 1 .. Len(to[i]) :
                     \/ k \in 1 .. Len(v5[i])
                     \/ to[i][k] \in {o, Pair!Rejected}
                /\ i \in DOMAIN v4 => \E k \in 1 .. Len(to[i]) : to[i][k].kind \in Pair!Final
<1> DEFINE mid == Pair!Losers(id)
           to == [mid EXCEPT ![id] = Append(@, o)]
           rest == Pair!Without(id)
<1>1. mid = Pair!RejectedAll(v5, rest)
  BY DEF Pair!Losers
<1>2. DOMAIN rest = DOMAIN v4 \ {id}
  BY DEF Pair!Without, Pair!StillPending
<1> HIDE DEF mid, rest
<1>3. /\ mid \in [Pair!RequestId -> Seq(Pair!Outcome)]
      /\ \A i \in Pair!RequestId :
           /\ \A k \in 1 .. Len(v5[i]) : k \in 1 .. Len(mid[i]) /\ mid[i][k] = v5[i][k]
           /\ \A k \in 1 .. Len(mid[i]) : k \in 1 .. Len(v5[i]) \/ mid[i][k] = Pair!Rejected
           /\ i \in DOMAIN rest => \E k \in 1 .. Len(mid[i]) : mid[i][k] = Pair!Rejected
  <2> DEFINE m == Pair!RejectedAll(v5, rest)
  <2>1. m \in [Pair!RequestId -> Seq(Pair!Outcome)]
    BY RejectedAllAdds
  <2>2. ASSUME NEW i \in Pair!RequestId
        PROVE  /\ \A k \in 1 .. Len(v5[i]) : k \in 1 .. Len(m[i]) /\ m[i][k] = v5[i][k]
               /\ \A k \in 1 .. Len(m[i]) : k \in 1 .. Len(v5[i]) \/ m[i][k] = Pair!Rejected
               /\ i \in DOMAIN rest => \E k \in 1 .. Len(m[i]) : m[i][k] = Pair!Rejected
    BY RejectedAllAdds
  <2> HIDE DEF m
  <2>3. mid = m
    BY <1>1 DEF m
  <2> QED BY <2>1, <2>2, <2>3, Zenon
<1>4. Pair!Rejected.kind \in Pair!Final
  BY DEF Pair!Rejected, Pair!Final
<1>5. /\ to \in [Pair!RequestId -> Seq(Pair!Outcome)]
      /\ \A i \in Pair!RequestId :
           /\ \A k \in 1 .. Len(mid[i]) : k \in 1 .. Len(to[i]) /\ to[i][k] = mid[i][k]
           /\ \A k \in 1 .. Len(to[i]) : k \in 1 .. Len(mid[i]) \/ (i = id /\ to[i][k] = o)
      /\ \E k \in 1 .. Len(to[id]) : to[id][k] = o
  BY <1>3, RecordedForOne, ZenonT(40)
<1> HIDE DEF to
<1>6. ASSUME NEW i \in Pair!RequestId
      PROVE  /\ \A k \in 1 .. Len(v5[i]) : k \in 1 .. Len(to[i]) /\ to[i][k] = v5[i][k]
             /\ \A k \in 1 .. Len(to[i]) :
                  \/ k \in 1 .. Len(v5[i])
                  \/ to[i][k] \in {o, Pair!Rejected}
             /\ i \in DOMAIN v4 => \E k \in 1 .. Len(to[i]) : to[i][k].kind \in Pair!Final
  <2>1. \A k \in 1 .. Len(v5[i]) : k \in 1 .. Len(to[i]) /\ to[i][k] = v5[i][k]
    BY <1>3, <1>5
  <2>2. ASSUME NEW k \in 1 .. Len(to[i]), k \notin 1 .. Len(v5[i])
        PROVE  to[i][k] \in {o, Pair!Rejected}
    <3>1. CASE k \in 1 .. Len(mid[i])
      BY <1>3, <1>5, <2>2, <3>1
    <3>2. CASE k \notin 1 .. Len(mid[i])
      BY <1>5, <2>2, <3>2
    <3> QED BY <3>1, <3>2
  <2>3. ASSUME i \in DOMAIN v4
        PROVE  \E k \in 1 .. Len(to[i]) : to[i][k].kind \in Pair!Final
    <3>1. CASE i = id
      BY <1>5, <3>1
    <3>2. CASE i # id
      <4>1. PICK k \in 1 .. Len(mid[i]) : mid[i][k] = Pair!Rejected
        BY <1>2, <1>3, <2>3, <3>2
      <4>2. k \in 1 .. Len(to[i]) /\ to[i][k] = Pair!Rejected
        BY <1>5, <4>1
      <4> QED BY <1>4, <4>2
    <3> QED BY <3>1, <3>2
  <2> QED BY <2>1, <2>2, <2>3
<1> QED BY <1>5, <1>6 DEF to, mid

LEMMA ConfirmRightKeeps ==
    ASSUME Pair!PairingInv, NEW id \in Pair!RequestId, Pair!ConfirmRight(id)
    PROVE  Pair!PairingInv'
<1> DEFINE c == Pair!Paired(id)
           all == v7 \cup {c}
<1>1. /\ Pair!TypeOK /\ v5 \in [Pair!RequestId -> Seq(Pair!Outcome)]
      /\ v7 \subseteq Pair!Client /\ v9 \subseteq Pair!Client /\ v8 \in Nat \ {0}
      /\ v7 \subseteq v9 /\ v2 \in 0 .. MaxArmings /\ MaxArmings \in Nat
      /\ {d.secret : d \in v9} \subseteq v12 /\ v13 \subseteq v12
  BY PairingAssumption
  DEF Pair!PairingInv, Pair!TypeOK, Pair!PairingBounds, Pair!FileIsWhole, Pair!KnownIsSaved
<1>2. id \in DOMAIN v4 /\ ~v3 /\ v1 # 0
  BY DEF Pair!ConfirmRight, Pair!Typed
<1>3. /\ c \in Pair!Client /\ c.secret \in Attempt \X {v1} /\ c.id = v8
      /\ c.secret \notin v12 /\ v1 \in 1 .. MaxArmings /\ v1 = v2
  BY <1>2, PairedIsNew
<1>4. PICK ok \in BOOLEAN :
         /\ Pair!Save(all, ok)
         /\ v7' = Pair!Listed(all, ok)
         /\ v8' = IF ok THEN v8 + 1 ELSE v8
         /\ v5' = [Pair!Losers(id) EXCEPT ![id] = Append(@, Pair!Announced(id, ok))]
  BY Zenon DEF Pair!ConfirmRight
<1>5. UNCHANGED <<v2, v3, v6, v10, v11, v13>> /\ v1' = 0 /\ v4' = <<>>
  BY DEF Pair!ConfirmRight, Pair!Spent
<1> DEFINE o == Pair!Announced(id, ok)
<1>6. /\ o \in Pair!Outcome /\ o.kind \in Pair!Final
      /\ o.kind = "accepted" => ok /\ o.secret = c.secret
  <2>1. CASE ok
    <3>1. o = Pair!Accepted(c.secret)
      BY <2>1 DEF Pair!Announced
    <3>2. c.secret \in Attempt \X Nat
      BY <1>3
    <3> HIDE DEF c, o
    <3> QED BY <2>1, <3>1, <3>2 DEF Pair!Accepted, Pair!Outcome, Pair!Final
  <2>2. CASE ~ok
    <3>1. o = Pair!Rejected
      BY <2>2 DEF Pair!Announced
    <3> QED BY <3>1 DEF Pair!Rejected, Pair!Outcome, Pair!Final
  <2> QED BY <2>1, <2>2
<1>7. \/ /\ ok /\ v9' = all /\ v7' = all /\ v8' = v8 + 1
         /\ v12' = v12 \cup {d.secret : d \in all}
      \/ ~ok /\ UNCHANGED <<v7, v8, v9, v12>>
  BY <1>4 DEF Pair!Save, Pair!Listed
<1> HIDE DEF o, c
<1>8. \A d \in v7 : d \in v9 /\ d.secret \in v12
  BY <1>1
<1>9. \/ ok /\ v12' = v12 \cup {c.secret}
      \/ ~ok /\ v12' = v12
  BY <1>7, <1>8
<1>10. /\ v5' \in [Pair!RequestId -> Seq(Pair!Outcome)]
       /\ \A i \in Pair!RequestId :
            /\ \A k \in 1 .. Len(v5[i]) : k \in 1 .. Len(v5'[i]) /\ v5'[i][k] = v5[i][k]
            /\ \A k \in 1 .. Len(v5'[i]) :
                 \/ k \in 1 .. Len(v5[i])
                 \/ v5'[i][k] \in {o, Pair!Rejected}
            /\ i \in DOMAIN v4 => \E k \in 1 .. Len(v5'[i]) : v5'[i][k].kind \in Pair!Final
  BY <1>1, <1>2, <1>4, <1>6, WinnerAndLosers DEF o
<1>11. Pair!TypeOK'
  <2>1. v1' \in {0, v2'} /\ v2' \in 0 .. MaxArmings /\ v8' \in Nat \ {0}
    BY <1>1, <1>5, <1>7
  <2>2. v7' \subseteq Pair!Client /\ v9' \subseteq Pair!Client
    BY <1>1, <1>3, <1>7
  <2>3. DOMAIN v4' \subseteq 0 .. v6' - 1 /\ v4' \in [DOMAIN v4' -> Pair!Waiting]
    BY <1>5, NobodyWaits, Zenon
  <2> QED BY <1>1, <1>5, <1>10, <2>1, <2>2, <2>3 DEF Pair!TypeOK
<1>12. Pair!SpentOnce'
  <2>1. v12 \subseteq Attempt \X ((1 .. v2) \ {v1})
    BY DEF Pair!PairingInv, Pair!SpentOnce
  <2>2. (1 .. v2) \ {v1} \subseteq (1 .. v2) \ {0} /\ v1 \in (1 .. v2) \ {0}
    BY <1>1, <1>3
  <2> QED BY <1>3, <1>5, <1>9, <2>1, <2>2 DEF Pair!SpentOnce
<1>13. Pair!OneClientPerArming'
  <2>1. \A s \in v12 : s[2] # v1
    BY DEF Pair!PairingInv, Pair!SpentOnce
  <2>2. c.secret[2] = v1
    BY <1>3
  <2> QED BY <1>9, <2>1, <2>2 DEF Pair!PairingInv, Pair!OneClientPerArming
<1>14. Pair!FileIsWhole' /\ Pair!RevokedStaysRevoked' /\ Pair!KnownIsSaved'
  BY <1>1, <1>3, <1>5, <1>7, <1>8, <1>9
  DEF Pair!PairingInv, Pair!FileIsWhole, Pair!RevokedStaysRevoked, Pair!KnownIsSaved
<1>15. Pair!AcceptedIsSaved'
  BY <1>5, <1>9 DEF Pair!PairingInv, Pair!AcceptedIsSaved
<1>16. Pair!IdsAreUnique'
  <2>1. /\ \A d, e \in v7 \cup v9 : d.id = e.id => d = e
        /\ \A d \in v7 \cup v9 : d.id < v8 /\ d.id \in Nat
    BY <1>1 DEF Pair!PairingInv, Pair!IdsAreUnique, Pair!Client
  <2> QED BY <1>1, <1>3, <1>7, <2>1 DEF Pair!IdsAreUnique
<1>17. Pair!PromisesAreKept'
  <2>1. Pair!PromisesAreKept /\ v12 \subseteq v12' /\ UNCHANGED v10
    BY <1>5, <1>9 DEF Pair!PairingInv
  <2>2. Pair!Rejected.kind # "accepted"
    BY DEF Pair!Rejected
  <2>3. o.kind # "accepted" \/ o.secret \in v12'
    BY <1>6, <1>9
  <2>4. \A i \in Pair!RequestId : \A k \in 1 .. Len(v5'[i]) :
           \/ k \in 1 .. Len(v5[i]) /\ v5'[i][k] = v5[i][k]
           \/ v5'[i][k].kind # "accepted"
           \/ v5'[i][k].secret \in v12'
    BY <1>10, <2>2, <2>3
  <2> QED BY <2>1, <2>4, PromisesStay
<1>18. Pair!EndsAreTold'
  <2>1. Pair!TypeOK /\ Pair!EndsAreTold /\ UNCHANGED v10
    BY <1>1, <1>5 DEF Pair!PairingInv
  <2>2. \A i \in Pair!RequestId : i \in DOMAIN v4 =>
           \/ i \in DOMAIN v4'
           \/ \E k \in 1 .. Len(v5'[i]) : v5'[i][k].kind \in Pair!Final
    BY <1>10
  <2>3. \A i \in Pair!RequestId : \A k \in 1 .. Len(v5[i]) :
           k \in 1 .. Len(v5'[i]) /\ v5'[i][k] = v5[i][k]
    BY <1>10
  <2> QED BY <2>1, <2>2, <2>3, EndsStay
<1> QED BY <1>11, <1>12, <1>13, <1>14, <1>15, <1>16, <1>17, <1>18 DEF Pair!PairingInv

LEMMA RevokeKeeps ==
    ASSUME Pair!PairingInv, NEW c \in v7, Pair!Revoke(c) PROVE Pair!PairingInv'
<1> DEFINE left == v7 \ {c}
<1>1. /\ Pair!TypeOK /\ v7 \subseteq Pair!Client /\ v9 \subseteq Pair!Client
      /\ v7 \subseteq v9 /\ v13 \subseteq v12
      /\ \A d \in v9 : d.secret \in v12
      /\ \A d, e \in v9 : d.secret = e.secret => d = e
      /\ \A d \in v9 : d.secret \notin v13
  BY DEF Pair!PairingInv, Pair!TypeOK, Pair!FileIsWhole, Pair!KnownIsSaved,
         Pair!RevokedStaysRevoked
<1>2. PICK ok \in BOOLEAN :
         Pair!Save(left, ok) /\ v13' = IF ok THEN v13 \cup {c.secret} ELSE v13
  BY DEF Pair!Revoke, Pair!Written
<1>3. UNCHANGED <<v1, v2, v3, v4, v5, v6, v8, v10, v11>> /\ v7' = left
  BY DEF Pair!Revoke, Pair!serverVars
<1>4. \/ v9' = left /\ v12' = v12 \cup {d.secret : d \in left} /\ v13' = v13 \cup {c.secret}
      \/ v9' = v9 /\ v12' = v12 /\ v13' = v13
  BY <1>2 DEF Pair!Save
<1>5. v12' = v12
  BY <1>1, <1>4
<1>6. /\ v7' = left /\ v9' \in {left, v9} /\ v9' \subseteq v9
      /\ v13' \subseteq v12 /\ \A d \in v9' : d.secret \notin v13'
      /\ left \subseteq v9'
  BY <1>1, <1>3, <1>4
<1>7. Pair!TypeOK'
  <2>1. v7' \subseteq Pair!Client /\ v9' \subseteq Pair!Client
    BY <1>1, <1>6
  <2> QED BY <1>1, <1>3, <2>1 DEF Pair!TypeOK
<1>8. Pair!SpentOnce' /\ Pair!OneClientPerArming' /\ Pair!AcceptedIsSaved' /\ Pair!PromisesAreKept'
  BY <1>3, <1>5
  DEF Pair!PairingInv, Pair!SpentOnce, Pair!OneClientPerArming, Pair!AcceptedIsSaved,
      Pair!PromisesAreKept
<1>9. Pair!FileIsWhole' /\ Pair!KnownIsSaved' /\ Pair!RevokedStaysRevoked'
  BY <1>1, <1>5, <1>6 DEF Pair!FileIsWhole, Pair!KnownIsSaved, Pair!RevokedStaysRevoked
<1>10. Pair!IdsAreUnique'
  BY <1>3, <1>6 DEF Pair!PairingInv, Pair!IdsAreUnique
<1>11. Pair!EndsAreTold'
  BY <1>3 DEF Pair!PairingInv, Pair!EndsAreTold, Pair!Final, Pair!NoId
<1> QED BY <1>7, <1>8, <1>9, <1>10, <1>11 DEF Pair!PairingInv

LEMMA PairingStarts == ASSUME Pair!Init PROVE Pair!PairingInv
<1>1. /\ v1 = 0 /\ v2 = 0 /\ v3 = FALSE /\ v4 = <<>> /\ v6 = 0
      /\ v5 = [id \in Pair!RequestId |-> <<>>]
      /\ v7 = {} /\ v8 = 1 /\ v9 = {}
      /\ v10 = [a \in Attempt |-> Pair!Fresh] /\ v11 = [a \in Attempt |-> Pair!NotAsking]
      /\ v12 = {} /\ v13 = {}
  BY DEF Pair!Init
<1>2. MaxRequests \in Nat /\ MaxArmings \in Nat
  BY PairingAssumption DEF Pair!PairingBounds
<1>3. Pair!TypeOK
  <2>1. Pair!NoId \in 0 .. MaxRequests
    BY <1>2 DEF Pair!NoId
  <2>2. <<>> \in Seq(Pair!Message) /\ <<>> \in Seq(Pair!Outcome)
    OBVIOUS
  <2>3. 0 \in 0 .. 2 /\ 0 \in Nat
    OBVIOUS
  <2>4. Pair!Fresh \in Pair!Unkeyed
    BY <2>1, <2>2, <2>3 DEF Pair!Fresh, Pair!Unkeyed
  <2>5. Pair!NotAsking \in Pair!Television
    BY <2>1, <2>3 DEF Pair!NotAsking, Pair!Television
  <2>6. v10 \in [Attempt -> Pair!Unkeyed] /\ v11 \in [Attempt -> Pair!Television]
    BY <1>1, <2>4, <2>5
  <2>7. v5 \in [Pair!RequestId -> Seq(Pair!Outcome)]
    BY <1>1, <2>2
  <2>8. DOMAIN v4 \subseteq 0 .. v6 - 1 /\ v4 \in [DOMAIN v4 -> Pair!Waiting]
    BY <1>1, NobodyWaits, Zenon
  <2>9. v1 \in {0, v2} /\ v2 \in 0 .. MaxArmings /\ v3 \in BOOLEAN /\ v6 \in 0 .. MaxRequests
    <3>1. v1 = 0 /\ v2 = 0 /\ v3 = FALSE /\ v6 = 0
      BY <1>1
    <3>2. 0 \in 0 .. MaxRequests /\ 0 \in 0 .. MaxArmings
      BY <1>2
    <3> QED BY <3>1, <3>2, Zenon
  <2>10. v7 \subseteq Pair!Client /\ v9 \subseteq Pair!Client /\ v8 \in Nat \ {0}
    BY <1>1
  <2> QED BY <2>6, <2>7, <2>8, <2>9, <2>10 DEF Pair!TypeOK
<1>4. /\ Pair!SpentOnce /\ Pair!FileIsWhole /\ Pair!OneClientPerArming
      /\ Pair!KnownIsSaved /\ Pair!RevokedStaysRevoked /\ Pair!IdsAreUnique
  BY <1>1 DEF Pair!SpentOnce, Pair!FileIsWhole, Pair!OneClientPerArming, Pair!KnownIsSaved,
              Pair!RevokedStaysRevoked, Pair!IdsAreUnique
<1>5. Pair!AcceptedIsSaved
  BY <1>1 DEF Pair!AcceptedIsSaved, Pair!NotAsking
<1>6. Pair!PromisesAreKept
  <2>1. \A id \in Pair!RequestId : Len(v5[id]) = 0
    BY <1>1
  <2>2. \A a \in Attempt : Len(v10[a].out) = 0
    BY <1>1, Zenon DEF Pair!Fresh
  <2> QED BY <2>1, <2>2 DEF Pair!PromisesAreKept
<1>7. Pair!EndsAreTold
  BY <1>1 DEF Pair!EndsAreTold, Pair!Fresh
<1> QED BY <1>3, <1>4, <1>5, <1>6, <1>7 DEF Pair!PairingInv

\* Every step of pairing preserves its invariant.
LEMMA PairingStep == ASSUME Pair!PairingInv, Pair!Next PROVE Pair!PairingInv'
<1>1. CASE Pair!Arm \/ Pair!Disarm \/ Pair!Expire \/ Pair!ListPending \/ Pair!Drain \/ Pair!Crash
  BY <1>1, ArmKeeps, DisarmKeeps, ExpireKeeps, ListPendingKeeps, DrainKeeps, CrashKeeps
<1>2. ASSUME NEW a \in Attempt,
             \/ Pair!HearRequest(a) \/ Pair!HearConfirm(a) \/ Pair!HearUnarmed(a)
             \/ Pair!Forget(a) \/ Pair!Ask(a) \/ Pair!Deliver(a) \/ Pair!GiveUp(a)
      PROVE  Pair!PairingInv'
  BY <1>2, HearRequestKeeps, HearConfirmKeeps, HearUnarmedKeeps, ForgetKeeps, AskKeeps,
     DeliverKeeps, GiveUpKeeps
<1>3. CASE \E id \in Pair!RequestId : Pair!ConfirmWrong(id) \/ Pair!ConfirmRight(id)
  BY <1>3, ConfirmWrongKeeps, ConfirmRightKeeps
<1>4. CASE \E c \in v7 : Pair!Revoke(c)
  BY <1>4, RevokeKeeps
<1> QED BY <1>1, <1>2, <1>3, <1>4 DEF Pair!Next

-----------------------------------------------------------------------------
(* The launcher's grid.  v5 tv, v6 cache: what is stored is verified, and  *)
(* nothing else puts a file there.                                         *)

LEMMA GridStep == ASSUME Grid!CacheIsTrue, Grid!Next PROVE Grid!CacheIsTrue'
<1>1. CASE UNCHANGED v6
  BY <1>1 DEF Grid!CacheIsTrue, Grid!Whole
<1>2. CASE Grid!Store
  BY <1>2, Zenon DEF Grid!Store, Grid!CacheIsTrue, Grid!Verified, Grid!NamedBy, Grid!Whole
<1>3. CASE Grid!Finish
  BY <1>3 DEF Grid!Finish, Grid!CacheIsTrue, Grid!Whole
<1> QED
  BY <1>1, <1>2, <1>3, Zenon
     DEF Grid!Next, Grid!ChangeArt, Grid!DeleteApp, Grid!ReadApps, Grid!ReadArt, Grid!SendList,
      Grid!SendArt, Grid!Fetch, Grid!Receive, Grid!TimeOut, Grid!NextApp, Grid!Killed

LEMMA GridStarts == ASSUME Grid!Init PROVE Grid!CacheIsTrue
<1>1. DOMAIN v6 = {}
  BY NobodyWaits DEF Grid!Init
<1> QED BY <1>1 DEF Grid!CacheIsTrue

-----------------------------------------------------------------------------
(* The web API.  v1 config, v2 configFile, v3 auth, v4 calls, v5 running,  *)
(* v6 listed, v7 hello, v8 session, v9 since.                              *)

\* A token minted makes no configuration invalid, and touches nothing else.
LEMMA MintingKeeps ==
    ASSUME NEW c, DOMAIN c = {"web", "stream", "input", "apps", "next"},
           DOMAIN c.web = {"lan", "port", "token"}, Api!IsValid(c)
    PROVE  LET d == Api!WithToken(c) IN
           /\ DOMAIN d = {"web", "stream", "input", "apps", "next"}
           /\ DOMAIN d.web = {"lan", "port", "token"} /\ Api!IsValid(d)
<1> DEFINE w == [c.web EXCEPT !.token = "minted"]
           d == [c EXCEPT !.web = w]
<1>1. CASE c.web.token = ""
  <2>1. Api!WithToken(c) = d
    BY <1>1, Zenon DEF Api!WithToken
  <2>2. DOMAIN w = {"lan", "port", "token"} /\ w.token = "minted"
        /\ w.lan = c.web.lan /\ w.port = c.web.port
    OBVIOUS
  <2> HIDE DEF w
  <2>3. /\ DOMAIN d = DOMAIN c /\ d.web = w /\ d.stream = c.stream /\ d.apps = c.apps
        /\ d.next = c.next
    OBVIOUS
  <2> HIDE DEF d
  <2>4. Api!IsValid(d)
    BY <2>2, <2>3, Zenon DEF Api!IsValid
  <2> QED BY <2>1, <2>2, <2>3, <2>4
<1>2. CASE c.web.token # ""
  BY <1>2, Zenon DEF Api!WithToken
<1> QED BY <1>1, <1>2, Zenon

LEMMA FirstRunIsValid ==
    /\ DOMAIN Api!FirstRun = {"web", "stream", "input", "apps", "next"}
    /\ DOMAIN Api!FirstRun.web = {"lan", "port", "token"} /\ Api!IsValid(Api!FirstRun)
<1> DEFINE d == Api!Default
<1>1. /\ DOMAIN d = {"web", "stream", "input", "apps", "next"}
      /\ d.web = Api!DefaultWeb /\ d.stream = Api!DefaultStream
      /\ DOMAIN d.apps = {}
  BY DEF Api!Default
<1> HIDE DEF d
<1>2. /\ DOMAIN Api!DefaultWeb = {"lan", "port", "token"} /\ ~Api!DefaultWeb.lan
      /\ Api!DefaultWeb.port # Api!DefaultStream.port
  BY DEF Api!DefaultWeb, Api!DefaultStream
<1>3. DOMAIN d.web = {"lan", "port", "token"} /\ Api!IsValid(d)
  BY <1>1, <1>2, Zenon DEF Api!IsValid
<1> QED BY <1>1, <1>3, MintingKeeps DEF Api!FirstRun, d

\* What a save does for a request that is being answered: the configuration in
\* force stays valid, stays the one in the file, and is one that a hello under
\* way may read.
LEMMA SaveKeeps ==
    ASSUME Api!WebInv, NEW w \in Server, NEW candidate, Api!Save(w, candidate),
           DOMAIN candidate = {"web", "stream", "input", "apps", "next"},
           DOMAIN candidate.web = {"lan", "port", "token"},
           v3' = Api!AuthOf(v1'.web)
    PROVE  Api!WebInv'
<1>1. PICK written \in IF Api!IsValid(candidate) THEN BOOLEAN ELSE {FALSE} :
        /\ v2' = IF written THEN candidate ELSE v2
        /\ v1' = IF written THEN candidate ELSE v1
        /\ v4' = [v4 EXCEPT ![w] = Api!Idle]
  BY Zenon DEF Api!Save, Api!InForce, Api!Answered
<1>2. /\ v9' = IF v7 = Api!NoHello THEN {} ELSE v9 \cup {v1'}
      /\ UNCHANGED <<v5, v6, v7, v8>>
  BY DEF Api!Save
<1>3. /\ v1' = v2' /\ Api!IsValid(v1')
      /\ DOMAIN v1' = {"web", "stream", "input", "apps", "next"}
      /\ DOMAIN v1'.web = {"lan", "port", "token"}
  BY <1>1, Zenon DEF Api!WebInv, Api!ActsOnWhatIsSaved, Api!ConfigIsWhole
<1>4. Api!ActsOnWhatIsSaved'
  BY <1>2, <1>3 DEF Api!WebInv, Api!ActsOnWhatIsSaved
<1>5. Api!HelloIsOfItsTime'
  BY <1>2, <1>3 DEF Api!WebInv, Api!HelloIsOfItsTime
<1>6. Api!LaunchesAreValid'
  BY <1>1 DEF Api!WebInv, Api!LaunchesAreValid, Api!Idle, Api!None
<1> QED BY <1>3, <1>4, <1>5, <1>6 DEF Api!WebInv, Api!ConfigIsWhole

\* What is not touched stays as it was; what is running and what is looked up
\* is a valid entry.
LEMMA HostedKeeps ==
    ASSUME Api!WebInv, UNCHANGED <<v1, v2, v3, v7, v8, v9>>,
           Api!LaunchesAreValid',
           v5' # Api!NoApp => Api!EntryIsValid(v5'.entry)
    PROVE  Api!WebInv'
<1>1. Api!ActsOnWhatIsSaved'
  BY DEF Api!WebInv, Api!ActsOnWhatIsSaved
<1>2. Api!HelloIsOfItsTime' /\ Api!ConfigIsWhole'
  BY DEF Api!WebInv, Api!HelloIsOfItsTime, Api!ConfigIsWhole
<1> QED BY <1>1, <1>2 DEF Api!WebInv

LEMMA RequestKeeps ==
    ASSUME Api!WebInv, NEW w \in Server,
           \/ Api!AnswerOnly(w) \/ Api!HostLaunch(w) \/ Api!Terminate(w) \/ Api!Disconnect(w)
           \/ \E header \in Tokens : Api!Authorize(w, header)
           \/ \E id \in 0 .. WebCreates - 1 : Api!LookUp(w, id)
    PROVE  Api!WebInv'
<1>1. /\ Api!LaunchesAreValid /\ DOMAIN v4 = Server
      /\ v5 # Api!NoApp => Api!EntryIsValid(v5.entry)
      /\ Api!IsValid(v1)
  BY DEF Api!WebInv, Api!ActsOnWhatIsSaved, Api!LaunchesAreValid
<1>2. CASE Api!AnswerOnly(w) \/ Api!Terminate(w) \/ Api!Disconnect(w)
  <2>1. /\ UNCHANGED <<v1, v2, v3, v7, v8, v9>> /\ v4' = [v4 EXCEPT ![w] = Api!Idle]
        /\ v5' \in {v5, Api!NoApp}
    BY <1>2 DEF Api!AnswerOnly, Api!Terminate, Api!Disconnect, Api!Answered
  <2>2. Api!LaunchesAreValid'
    BY <1>1, <2>1 DEF Api!LaunchesAreValid, Api!Idle, Api!None
  <2> QED BY <1>1, <2>1, <2>2, HostedKeeps
<1>3. CASE \E header \in Tokens : Api!Authorize(w, header)
  <2>1. UNCHANGED <<v1, v2, v3, v5, v7, v8, v9>> /\ v4' = [v4 EXCEPT ![w] = Api!Admitted]
    BY <1>3 DEF Api!Authorize
  <2>2. Api!LaunchesAreValid'
    BY <1>1, <2>1 DEF Api!LaunchesAreValid, Api!Admitted
  <2> QED BY <1>1, <2>1, <2>2, HostedKeeps
<1>4. CASE \E id \in 0 .. WebCreates - 1 : Api!LookUp(w, id)
  <2>1. PICK id \in 0 .. WebCreates - 1 : Api!LookUp(w, id)
    BY <1>4
  <2> DEFINE call == [op |-> "launch", id |-> id, entry |-> v1.apps[id]]
  <2>2. /\ UNCHANGED <<v1, v2, v3, v5, v7, v8, v9>> /\ id \in DOMAIN v1.apps
        /\ v4' = [v4 EXCEPT ![w] = call]
    BY <2>1 DEF Api!LookUp
  <2>3. call.op = "launch" /\ Api!EntryIsValid(call.entry)
    BY <1>1, <2>2, Zenon DEF Api!IsValid
  <2> HIDE DEF call
  <2>4. Api!LaunchesAreValid'
    BY <1>1, <2>2, <2>3 DEF Api!LaunchesAreValid
  <2> QED BY <1>1, <2>2, <2>4, HostedKeeps
<1>5. CASE Api!HostLaunch(w)
  <2> DEFINE app == v4[w]
             hosted == [id |-> app.id, entry |-> app.entry,
                        tracking |-> Api!TrackingOf(app.entry)]
  <2>1. /\ UNCHANGED <<v1, v2, v3, v7, v8, v9>> /\ v4' = [v4 EXCEPT ![w] = Api!Idle]
        /\ v5' \in {v5, hosted}
        /\ v4[w].op = "launch"
    BY <1>5 DEF Api!HostLaunch, Api!Answered
  <2>2. Api!LaunchesAreValid'
    BY <1>1, <2>1 DEF Api!LaunchesAreValid, Api!Idle, Api!None
  <2>3. Api!EntryIsValid(hosted.entry)
    BY <1>1, <2>1 DEF Api!LaunchesAreValid
  <2> HIDE DEF hosted
  <2> QED BY <1>1, <2>1, <2>2, <2>3, HostedKeeps
<1> QED BY <1>2, <1>3, <1>4, <1>5

LEMMA SavingRequestKeeps ==
    ASSUME Api!WebInv, NEW w \in Server,
           \/ \E body \in Settings : Api!UpdateSettings(w, body)
           \/ \E entry \in Entries : Api!CreateApp(w, entry)
           \/ \E id \in 0 .. WebCreates - 1 :
                Api!DeleteApp(w, id) \/ \E entry \in Entries : Api!UpdateApp(w, id, entry)
    PROVE  Api!WebInv'
<1>1. /\ DOMAIN v1 = {"web", "stream", "input", "apps", "next"}
      /\ DOMAIN v1.web = {"lan", "port", "token"} /\ v3 = Api!AuthOf(v1.web)
  BY DEF Api!WebInv, Api!ConfigIsWhole, Api!ActsOnWhatIsSaved
\* Of the apps alone, so that the token is the one it was.
<1>2. ASSUME NEW apps, NEW next, Api!Save(w, [v1 EXCEPT !.next = next, !.apps = apps]),
             UNCHANGED v3
      PROVE  Api!WebInv'
  <2> DEFINE c == [v1 EXCEPT !.next = next, !.apps = apps]
  <2>1. DOMAIN c = DOMAIN v1 /\ c.web = v1.web
    BY <1>1
  <2> HIDE DEF c
  <2>2. v1' \in {c, v1}
    BY <1>2 DEF Api!Save, Api!InForce, c
  <2>3. v3' = Api!AuthOf(v1'.web)
    BY <1>1, <1>2, <2>1, <2>2
  <2> QED BY <1>1, <1>2, <2>1, <2>3, SaveKeeps, Zenon DEF c
<1>3. CASE \E body \in Settings : Api!UpdateSettings(w, body)
  <2>1. PICK body \in Settings : Api!UpdateSettings(w, body)
    BY <1>3
  <2> DEFINE c == [v1 EXCEPT !.web = body.web, !.stream = body.stream, !.input = body.input]
  <2>2. DOMAIN c = DOMAIN v1 /\ c.web = body.web
    BY <1>1
  <2>3. DOMAIN body.web = {"lan", "port", "token"}
    BY WebAssumption DEF Api!WebBounds
  <2>4. Api!Save(w, c) /\ v3' = Api!AuthOf(v1'.web)
    BY <2>1, Zenon DEF Api!UpdateSettings
  <2> HIDE DEF c
  <2> QED BY <1>1, <2>2, <2>3, <2>4, SaveKeeps
<1>4. CASE \E entry \in Entries : Api!CreateApp(w, entry)
  <2>1. PICK entry \in Entries : Api!CreateApp(w, entry)
    BY <1>4
  <2> DEFINE apps == [id \in DOMAIN v1.apps \cup {v1.next} |->
                        IF id = v1.next THEN entry ELSE v1.apps[id]]
  <2>2. Api!Save(w, [v1 EXCEPT !.next = v1.next + 1, !.apps = apps]) /\ UNCHANGED v3
    BY <2>1, Zenon DEF Api!CreateApp
  <2> HIDE DEF apps
  <2> QED BY <1>2, <2>2, Zenon
<1>5. ASSUME NEW apps, Api!Save(w, [v1 EXCEPT !.apps = apps]), UNCHANGED v3
      PROVE  Api!WebInv'
  <2>1. [v1 EXCEPT !.apps = apps] = [v1 EXCEPT !.next = v1.next, !.apps = apps]
    BY <1>1, Zenon
  <2> QED BY <1>2, <1>5, <2>1, Zenon
<1>6. CASE \E id \in 0 .. WebCreates - 1 : Api!DeleteApp(w, id)
  <2>1. PICK id \in 0 .. WebCreates - 1 : Api!DeleteApp(w, id)
    BY <1>6
  <2> DEFINE apps == [i \in DOMAIN v1.apps \ {id} |-> v1.apps[i]]
  <2>2. Api!Save(w, [v1 EXCEPT !.apps = apps]) /\ UNCHANGED v3
    BY <2>1 DEF Api!DeleteApp
  <2> HIDE DEF apps
  <2> QED BY <1>5, <2>2
<1>7. CASE \E id \in 0 .. WebCreates - 1 : \E entry \in Entries : Api!UpdateApp(w, id, entry)
  <2>1. PICK id \in 0 .. WebCreates - 1, entry \in Entries : Api!UpdateApp(w, id, entry)
    BY <1>7
  <2> DEFINE apps == [v1.apps EXCEPT ![id] = entry]
  <2>2. Api!Save(w, [v1 EXCEPT !.apps = apps]) /\ UNCHANGED v3
    BY <2>1 DEF Api!UpdateApp
  <2> HIDE DEF apps
  <2> QED BY <1>5, <2>2
<1> QED BY <1>3, <1>4, <1>6, <1>7

LEMMA HelloKeeps ==
    ASSUME Api!WebInv,
           Api!Exits \/ Api!AskHost \/ Api!ReadEffective \/ Api!ReadInput \/ Api!SessionStart
    PROVE  Api!WebInv'
<1> USE DEF Api!WebInv
<1>1. CASE Api!Exits
  BY <1>1, HostedKeeps DEF Api!Exits, Api!LaunchesAreValid
<1>2. CASE Api!AskHost
  <2>1. /\ UNCHANGED <<v1, v2, v3, v4, v5, v8>> /\ v9' = {v1}
        /\ v7'.at = "effective"
    BY <1>2 DEF Api!AskHost
  <2> QED
    BY <2>1 DEF Api!ActsOnWhatIsSaved, Api!HelloIsOfItsTime, Api!LaunchesAreValid,
                Api!ConfigIsWhole
<1>3. CASE Api!ReadEffective
  <2>1. /\ UNCHANGED <<v1, v2, v3, v4, v5, v8, v9>> /\ v7 # Api!NoHello
        /\ v7'.at = "input" /\ v7'.stream = Api!Effective(v1, v7'.app)
    BY <1>3 DEF Api!ReadEffective, Api!NoHello, Api!None
  <2> QED
    BY <2>1 DEF Api!ActsOnWhatIsSaved, Api!HelloIsOfItsTime, Api!LaunchesAreValid,
                Api!ConfigIsWhole
<1>4. CASE Api!ReadInput
  <2>1. /\ UNCHANGED <<v1, v2, v3, v4, v5, v8, v9>> /\ v7 # Api!NoHello /\ v7.at = "input"
        /\ v7'.at = "configure" /\ v7'.stream = v7.stream /\ v7'.app = v7.app
        /\ v7'.input = v1.input
    BY <1>4 DEF Api!ReadInput, Api!NoHello, Api!None
  <2> QED
    BY <2>1 DEF Api!ActsOnWhatIsSaved, Api!HelloIsOfItsTime, Api!LaunchesAreValid,
                Api!ConfigIsWhole
<1>5. CASE Api!SessionStart
  <2>1. /\ UNCHANGED <<v1, v2, v3, v4, v5>> /\ v7 # Api!NoHello /\ v7.at = "configure"
        /\ v7' = Api!NoHello
        /\ v8'.stream = v7.stream /\ v8'.input = v7.input /\ v8'.app = v7.app
        /\ v8'.injector = v1.input.sensitivity /\ v8'.of = v9
    BY <1>5 DEF Api!SessionStart, Api!NoHello, Api!None
  <2>2. /\ v1 \in v9 /\ \A c \in v9 : Api!IsValid(c)
        /\ \E c \in v9 : v7.stream = Api!Effective(c, v7.app)
        /\ \E c \in v9 : v7.input = c.input
    BY <2>1 DEF Api!HelloIsOfItsTime
  <2>3. Api!ActsOnWhatIsSaved'
    BY <2>1, <2>2 DEF Api!ActsOnWhatIsSaved
  <2> QED
    BY <2>1, <2>3 DEF Api!HelloIsOfItsTime, Api!LaunchesAreValid, Api!ConfigIsWhole
<1> QED BY <1>1, <1>2, <1>3, <1>4, <1>5

LEMMA RestartKeeps == ASSUME Api!WebInv, NEW w \in Server, Api!Restart(w) PROVE Api!WebInv'
<1>1. /\ v1' = Api!WithToken(v2) /\ v2' = Api!WithToken(v2) /\ v3' = Api!AuthOf(v1'.web)
      /\ v4' = [v \in Server |-> Api!Idle] /\ v5' = Api!NoApp
      /\ v7' = Api!NoHello /\ v8' = Api!NoSession
  BY DEF Api!Restart
<1>2. /\ DOMAIN v2 = {"web", "stream", "input", "apps", "next"}
      /\ DOMAIN v2.web = {"lan", "port", "token"} /\ Api!IsValid(v2)
  BY DEF Api!WebInv, Api!ActsOnWhatIsSaved, Api!ConfigIsWhole
<1>3. /\ DOMAIN v1' = {"web", "stream", "input", "apps", "next"}
      /\ DOMAIN v1'.web = {"lan", "port", "token"} /\ Api!IsValid(v1')
  BY <1>1, <1>2, MintingKeeps
<1> QED
  BY <1>1, <1>3
  DEF Api!WebInv, Api!ActsOnWhatIsSaved, Api!HelloIsOfItsTime, Api!LaunchesAreValid,
      Api!ConfigIsWhole, Api!Idle, Api!None

LEMMA WebStarts == ASSUME Api!Init PROVE Api!WebInv
<1>1. /\ v1 = Api!FirstRun /\ v2 = Api!FirstRun /\ v3 = Api!AuthOf(Api!FirstRun.web)
      /\ v4 = [v \in Server |-> Api!Idle] /\ v5 = Api!NoApp
      /\ v7 = Api!NoHello /\ v8 = Api!NoSession
  BY DEF Api!Init
<1> QED
  BY <1>1, FirstRunIsValid
  DEF Api!WebInv, Api!ActsOnWhatIsSaved, Api!HelloIsOfItsTime, Api!LaunchesAreValid,
      Api!ConfigIsWhole, Api!Idle, Api!None

LEMMA WebStep == ASSUME Api!WebInv, Api!Next PROVE Api!WebInv'
<1>1. CASE Api!Exits \/ Api!AskHost \/ Api!ReadEffective \/ Api!ReadInput \/ Api!SessionStart
  BY <1>1, HelloKeeps
<1>2. ASSUME NEW w \in Server,
             \/ Api!AnswerOnly(w) \/ Api!HostLaunch(w) \/ Api!Terminate(w) \/ Api!Disconnect(w)
             \/ \E header \in Tokens : Api!Authorize(w, header)
             \/ \E id \in 0 .. WebCreates - 1 : Api!LookUp(w, id)
      PROVE  Api!WebInv'
  BY <1>2, RequestKeeps
<1>3. ASSUME NEW w \in Server,
             \/ \E body \in Settings : Api!UpdateSettings(w, body)
             \/ \E entry \in Entries : Api!CreateApp(w, entry)
             \/ \E id \in 0 .. WebCreates - 1 :
                  Api!DeleteApp(w, id) \/ \E entry \in Entries : Api!UpdateApp(w, id, entry)
      PROVE  Api!WebInv'
  BY <1>3, SavingRequestKeeps
<1>4. CASE \E w \in Server : Api!Restart(w)
  BY <1>4, RestartKeeps
<1> QED BY <1>1, <1>2, <1>3, <1>4 DEF Api!Next

-----------------------------------------------------------------------------
(* The catalogue.  v1 config, v2 configFile, v3 art, v4 artFiles, v5 calls,*)
(* v6 creates.                                                             *)

LEMMA IndexIs ==
    ASSUME NEW f
    PROVE  f \in Cat!Index <=> DOMAIN f \subseteq Cat!AppId /\ f \in [DOMAIN f -> Cat!App]
<1>1. ASSUME f \in Cat!Index
      PROVE  DOMAIN f \subseteq Cat!AppId /\ f \in [DOMAIN f -> Cat!App]
  <2>1. PICK ids \in SUBSET Cat!AppId : f \in [ids -> Cat!App]
    BY <1>1 DEF Cat!Index
  <2> QED BY <2>1
<1>2. ASSUME DOMAIN f \subseteq Cat!AppId, f \in [DOMAIN f -> Cat!App]
      PROVE  f \in Cat!Index
  <2>1. DOMAIN f \in SUBSET Cat!AppId
    BY <1>2
  <2>2. [DOMAIN f -> Cat!App] \in {[ids -> Cat!App] : ids \in SUBSET Cat!AppId}
    BY <2>1
  <2> QED BY <1>2, <2>2 DEF Cat!Index
<1> QED BY <1>1, <1>2

\* An entry added, an entry taken, and those that are left of some.
LEMMA IndexWith ==
    ASSUME NEW f \in Cat!Index, NEW id \in Cat!AppId, NEW app \in Cat!App,
           NEW g, g = Cat!With(f, id, app)
    PROVE  /\ g \in Cat!Index /\ DOMAIN g = DOMAIN f \cup {id} /\ g[id] = app
           /\ \A i \in DOMAIN f : i # id => g[i] = f[i]
<1>1. DOMAIN f \subseteq Cat!AppId /\ \A i \in DOMAIN f : f[i] \in Cat!App
  BY IndexIs
<1>2. g = [i \in DOMAIN f \cup {id} |-> IF i = id THEN app ELSE f[i]]
  BY DEF Cat!With
<1>3. DOMAIN g = DOMAIN f \cup {id} /\ g \in [DOMAIN g -> Cat!App]
  BY <1>1, <1>2
<1>4. g \in Cat!Index
  BY <1>1, <1>3, IndexIs
<1> QED BY <1>2, <1>3, <1>4

LEMMA IndexLess ==
    ASSUME NEW f \in Cat!Index, NEW id
    PROVE  LET g == Cat!Less(f, id) IN
           /\ g \in Cat!Index /\ DOMAIN g = DOMAIN f \ {id}
           /\ \A i \in DOMAIN g : g[i] = f[i]
<1> DEFINE g == Cat!Less(f, id)
<1>1. DOMAIN f \subseteq Cat!AppId /\ \A i \in DOMAIN f : f[i] \in Cat!App
  BY IndexIs
<1>2. g = [i \in DOMAIN f \ {id} |-> f[i]]
  BY DEF Cat!Less
<1> HIDE DEF g
<1>3. DOMAIN g = DOMAIN f \ {id} /\ g \in [DOMAIN g -> Cat!App]
  BY <1>1, <1>2
<1>4. g \in Cat!Index
  BY <1>1, <1>3, IndexIs
<1> QED BY <1>2, <1>3, <1>4 DEF g

LEMMA IndexOfSome ==
    ASSUME NEW f \in Cat!Index, NEW S
    PROVE  LET g == Cat!Restrict(f, DOMAIN f \cap S) IN
           /\ g \in Cat!Index /\ DOMAIN g \subseteq DOMAIN f
           /\ \A i \in DOMAIN g : g[i] = f[i]
<1> DEFINE g == Cat!Restrict(f, DOMAIN f \cap S)
<1>1. DOMAIN f \subseteq Cat!AppId /\ \A i \in DOMAIN f : f[i] \in Cat!App
  BY IndexIs
<1>2. g = [i \in DOMAIN f \cap S |-> f[i]]
  BY DEF Cat!Restrict
<1> HIDE DEF g
<1>3. DOMAIN g = DOMAIN f \cap S /\ g \in [DOMAIN g -> Cat!App]
  BY <1>1, <1>2
<1>4. g \in Cat!Index
  BY <1>1, <1>3, IndexIs
<1> QED BY <1>2, <1>3, <1>4 DEF g

\* The invariant as facts about each variable.
LEMMA CatalogueFacts ==
    ASSUME Cat!CatalogueInv
    PROVE  /\ v1 \in Cat!Listing /\ v2 = v1 /\ v1.apps \in Cat!Index /\ v1.next \in Nat
           /\ DOMAIN v1.apps \subseteq 0 .. v1.next - 1
           /\ v3 \in Cat!Index /\ DOMAIN v3 \subseteq 0 .. v1.next - 1
           /\ v4 \in Cat!Index /\ DOMAIN v4 \subseteq 0 .. v1.next - 1
           /\ \A id \in DOMAIN v1.apps \cap DOMAIN v3 : v3[id] = v1.apps[id]
           /\ \A id \in DOMAIN v1.apps \cap DOMAIN v4 : v4[id] = v1.apps[id]
           /\ v5 \in [Worker -> Cat!Request]
           /\ \A w \in Worker : Cat!Uploads(w) => v5[w].id \in 0 .. v1.next - 1
           /\ v6 \in 0 .. MaxCreates /\ MaxCreates \in Nat /\ v1.next <= v6
<1> USE DEF Cat!CatalogueInv
<1>1. v1 \in Cat!Listing /\ v2 = v1 /\ v1.apps \in Cat!Index /\ v1.next \in 0 .. MaxCreates
  BY DEF Cat!TypeOK, Cat!ConfigIsSaved, Cat!Listing
<1>2. MaxCreates \in Nat
  BY CatalogueAssumption DEF Cat!CatalogueBounds
<1>3. /\ DOMAIN v1.apps \subseteq 0 .. v1.next - 1
      /\ DOMAIN v3 \subseteq 0 .. v1.next - 1 /\ DOMAIN v4 \subseteq 0 .. v1.next - 1
      /\ \A w \in Worker : Cat!Uploads(w) => v5[w].id \in 0 .. v1.next - 1
      /\ v1.next <= v6
  BY DEF Cat!IdsAreSpent
<1> QED BY <1>1, <1>2, <1>3 DEF Cat!TypeOK, Cat!ArtIsOfItsApp

\* The invariant after a step that gives out no id: what is left of the
\* catalogue, of the art and of the uploads is of those that were there.
LEMMA FewerKeep ==
    ASSUME Cat!CatalogueInv,
           v1' \in Cat!Listing, v2' = v1', v1'.next = v1.next, UNCHANGED v6,
           DOMAIN v1'.apps \subseteq DOMAIN v1.apps,
           \A id \in DOMAIN v1'.apps : v1'.apps[id] = v1.apps[id],
           v3' \in Cat!Index, DOMAIN v3' \subseteq 0 .. v1.next - 1,
           v4' \in Cat!Index, DOMAIN v4' \subseteq 0 .. v1.next - 1,
           \A id \in DOMAIN v1'.apps \cap DOMAIN v3' : v3'[id] = v1.apps[id],
           \A id \in DOMAIN v1'.apps \cap DOMAIN v4' : v4'[id] = v1.apps[id],
           v5' \in [Worker -> Cat!Request],
           \A w \in Worker : v5'[w].op \in {"write", "index"} =>
               /\ v5'[w].id \in 0 .. v1.next - 1 /\ v5'[w].for \in Cat!App
               /\ v5'[w].id \in DOMAIN v1.apps => v5'[w].for = v1.apps[v5'[w].id]
    PROVE  Cat!CatalogueInv'
<1>1. v6 \in 0 .. MaxCreates /\ v1.next <= v6 /\ DOMAIN v1.apps \subseteq 0 .. v1.next - 1
  BY CatalogueFacts
<1>2. Cat!TypeOK' /\ Cat!ConfigIsSaved'
  BY <1>1 DEF Cat!TypeOK, Cat!ConfigIsSaved
<1>3. Cat!ArtIsOfItsApp'
  BY DEF Cat!ArtIsOfItsApp
<1>4. Cat!IdsAreSpent' /\ Cat!UploadsAreOfTheirApp'
  BY <1>1 DEF Cat!IdsAreSpent, Cat!UploadsAreOfTheirApp, Cat!Uploads
<1> QED BY <1>2, <1>3, <1>4 DEF Cat!CatalogueInv

\* What a write of the configuration leaves: the candidate, or what was there.
LEMMA CommitLeaves ==
    ASSUME NEW candidate, NEW ok \in BOOLEAN, Cat!Commit(candidate, ok), v2 = v1
    PROVE  v2' = v1' /\ v1' = IF ok THEN candidate ELSE v1
BY DEF Cat!Commit

LEMMA CreateKeeps ==
    ASSUME Cat!CatalogueInv, NEW w \in Worker, Cat!CreateApp(w) PROVE Cat!CatalogueInv'
<1> DEFINE apps == Cat!With(v1.apps, v1.next, v6 + 1)
           c == [apps |-> apps, next |-> v1.next + 1]
<1>1. PICK ok \in BOOLEAN : Cat!Commit(c, ok)
  BY DEF Cat!CreateApp, Cat!Added, Cat!AllocatedId
<1>2. UNCHANGED <<v3, v4, v5>> /\ v6 < MaxCreates /\ v6' = v6 + 1
  BY DEF Cat!CreateApp
<1>3. /\ v1.next \in Nat /\ v1.next <= v6 /\ v6 \in Nat /\ MaxCreates \in Nat
      /\ v1.apps \in Cat!Index /\ v2 = v1 /\ v1 \in Cat!Listing
  BY CatalogueFacts
<1>4. v1.next \in Cat!AppId /\ v6 + 1 \in Cat!App
  BY <1>2, <1>3 DEF Cat!AppId, Cat!App
<1>5. /\ apps \in Cat!Index /\ DOMAIN apps = DOMAIN v1.apps \cup {v1.next}
      /\ \A i \in DOMAIN v1.apps : i # v1.next => apps[i] = v1.apps[i]
  <2> DEFINE f == v1.apps
             id == v1.next
             app == v6 + 1
  <2>1. f \in Cat!Index /\ id \in Cat!AppId /\ app \in Cat!App /\ apps = Cat!With(f, id, app)
    BY <1>3, <1>4
  <2> HIDE DEF apps, f, id, app
  <2>2. /\ apps \in Cat!Index /\ DOMAIN apps = DOMAIN f \cup {id}
        /\ \A i \in DOMAIN f : i # id => apps[i] = f[i]
    BY <2>1, IndexWith
  <2> QED BY <2>2 DEF f, id
<1> HIDE DEF apps
<1>6. c \in Cat!Listing /\ c.apps = apps /\ c.next = v1.next + 1
  <2>1. v1.next + 1 \in 0 .. MaxCreates
    BY <1>2, <1>3
  <2> QED BY <1>5, <2>1 DEF Cat!Listing
<1> HIDE DEF c
<1>7. v2' = v1' /\ v1' \in {c, v1}
  BY <1>1, <1>3, CommitLeaves
<1>8. /\ v1.next <= v1'.next /\ v1'.next \in Nat /\ v1'.next <= v6 + 1
      /\ DOMAIN v1.apps \subseteq 0 .. v1.next - 1
      /\ DOMAIN v1'.apps \subseteq 0 .. v1'.next - 1
      /\ \A id \in DOMAIN v1'.apps \cap 0 .. v1.next - 1 :
           id \in DOMAIN v1.apps /\ v1'.apps[id] = v1.apps[id]
  <2>1. DOMAIN v1.apps \subseteq 0 .. v1.next - 1
    BY CatalogueFacts
  <2> QED BY <1>3, <1>5, <1>6, <1>7, <2>1
<1>9. /\ DOMAIN v3 \subseteq 0 .. v1.next - 1 /\ DOMAIN v4 \subseteq 0 .. v1.next - 1
      /\ \A id \in DOMAIN v1.apps \cap DOMAIN v3 : v3[id] = v1.apps[id]
      /\ \A id \in DOMAIN v1.apps \cap DOMAIN v4 : v4[id] = v1.apps[id]
      /\ \A x \in Worker : Cat!Uploads(x) => v5[x].id \in 0 .. v1.next - 1
  BY CatalogueFacts
<1>10. 0 .. v1.next - 1 \subseteq 0 .. v1'.next - 1
  BY <1>3, <1>8
<1>11. Cat!TypeOK' /\ Cat!ConfigIsSaved'
  <2>1. v1' \in Cat!Listing /\ v2' \in Cat!Listing
    BY <1>3, <1>6, <1>7
  <2>2. v6' \in 0 .. MaxCreates
    BY <1>2, <1>3
  <2> QED BY <1>2, <1>7, <2>1, <2>2 DEF Cat!CatalogueInv, Cat!TypeOK, Cat!ConfigIsSaved
<1>12. Cat!ArtIsOfItsApp'
  <2>1. \A id \in DOMAIN v1'.apps \cap DOMAIN v3 : v3[id] = v1'.apps[id]
    BY <1>8, <1>9
  <2>2. \A id \in DOMAIN v1'.apps \cap DOMAIN v4 : v4[id] = v1'.apps[id]
    BY <1>8, <1>9
  <2> QED BY <1>2, <1>7, <2>1, <2>2 DEF Cat!ArtIsOfItsApp
<1>13. Cat!IdsAreSpent'
  <2>1. \A x \in Worker : Cat!Uploads(x)' => v5'[x].id \in 0 .. v1'.next - 1
    BY <1>2, <1>9, <1>10 DEF Cat!Uploads
  <2> QED BY <1>2, <1>3, <1>8, <1>9, <1>10, <2>1 DEF Cat!IdsAreSpent
<1>14. Cat!UploadsAreOfTheirApp'
  BY <1>2, <1>8, <1>9 DEF Cat!CatalogueInv, Cat!UploadsAreOfTheirApp, Cat!Uploads
<1> QED BY <1>11, <1>12, <1>13, <1>14 DEF Cat!CatalogueInv

LEMMA CatalogueDeleteKeeps ==
    ASSUME Cat!CatalogueInv, NEW w \in Worker, NEW id \in Cat!AppId, Cat!DeleteApp(w, id)
    PROVE  Cat!CatalogueInv'
<1> DEFINE apps == Cat!Less(v1.apps, id)
           c == [v1 EXCEPT !.apps = apps]
           call == Cat!Call("unindex", id, 0)
<1>1. PICK ok \in BOOLEAN :
        Cat!Commit(c, ok) /\ v5' = IF ok THEN [v5 EXCEPT ![w] = call] ELSE v5
  BY DEF Cat!DeleteApp
<1>2. UNCHANGED <<v3, v4, v6>>
  BY DEF Cat!DeleteApp
<1>3. /\ v1 \in Cat!Listing /\ v2 = v1 /\ v1.apps \in Cat!Index
      /\ v5 \in [Worker -> Cat!Request]
  BY CatalogueFacts
<1>4. /\ apps \in Cat!Index /\ DOMAIN apps = DOMAIN v1.apps \ {id}
      /\ \A i \in DOMAIN apps : apps[i] = v1.apps[i]
  BY <1>3, IndexLess, Zenon
<1> HIDE DEF apps
<1>5. c \in Cat!Listing /\ c.apps = apps /\ c.next = v1.next
  BY <1>3, <1>4 DEF Cat!Listing
<1>6. call \in Cat!Request /\ call.op = "unindex"
  BY DEF Cat!Call, Cat!Request, Cat!AppId
<1> HIDE DEF c, call
<1>7. v2' = v1' /\ v1' \in {c, v1}
  BY <1>1, <1>3, CommitLeaves
<1>8. /\ v5' \in [Worker -> Cat!Request]
      /\ \A x \in Worker : v5'[x].op \in {"write", "index"} => v5'[x] = v5[x]
  BY <1>1, <1>3, <1>6
<1>9. /\ v1' \in Cat!Listing /\ v1'.next = v1.next
      /\ DOMAIN v1'.apps \subseteq DOMAIN v1.apps
      /\ \A i \in DOMAIN v1'.apps : v1'.apps[i] = v1.apps[i]
  BY <1>3, <1>4, <1>5, <1>7
<1>10. /\ v3' \in Cat!Index /\ DOMAIN v3' \subseteq 0 .. v1.next - 1
       /\ v4' \in Cat!Index /\ DOMAIN v4' \subseteq 0 .. v1.next - 1
       /\ \A i \in DOMAIN v1'.apps \cap DOMAIN v3' : v3'[i] = v1.apps[i]
       /\ \A i \in DOMAIN v1'.apps \cap DOMAIN v4' : v4'[i] = v1.apps[i]
  BY <1>2, <1>9, CatalogueFacts
<1>11. \A x \in Worker : v5'[x].op \in {"write", "index"} =>
         /\ v5'[x].id \in 0 .. v1.next - 1 /\ v5'[x].for \in Cat!App
         /\ v5'[x].id \in DOMAIN v1.apps => v5'[x].for = v1.apps[v5'[x].id]
  BY <1>8, CatalogueFacts DEF Cat!CatalogueInv, Cat!UploadsAreOfTheirApp, Cat!Uploads
<1> QED BY <1>2, <1>7, <1>8, <1>9, <1>10, <1>11, FewerKeep

\* A step that leaves the catalogue alone.
LEMMA ArtKeeps ==
    ASSUME Cat!CatalogueInv, UNCHANGED <<v1, v2, v6>>,
           NEW w \in Worker, NEW call \in Cat!Request, v5' = [v5 EXCEPT ![w] = call],
           call.op \in {"write", "index"} =>
               /\ call.id \in 0 .. v1.next - 1 /\ call.for \in Cat!App
               /\ call.id \in DOMAIN v1.apps => call.for = v1.apps[call.id],
           v3' \in Cat!Index, DOMAIN v3' \subseteq 0 .. v1.next - 1,
           v4' \in Cat!Index, DOMAIN v4' \subseteq 0 .. v1.next - 1,
           \A id \in DOMAIN v1.apps \cap DOMAIN v3' : v3'[id] = v1.apps[id],
           \A id \in DOMAIN v1.apps \cap DOMAIN v4' : v4'[id] = v1.apps[id]
    PROVE  Cat!CatalogueInv'
<1>1. v1 \in Cat!Listing /\ v2 = v1 /\ v5 \in [Worker -> Cat!Request]
  BY CatalogueFacts
<1>2. v5' \in [Worker -> Cat!Request]
  BY <1>1
<1>3. \A x \in Worker : v5'[x] = IF x = w THEN call ELSE v5[x]
  BY <1>1
<1>4. \A x \in Worker : v5'[x].op \in {"write", "index"} =>
        /\ v5'[x].id \in 0 .. v1.next - 1 /\ v5'[x].for \in Cat!App
        /\ v5'[x].id \in DOMAIN v1.apps => v5'[x].for = v1.apps[v5'[x].id]
  BY <1>3, CatalogueFacts DEF Cat!CatalogueInv, Cat!UploadsAreOfTheirApp, Cat!Uploads
<1>5. v1' = v1 /\ v2' = v1'
  BY <1>1
<1> QED BY <1>1, <1>2, <1>4, <1>5, FewerKeep

LEMMA UploadKeeps ==
    ASSUME Cat!CatalogueInv, NEW w \in Worker,
           \/ Cat!WriteArt(w) \/ Cat!IndexArt(w)
           \/ \E id \in Cat!AppId : Cat!PutArt(w, id)
    PROVE  Cat!CatalogueInv'
<1> DEFINE id == v5[w].id
           app == v5[w].for
<1>1. /\ v1 \in Cat!Listing /\ v1.apps \in Cat!Index
      /\ v1.next \in Nat /\ v6 \in 0 .. MaxCreates /\ v1.next <= v6 /\ MaxCreates \in Nat
      /\ DOMAIN v1.apps \subseteq 0 .. v1.next - 1
      /\ v3 \in Cat!Index /\ DOMAIN v3 \subseteq 0 .. v1.next - 1
      /\ v4 \in Cat!Index /\ DOMAIN v4 \subseteq 0 .. v1.next - 1
      /\ \A i \in DOMAIN v1.apps \cap DOMAIN v3 : v3[i] = v1.apps[i]
      /\ \A i \in DOMAIN v1.apps \cap DOMAIN v4 : v4[i] = v1.apps[i]
      /\ v5[w] \in Cat!Request
      /\ v5[w].op \in {"write", "index"} => id \in 0 .. v1.next - 1
  BY CatalogueFacts DEF Cat!Uploads
<1>2. v5[w].op \in {"write", "index"} =>
        app \in Cat!App /\ (id \in DOMAIN v1.apps => app = v1.apps[id])
  BY DEF Cat!CatalogueInv, Cat!UploadsAreOfTheirApp, Cat!Uploads
<1>3. Cat!Idle \in Cat!Request /\ Cat!Idle.op = "idle"
  BY DEF Cat!Idle, Cat!Request
<1>4. 0 .. v1.next - 1 \subseteq Cat!AppId
  BY <1>1 DEF Cat!AppId
\* What becomes of the art when the upload's image is put to its id.
<1>5. ASSUME NEW f \in Cat!Index, NEW g, g = Cat!With(f, id, app),
             DOMAIN f \subseteq 0 .. v1.next - 1,
             \A i \in DOMAIN v1.apps \cap DOMAIN f : f[i] = v1.apps[i],
             v5[w].op \in {"write", "index"}, app \in Cat!App
      PROVE  /\ g \in Cat!Index /\ DOMAIN g \subseteq 0 .. v1.next - 1
             /\ \A i \in DOMAIN v1.apps \cap DOMAIN g : g[i] = v1.apps[i]
  <2>1. /\ g \in Cat!Index /\ DOMAIN g = DOMAIN f \cup {id} /\ g[id] = app
        /\ \A i \in DOMAIN f : i # id => g[i] = f[i]
    <3>1. id \in Cat!AppId
      BY <1>1, <1>4, <1>5
    <3> HIDE DEF id, app
    <3> QED BY <1>5, <3>1, IndexWith
  <2> QED BY <1>1, <1>2, <1>5, <2>1
<1>6. CASE Cat!WriteArt(w)
  <2> DEFINE next == [v5[w] EXCEPT !.op = "index"]
  <2>1. /\ UNCHANGED <<v1, v2, v3, v6>> /\ v5[w].op = "write"
        /\ \/ v4' = Cat!With(v4, id, app) /\ v5' = [v5 EXCEPT ![w] = next]
           \/ v4' = v4 /\ v5' = [v5 EXCEPT ![w] = Cat!Idle]
    BY <1>6, Zenon DEF Cat!WriteArt
  <2>2. next \in Cat!Request /\ next.id = id /\ next.for = app /\ next.op = "index"
    BY <1>1, Zenon DEF Cat!Request
  <2> HIDE DEF next
  <2>3. CASE v4' = Cat!With(v4, id, app) /\ v5' = [v5 EXCEPT ![w] = next]
    <3>1. /\ v4' \in Cat!Index /\ DOMAIN v4' \subseteq 0 .. v1.next - 1
          /\ \A i \in DOMAIN v1.apps \cap DOMAIN v4' : v4'[i] = v1.apps[i]
      <4>1. app \in Cat!App
        BY <1>2, <2>1
      <4> QED BY <1>1, <1>5, <2>1, <2>3, <4>1
    <3>2. /\ next.id \in 0 .. v1.next - 1 /\ next.for \in Cat!App
          /\ next.id \in DOMAIN v1.apps => next.for = v1.apps[next.id]
      BY <1>1, <1>2, <2>1, <2>2
    <3> QED BY <1>1, <2>1, <2>2, <2>3, <3>1, <3>2, ArtKeeps, Zenon
  <2>4. CASE v4' = v4 /\ v5' = [v5 EXCEPT ![w] = Cat!Idle]
    BY <1>1, <1>3, <2>1, <2>4, ArtKeeps, Zenon
  <2> QED BY <2>1, <2>3, <2>4
<1>7. CASE Cat!IndexArt(w)
  <2>1. /\ UNCHANGED <<v1, v2, v4, v6>> /\ v5[w].op = "index"
        /\ v3' = Cat!With(v3, id, app) /\ v5' = [v5 EXCEPT ![w] = Cat!Idle]
    BY <1>7 DEF Cat!IndexArt
  <2>2. /\ v3' \in Cat!Index /\ DOMAIN v3' \subseteq 0 .. v1.next - 1
        /\ \A i \in DOMAIN v1.apps \cap DOMAIN v3' : v3'[i] = v1.apps[i]
    <3>1. app \in Cat!App
      BY <1>2, <2>1
    <3> QED BY <1>1, <1>5, <2>1, <3>1
  <2> QED BY <1>1, <1>3, <2>1, <2>2, ArtKeeps, Zenon
<1>8. CASE \E i \in Cat!AppId : Cat!PutArt(w, i)
  <2>1. PICK i \in Cat!AppId : Cat!PutArt(w, i)
    BY <1>8
  <2> DEFINE call == Cat!Call("write", i, v1.apps[i])
  <2>2. /\ UNCHANGED <<v1, v2, v3, v4, v6>> /\ i \in DOMAIN v1.apps
        /\ v5' = [v5 EXCEPT ![w] = call]
    BY <2>1 DEF Cat!PutArt
  <2>3. v1.apps[i] \in Cat!App /\ i \in Nat
    BY <1>1, <2>2, IndexIs DEF Cat!AppId
  <2>4. call \in Cat!Request /\ call.id = i /\ call.for = v1.apps[i]
    BY <2>3 DEF Cat!Call, Cat!Request, Cat!App
  <2> HIDE DEF call
  <2> QED BY <1>1, <2>2, <2>3, <2>4, ArtKeeps, Zenon
<1> QED BY <1>6, <1>7, <1>8

LEMMA UnlinkKeeps ==
    ASSUME Cat!CatalogueInv, NEW w \in Worker,
           \/ Cat!Unindex(w) \/ Cat!Unlink(w)
           \/ \E id \in Cat!AppId : Cat!DeleteArt(w, id)
    PROVE  Cat!CatalogueInv'
<1>1. /\ v3 \in Cat!Index /\ DOMAIN v3 \subseteq 0 .. v1.next - 1
      /\ v4 \in Cat!Index /\ DOMAIN v4 \subseteq 0 .. v1.next - 1
      /\ \A i \in DOMAIN v1.apps \cap DOMAIN v3 : v3[i] = v1.apps[i]
      /\ \A i \in DOMAIN v1.apps \cap DOMAIN v4 : v4[i] = v1.apps[i]
      /\ v5[w] \in Cat!Request
  BY CatalogueFacts
<1>2. Cat!Idle \in Cat!Request /\ Cat!Idle.op = "idle"
  BY DEF Cat!Idle, Cat!Request
<1>3. ASSUME NEW f \in Cat!Index, NEW g, NEW id, g = Cat!Less(f, id),
             DOMAIN f \subseteq 0 .. v1.next - 1,
             \A i \in DOMAIN v1.apps \cap DOMAIN f : f[i] = v1.apps[i]
      PROVE  /\ g \in Cat!Index /\ DOMAIN g \subseteq 0 .. v1.next - 1
             /\ \A i \in DOMAIN v1.apps \cap DOMAIN g : g[i] = v1.apps[i]
  <2>1. /\ g \in Cat!Index /\ DOMAIN g = DOMAIN f \ {id}
        /\ \A i \in DOMAIN g : g[i] = f[i]
    BY <1>3, IndexLess, Zenon
  <2> QED BY <1>3, <2>1
<1>4. CASE Cat!Unindex(w)
  <2> DEFINE call == [v5[w] EXCEPT !.op = "unlink app"]
  <2>1. /\ UNCHANGED <<v1, v2, v4, v6>> /\ v3' = Cat!Less(v3, v5[w].id)
        /\ v5' = [v5 EXCEPT ![w] = call]
    BY <1>4, Zenon DEF Cat!Unindex
  <2>2. call \in Cat!Request /\ call.op = "unlink app"
    BY <1>1, Zenon DEF Cat!Request
  <2> HIDE DEF call
  <2>3. /\ v3' \in Cat!Index /\ DOMAIN v3' \subseteq 0 .. v1.next - 1
        /\ \A i \in DOMAIN v1.apps \cap DOMAIN v3' : v3'[i] = v1.apps[i]
    BY <1>1, <1>3, <2>1
  <2> QED BY <1>1, <2>1, <2>2, <2>3, ArtKeeps, Zenon
<1>5. CASE Cat!Unlink(w)
  <2>1. /\ UNCHANGED <<v1, v2, v3, v6>> /\ v5' = [v5 EXCEPT ![w] = Cat!Idle]
        /\ v4' \in {v4, Cat!Less(v4, v5[w].id)}
    BY <1>5, Zenon DEF Cat!Unlink
  <2>2. /\ v4' \in Cat!Index /\ DOMAIN v4' \subseteq 0 .. v1.next - 1
        /\ \A i \in DOMAIN v1.apps \cap DOMAIN v4' : v4'[i] = v1.apps[i]
    BY <1>1, <1>3, <2>1
  <2> QED BY <1>1, <1>2, <2>1, <2>2, ArtKeeps, Zenon
<1>6. CASE \E id \in Cat!AppId : Cat!DeleteArt(w, id)
  <2>1. PICK id \in Cat!AppId : Cat!DeleteArt(w, id)
    BY <1>6
  <2> DEFINE call == Cat!Call("unlink", id, 0)
  <2>2. /\ UNCHANGED <<v1, v2, v4, v6>> /\ v3' = Cat!Less(v3, id)
        /\ v5' = [v5 EXCEPT ![w] = call]
    BY <2>1 DEF Cat!DeleteArt
  <2>3. call \in Cat!Request /\ call.op = "unlink"
    BY DEF Cat!Call, Cat!Request, Cat!AppId
  <2> HIDE DEF call
  <2>4. /\ v3' \in Cat!Index /\ DOMAIN v3' \subseteq 0 .. v1.next - 1
        /\ \A i \in DOMAIN v1.apps \cap DOMAIN v3' : v3'[i] = v1.apps[i]
    BY <1>1, <1>3, <2>2
  <2> QED BY <1>1, <2>2, <2>3, <2>4, ArtKeeps, Zenon
<1> QED BY <1>4, <1>5, <1>6

LEMMA ReloadKeeps == ASSUME Cat!CatalogueInv, Cat!Restart PROVE Cat!CatalogueInv'
<1>1. /\ v1' = v2 /\ v2' = v2 /\ v3' = Cat!Loaded /\ v4' = v4 /\ v6' = v6
      /\ v5' = [w \in Worker |-> Cat!Idle]
  BY DEF Cat!Restart
<1>2. /\ v1 \in Cat!Listing /\ v2 = v1
      /\ v4 \in Cat!Index /\ DOMAIN v4 \subseteq 0 .. v1.next - 1
      /\ \A i \in DOMAIN v1.apps \cap DOMAIN v4 : v4[i] = v1.apps[i]
  BY CatalogueFacts
<1>3. Cat!Idle \in Cat!Request /\ Cat!Idle.op = "idle"
  BY DEF Cat!Idle, Cat!Request
<1>4. /\ v3' \in Cat!Index /\ DOMAIN v3' \subseteq DOMAIN v4
      /\ \A i \in DOMAIN v3' : v3'[i] = v4[i]
  BY <1>1, <1>2, IndexOfSome, ZenonT(40) DEF Cat!Loaded
<1>5. /\ v5' \in [Worker -> Cat!Request]
      /\ \A w \in Worker : v5'[w].op \notin {"write", "index"}
  BY <1>1, <1>3
<1>6. v1' = v1 /\ v2' = v1'
  BY <1>1, <1>2
<1> QED BY <1>1, <1>2, <1>4, <1>5, <1>6, FewerKeep

LEMMA CatalogueStarts == ASSUME Cat!Init PROVE Cat!CatalogueInv
<1>1. /\ v1 = Cat!Empty /\ v2 = Cat!Empty /\ v3 = <<>> /\ v4 = <<>> /\ v6 = 0
      /\ v5 = [w \in Worker |-> Cat!Idle]
  BY DEF Cat!Init
<1>2. MaxCreates \in Nat
  BY CatalogueAssumption DEF Cat!CatalogueBounds
<1>3. <<>> \in Cat!Index /\ DOMAIN <<>> = {}
  BY NobodyWaits, IndexIs, Zenon
<1>4. Cat!Empty \in Cat!Listing /\ Cat!Empty.next = 0 /\ Cat!Empty.apps = <<>>
  BY <1>2, <1>3 DEF Cat!Empty, Cat!Listing
<1>5. Cat!Idle \in Cat!Request /\ Cat!Idle.op = "idle"
  BY DEF Cat!Idle, Cat!Request
<1>6. v5 \in [Worker -> Cat!Request] /\ \A w \in Worker : ~Cat!Uploads(w)
  BY <1>1, <1>5 DEF Cat!Uploads
<1>7. Cat!TypeOK /\ Cat!ConfigIsSaved
  BY <1>1, <1>2, <1>3, <1>4, <1>6 DEF Cat!TypeOK, Cat!ConfigIsSaved
<1>8. Cat!ArtIsOfItsApp /\ Cat!UploadsAreOfTheirApp
  BY <1>1, <1>3, <1>6 DEF Cat!ArtIsOfItsApp, Cat!UploadsAreOfTheirApp
<1>9. Cat!IdsAreSpent
  BY <1>1, <1>3, <1>4, <1>6 DEF Cat!IdsAreSpent
<1> QED BY <1>7, <1>8, <1>9 DEF Cat!CatalogueInv

LEMMA CatalogueStep == ASSUME Cat!CatalogueInv, Cat!Next PROVE Cat!CatalogueInv'
<1>1. CASE Cat!Restart
  BY <1>1, ReloadKeeps
<1>2. ASSUME NEW w \in Worker, Cat!CreateApp(w) PROVE Cat!CatalogueInv'
  BY <1>2, CreateKeeps
<1>3. ASSUME NEW w \in Worker,
             \/ Cat!WriteArt(w) \/ Cat!IndexArt(w)
             \/ \E id \in Cat!AppId : Cat!PutArt(w, id)
      PROVE  Cat!CatalogueInv'
  BY <1>3, UploadKeeps
<1>4. ASSUME NEW w \in Worker,
             \/ Cat!Unindex(w) \/ Cat!Unlink(w)
             \/ \E id \in Cat!AppId : Cat!DeleteArt(w, id)
      PROVE  Cat!CatalogueInv'
  BY <1>4, UnlinkKeeps
<1>5. ASSUME NEW w \in Worker, NEW id \in Cat!AppId, Cat!DeleteApp(w, id)
      PROVE  Cat!CatalogueInv'
  BY <1>5, CatalogueDeleteKeeps
<1> QED BY <1>1, <1>2, <1>3, <1>4, <1>5 DEF Cat!Next

-----------------------------------------------------------------------------
(* The application host.  v1 running, v2 lock, v3 caller, v4 world,        *)
(* v5 launches, v6 applied, v7 failures, v8 restarts.                      *)

LEMMA HostFacts ==
    ASSUME Host!HostInv
    PROVE  /\ v5 \in Nat /\ v4 \in Seq(Host!Process) /\ Len(v4) = v5
           /\ v6 \in Seq(Host!Command) /\ v7 \in Nat /\ v8 \in Nat
           /\ v3 \in [Worker -> HostApp \cup {Host!NoApp}]
           /\ Prep \in [HostApp -> Nat] /\ Host!NoApp \notin HostApp
           /\ v2.doing = "prep" => v1 = Host!Nothing /\ v2 \in Host!PrepHeld
           /\ v2.doing = "undo" => v1 = Host!Nothing /\ v2 \in Host!UndoHeld
           /\ v1 # Host!Nothing => v2 = Host!Free /\ v1 \in Host!Tracked
           /\ v2 = Host!Free => v2.doing = "nothing"
           /\ v2.doing = "nothing" => v2 = Host!Free
<1>1. Host!LockOK /\ Host!TypeOK
  BY DEF Host!HostInv
<1>2. Host!Free.doing = "nothing"
  BY DEF Host!Free
<1>3. /\ v2 \in Host!PrepHeld => v2.doing = "prep"
      /\ v2 \in Host!UndoHeld => v2.doing = "undo"
  BY DEF Host!PrepHeld, Host!UndoHeld
<1>4. /\ v2 = Host!Free \/ v1 = Host!Nothing
      /\ v2 = Host!Free \/ v2 \in Host!PrepHeld \/ v2 \in Host!UndoHeld
      /\ v1 = Host!Nothing \/ v1 \in Host!Tracked
  BY <1>1 DEF Host!LockOK
<1>5. /\ v2.doing = "prep" => v1 = Host!Nothing /\ v2 \in Host!PrepHeld
      /\ v2.doing = "undo" => v1 = Host!Nothing /\ v2 \in Host!UndoHeld
      /\ v1 # Host!Nothing => v2 = Host!Free /\ v1 \in Host!Tracked
      /\ v2 = Host!Free => v2.doing = "nothing"
      /\ v2.doing = "nothing" => v2 = Host!Free
  BY <1>2, <1>3, <1>4
<1>6. Prep \in [HostApp -> Nat] /\ Host!NoApp \notin HostApp
  BY HostAssumption DEF Host!HostBounds
<1> QED BY <1>1, <1>5, <1>6 DEF Host!TypeOK

\* The owner of what is in effect, and how many commands that is.
LEMMA OwnerIs ==
    /\ v1 # Host!Nothing => Host!Owner = v1.launch /\ Host!HowMany = Prep[v1.app]
    /\ v1 = Host!Nothing /\ v2.doing = "prep" =>
         Host!Owner = v5 + 1 /\ Host!HowMany = v2.step - 1
    /\ v1 = Host!Nothing /\ v2.doing = "undo" =>
         Host!Owner = v2.launch /\ Host!HowMany = v2.step
    /\ v1 = Host!Nothing /\ v2.doing = "nothing" => Host!Owner = 0 /\ Host!HowMany = 0
BY DEF Host!Owner, Host!HowMany, Host!Preparing

LEMMA OwnerWillBe ==
    /\ v1' # Host!Nothing => Host!Owner' = v1'.launch /\ Host!HowMany' = Prep[v1'.app]
    /\ v1' = Host!Nothing /\ v2'.doing = "prep" =>
         Host!Owner' = v5' + 1 /\ Host!HowMany' = v2'.step - 1
    /\ v1' = Host!Nothing /\ v2'.doing = "undo" =>
         Host!Owner' = v2'.launch /\ Host!HowMany' = v2'.step
    /\ v1' = Host!Nothing /\ v2'.doing = "nothing" => Host!Owner' = 0 /\ Host!HowMany' = 0
BY DEF Host!Owner, Host!HowMany, Host!Preparing, Host!Nothing

\* Nothing is in effect without an owner.
LEMMA OwnerOfNone == ASSUME Host!HostInv, Host!Owner = 0 PROVE Host!HowMany = 0
<1>1. v5 \in Nat /\ v2.doing \in {"prep", "undo", "nothing"}
  <2>1. v2 = Host!Free \/ v2 \in Host!PrepHeld \/ v2 \in Host!UndoHeld
    BY DEF Host!HostInv, Host!LockOK
  <2> QED BY <2>1, HostFacts DEF Host!PrepHeld, Host!UndoHeld
<1>2. CASE v1 # Host!Nothing
  <2>1. v1.launch \in 1 .. v5
    BY <1>2, HostFacts, Zenon DEF Host!Tracked
  <2> QED BY <1>1, <1>2, <2>1, OwnerIs
<1>3. CASE v1 = Host!Nothing /\ v2.doing = "prep"
  BY <1>1, <1>3, OwnerIs
<1>4. CASE v1 = Host!Nothing /\ v2.doing = "undo"
  <2>1. v2.launch \in 1 .. v5
    BY <1>4, HostFacts DEF Host!UndoHeld
  <2> QED BY <1>1, <1>4, <2>1, OwnerIs
<1>5. CASE v1 = Host!Nothing /\ v2.doing = "nothing"
  BY <1>5, OwnerIs
<1> QED BY <1>1, <1>2, <1>3, <1>4, <1>5

\* The commands in effect are the owner's as long as they change hands only when
\* there are none.
LEMMA StackStays ==
    ASSUME Host!HostInv, UNCHANGED v6,
           (v7' = 0 /\ v8' = 0) => (v7 = 0 /\ v8 = 0),
           Host!HowMany' = Host!HowMany,
           Host!Owner' = Host!Owner \/ Host!HowMany = 0,
           Host!Owner' = 0 => Host!HowMany = 0
    PROVE  Host!SoMany' /\ Host!PrepIsAStack'
<1>1. SUFFICES ASSUME v7' = 0, v8' = 0
               PROVE  /\ Len(v6) = Host!HowMany
                      /\ v6 = [i \in 1 .. Len(v6) |-> [launch |-> Host!Owner', step |-> i]]
                      /\ Host!Owner' = 0 => v6 = <<>>
  BY DEF Host!SoMany, Host!PrepIsAStack
<1>2. /\ Len(v6) = Host!HowMany
      /\ v6 = [i \in 1 .. Len(v6) |-> [launch |-> Host!Owner, step |-> i]]
  BY <1>1 DEF Host!HostInv, Host!SoMany, Host!PrepIsAStack
<1>3. Host!HowMany = 0 => v6 = <<>> /\ \A x :
        v6 = [i \in 1 .. Len(v6) |-> [launch |-> x, step |-> i]]
  <2>1. v6 \in Seq(Host!Command)
    BY HostFacts
  <2> QED BY <1>2, <2>1
<1> QED BY <1>2, <1>3

\* Whoever's job lives has had it before, and all of its prep is still there.
LEMMA PrepStays ==
    ASSUME Host!HostInv,
           \A n \in 1 .. v5' : Host!JobLives(n)' =>
               /\ n \in 1 .. v5 /\ Host!JobLives(n) /\ v4'[n].app = v4[n].app
               /\ \A k \in Nat : Host!InPlace(n, k) => Host!InPlace(n, k)'
    PROVE  Host!PrepOutlivesTheLauncher'
<1> SUFFICES ASSUME NEW n \in 1 .. v5', Host!JobLives(n)'
             PROVE  Host!Steps(n)' = 1 .. Prep[v4'[n].app]
  BY DEF Host!PrepOutlivesTheLauncher
<1>1. Host!Steps(n) = 1 .. Prep[v4[n].app] /\ v4'[n].app = v4[n].app
  BY DEF Host!HostInv, Host!PrepOutlivesTheLauncher
<1>2. \A k \in 1 .. Prep[v4[n].app] : Host!InPlace(n, k)'
  BY <1>1 DEF Host!Steps
<1> QED BY <1>1, <1>2 DEF Host!Steps

\* A step that leaves the launches and the commands as they are, and brings no
\* job to life.
LEMMA HostStays ==
    ASSUME Host!HostInv, UNCHANGED <<v5, v6, v7, v8>>,
           v4' \in Seq(Host!Process), Len(v4') = v5,
           \A n \in 1 .. v5 : v4'[n].app = v4[n].app /\ (Host!JobLives(n)' => Host!JobLives(n)),
           v3' \in [Worker -> HostApp \cup {Host!NoApp}],
           Host!LockOK', Host!PreparedSoFar',
           Host!HowMany' = Host!HowMany,
           Host!Owner' = Host!Owner \/ Host!HowMany = 0,
           Host!Owner' = 0 => Host!HowMany = 0
    PROVE  Host!HostInv'
<1>1. Host!TypeOK'
  BY HostFacts DEF Host!TypeOK
<1>2. Host!SoMany' /\ Host!PrepIsAStack'
  BY StackStays
<1>3. Host!PrepOutlivesTheLauncher'
  BY PrepStays, Zenon DEF Host!InPlace
<1> QED BY <1>1, <1>2, <1>3 DEF Host!HostInv

\* The running app's prep is about to be undone: what was in effect still is.
LEMMA UndoBegins ==
    ASSUME Host!HostInv, v1 # Host!Nothing, v1' = Host!Nothing,
           NEW next \in HostApp \cup {Host!NoApp}, v2' = Host!Undo(v1, next),
           UNCHANGED <<v5, v6, v7, v8>>,
           v4' \in Seq(Host!Process), Len(v4') = v5,
           \A n \in 1 .. v5 : v4'[n].app = v4[n].app /\ (Host!JobLives(n)' => Host!JobLives(n)),
           \A n \in 1 .. v5 : n = v1.launch => ~ Host!JobLives(n)',
           v3' \in [Worker -> HostApp \cup {Host!NoApp}]
    PROVE  Host!HostInv'
<1>1. /\ v1.launch \in 1 .. v5 /\ v1.app \in HostApp /\ Prep[v1.app] \in Nat
      /\ v4[v1.launch].app = v1.app
  <2>1. v1 \in Host!Tracked /\ Prep \in [HostApp -> Nat]
    BY HostFacts
  <2>2. v4[v1.launch].app = v1.app
    BY DEF Host!HostInv, Host!LockOK
  <2> QED BY <2>1, <2>2, Zenon DEF Host!Tracked
<1>2. /\ v2' \in Host!UndoHeld' /\ v2'.doing = "undo" /\ v2'.launch = v1.launch
      /\ v2'.step = Prep[v1.app] /\ v2'.app = v1.app
  BY <1>1 DEF Host!Undo, Host!UndoHeld
<1>3. Host!LockOK'
  <2>1. ~ Host!JobLives(v2.launch)'
    BY <1>1, <1>2 DEF Host!JobLives
  <2>2. v4'[v2'.launch].app = v2'.app
    BY <1>1, <1>2
  <2>3. v2'.doing # "prep"
    BY <1>2
  <2> QED BY <1>2, <2>1, <2>2, <2>3 DEF Host!LockOK, Host!Nothing
<1>4. Host!PreparedSoFar'
  BY <1>2 DEF Host!PreparedSoFar
<1>5. Host!HowMany' = Host!HowMany /\ Host!Owner' = Host!Owner /\ Host!Owner # 0
  BY <1>1, <1>2, OwnerIs, OwnerWillBe
<1> QED BY <1>3, <1>4, <1>5, HostStays

\* One look at what is running.
LEMMA LookKeeps ==
    ASSUME Host!HostInv, Host!Look, UNCHANGED <<v4, v5, v6, v7, v8>>,
           v3' \in [Worker -> HostApp \cup {Host!NoApp}]
    PROVE  Host!HostInv'
<1>1. /\ v4' \in Seq(Host!Process) /\ Len(v4') = v5 /\ v2 = Host!Free /\ v2.doing = "nothing"
      /\ \A n \in 1 .. v5 : v4'[n].app = v4[n].app /\ (Host!JobLives(n)' => Host!JobLives(n))
  BY HostFacts DEF Host!Look, Host!JobLives
<1>2. CASE v1 = Host!Nothing
  <2>1. UNCHANGED <<v1, v2>>
    BY <1>2 DEF Host!Look
  <2>2. Host!LockOK' /\ Host!PreparedSoFar'
    BY <2>1, Zenon
       DEF Host!HostInv, Host!LockOK, Host!PreparedSoFar, Host!JobLives, Host!InPlace,
                Host!Preparing, Host!UndoHeld, Host!Tracked, Host!Nothing, Host!Free
  <2>3. Host!HowMany' = Host!HowMany /\ Host!Owner' = Host!Owner /\ Host!HowMany = 0
    BY <1>1, <1>2, <2>1, OwnerIs, OwnerWillBe
  <2> QED BY <1>1, <2>2, <2>3, HostStays
<1>3. CASE v1 # Host!Nothing /\ Host!Exited(v1)
  <2>1. v1' = Host!Nothing /\ v2' = Host!Undo(v1, Host!NoApp)
    BY <1>3 DEF Host!Look
  <2>2. v1 \in Host!Tracked /\ v4[v1.launch].app = v1.app
    BY <1>3, HostFacts DEF Host!HostInv, Host!LockOK
  <2>3. ~ Host!JobLives(v1.launch)
    BY <1>3, <2>2, Zenon DEF Host!Exited, Host!JobLives, Host!JobActive
  <2>4. \A n \in 1 .. v5 : n = v1.launch => ~ Host!JobLives(n)'
    BY <2>3 DEF Host!JobLives
  <2> QED BY <1>1, <1>3, <2>1, <2>4, UndoBegins
<1>4. CASE v1 # Host!Nothing /\ ~ Host!Exited(v1)
  <2>1. v1' = Host!Observed(v1) /\ v2' = v2
    BY <1>1, <1>4 DEF Host!Look
  <2>2. v1 \in Host!Tracked
    BY <1>4, HostFacts
  <2>3. v1' \in Host!Tracked /\ v1'.launch = v1.launch /\ v1'.app = v1.app /\ v1.launch \in 1 .. v5
    <3> DEFINE seen == Host!Seen(v1)
               absent == Host!Absence(v1)
    <3>1. seen \in BOOLEAN /\ absent \in {"not", "since now", "for long"}
      BY <2>2, Zenon DEF Host!Seen, Host!Absence, Host!Present, Host!Tracked
    <3>2. v1' = v1 \/ v1' = [v1 EXCEPT !.seen = seen, !.absent = absent]
      BY <2>1 DEF Host!Observed
    <3> HIDE DEF seen, absent
    <3> QED BY <2>2, <3>1, <3>2, Zenon DEF Host!Tracked
  <2>4. v1' # Host!Nothing
    BY <2>3 DEF Host!Nothing
  <2>5. Host!LockOK'
    <3>1. v4[v1.launch].app = v1.app
      BY <1>4 DEF Host!HostInv, Host!LockOK
    <3> QED BY <1>1, <2>1, <2>3, <3>1, Zenon DEF Host!LockOK, Host!Tracked, Host!Free
  <2>6. Host!PreparedSoFar'
    BY <1>1, <2>1 DEF Host!PreparedSoFar
  <2>7. Host!HowMany' = Host!HowMany /\ Host!Owner' = Host!Owner /\ Host!Owner # 0
    BY <1>4, <2>3, <2>4, OwnerIs, OwnerWillBe
  <2> QED BY <1>1, <2>5, <2>6, <2>7, HostStays
<1> QED BY <1>2, <1>3, <1>4

LEMMA ReapKeeps == ASSUME Host!HostInv, Host!Reap PROVE Host!HostInv'
BY LookKeeps, HostFacts DEF Host!Reap

LEMMA LaunchLooksKeeps ==
    ASSUME Host!HostInv, NEW c \in Worker, NEW app \in HostApp, Host!LaunchLooks(c, app)
    PROVE  Host!HostInv'
<1>1. v3' \in [Worker -> HostApp \cup {Host!NoApp}]
  BY HostFacts DEF Host!LaunchLooks
<1> QED BY <1>1, LookKeeps DEF Host!LaunchLooks

\* The prep of an app is about to be run: nothing is in effect yet.
LEMMA PrepBegins ==
    ASSUME Host!HostInv, v1 = Host!Nothing, Host!HowMany = 0, UNCHANGED <<v1, v4, v5, v6, v7, v8>>,
           NEW app \in HostApp, v2' = Host!DoPrep(app),
           v3' \in [Worker -> HostApp \cup {Host!NoApp}]
    PROVE  Host!HostInv'
<1>1. /\ v2' \in Host!PrepHeld /\ v2'.doing = "prep" /\ v2'.step = 1 /\ v2'.app = app
      /\ v5 \in Nat /\ Prep[app] \in Nat
  BY HostFacts DEF Host!DoPrep, Host!PrepHeld
<1>2. /\ v4' \in Seq(Host!Process) /\ Len(v4') = v5
      /\ \A n \in 1 .. v5 : v4'[n].app = v4[n].app /\ (Host!JobLives(n)' => Host!JobLives(n))
  BY HostFacts DEF Host!JobLives
<1>3. Host!LockOK' /\ Host!PreparedSoFar'
  BY <1>1 DEF Host!LockOK, Host!PreparedSoFar, Host!Nothing
<1>4. Host!HowMany' = 0 /\ Host!Owner' # 0
  BY <1>1, OwnerWillBe DEF Host!Nothing
<1> QED BY <1>2, <1>3, <1>4, HostStays

\* Nothing is held, run or in effect.
LEMMA LockFreed ==
    ASSUME Host!HostInv, v1 = Host!Nothing, Host!HowMany = 0, UNCHANGED <<v1, v4, v5, v6, v7, v8>>,
           v2' = Host!Free,
           v3' \in [Worker -> HostApp \cup {Host!NoApp}]
    PROVE  Host!HostInv'
<1>1. v2'.doing = "nothing"
  BY DEF Host!Free
<1>2. /\ v4' \in Seq(Host!Process) /\ Len(v4') = v5
      /\ \A n \in 1 .. v5 : v4'[n].app = v4[n].app /\ (Host!JobLives(n)' => Host!JobLives(n))
  BY HostFacts DEF Host!JobLives
<1>3. Host!LockOK' /\ Host!PreparedSoFar'
  BY <1>1 DEF Host!LockOK, Host!PreparedSoFar, Host!Nothing, Host!Free
<1>4. Host!HowMany' = 0 /\ Host!Owner' = 0
  BY <1>1, OwnerWillBe DEF Host!Nothing
<1> QED BY <1>2, <1>3, <1>4, HostStays

LEMMA LaunchLocksKeeps ==
    ASSUME Host!HostInv, NEW c \in Worker, Host!LaunchLocks(c) PROVE Host!HostInv'
<1> DEFINE app == v3[c]
<1>1. /\ v3 \in [Worker -> HostApp \cup {Host!NoApp}] /\ app \in HostApp
      /\ v2 = Host!Free /\ v2.doing = "nothing" /\ Host!NoApp \notin HostApp
  BY HostFacts DEF Host!LaunchLocks
<1>2. /\ UNCHANGED <<v4, v5, v6, v7, v8>> /\ v3' = [v3 EXCEPT ![c] = Host!NoApp]
      /\ v3' \in [Worker -> HostApp \cup {Host!NoApp}]
  BY <1>1 DEF Host!LaunchLocks
<1>3. /\ v4' \in Seq(Host!Process) /\ Len(v4') = v5
      /\ \A n \in 1 .. v5 : v4'[n].app = v4[n].app /\ (Host!JobLives(n)' => Host!JobLives(n))
  BY <1>2, HostFacts DEF Host!JobLives
<1>4. CASE v1 = Host!Nothing /\ v5 < MaxLaunches
  <2>1. UNCHANGED v1 /\ v2' = Host!DoPrep(app)
    BY <1>4 DEF Host!LaunchLocks
  <2>2. Host!HowMany = 0
    BY <1>1, <1>4, OwnerIs
  <2> HIDE DEF app
  <2> QED BY <1>1, <1>2, <1>4, <2>1, <2>2, PrepBegins
<1>5. CASE v1 # Host!Nothing /\ Host!Tracking(v1.app) = "untracked" /\ v5 < MaxLaunches
  <2>1. v1' = Host!Nothing /\ v2' = Host!Undo(v1, app)
    BY <1>5 DEF Host!LaunchLocks
  <2>2. v4[v1.launch].app = v1.app
    BY <1>5 DEF Host!HostInv, Host!LockOK
  <2>3. \A n \in 1 .. v5 : n = v1.launch => ~ Host!JobLives(n)'
    BY <1>2, <1>5, <2>2 DEF Host!JobLives
  <2> HIDE DEF app
  <2> QED BY <1>1, <1>2, <1>3, <1>5, <2>1, <2>3, UndoBegins
<1>6. CASE UNCHANGED <<v1, v2>>
  <2>1. Host!LockOK' /\ Host!PreparedSoFar'
    BY <1>2, <1>6, Zenon
       DEF Host!HostInv, Host!LockOK, Host!PreparedSoFar, Host!JobLives, Host!InPlace,
        Host!Preparing, Host!UndoHeld, Host!Tracked, Host!Nothing, Host!Free
  <2>2. Host!HowMany' = Host!HowMany /\ Host!Owner' = Host!Owner
    BY <1>2, <1>6 DEF Host!HowMany, Host!Owner, Host!Preparing, Host!Nothing
  <2>3. Host!Owner = 0 => Host!HowMany = 0
    BY OwnerOfNone
  <2> QED BY <1>2, <1>3, <2>1, <2>2, <2>3, HostStays
<1> QED BY <1>4, <1>5, <1>6 DEF Host!LaunchLocks

LEMMA TerminateKeeps == ASSUME Host!HostInv, Host!Terminate PROVE Host!HostInv'
<1>1. /\ UNCHANGED <<v3, v5, v6, v7, v8>> /\ v1 # Host!Nothing /\ v1' = Host!Nothing
      /\ v2' = Host!Undo(v1, Host!NoApp) /\ v4' = Host!Ended(v1)
  BY DEF Host!Terminate
<1>2. /\ v4 \in Seq(Host!Process) /\ Len(v4) = v5 /\ v5 \in Nat /\ v1 \in Host!Tracked
      /\ v3 \in [Worker -> HostApp \cup {Host!NoApp}]
  BY <1>1, HostFacts
<1> DEFINE own(n) == n = v1.launch
           named(n) == /\ Host!Tracking(v1.app) = "process" /\ v4[n].app = v1.app
                       /\ v4[n].since >= v1.launch
           launcher(n) == v4[n].launcher /\ ~own(n)
           game(n) == v4[n].game /\ ~(own(n) /\ v4[n].inJob) /\ ~named(n)
           ended(n) == [v4[n] EXCEPT !.launcher = launcher(n), !.game = game(n)]
<1>3. v4' = [n \in 1 .. v5 |-> ended(n)]
  BY <1>1, Zenon DEF Host!Ended
<1>4. ASSUME NEW n \in 1 .. v5
      PROVE  /\ ended(n) \in Host!Process /\ ended(n).app = v4[n].app
             /\ ended(n).joined = v4[n].joined /\ ended(n).inJob = v4[n].inJob
             /\ ended(n).launcher = launcher(n) /\ ended(n).game = game(n)
  <2>1. v4[n] \in Host!Process
    BY <1>2
  <2>2. launcher(n) \in BOOLEAN /\ game(n) \in BOOLEAN
    OBVIOUS
  <2> HIDE DEF launcher, game
  <2> QED BY <2>1, <2>2, Zenon DEF Host!Process
<1>5. \A n \in 1 .. v5 : v4'[n] = ended(n)
  BY <1>3, Zenon
<1> HIDE DEF ended
<1>6. v4' \in Seq(Host!Process) /\ Len(v4') = v5
  BY <1>2, <1>3, <1>4
<1>7. \A n \in 1 .. v5 : v4'[n].app = v4[n].app /\ (Host!JobLives(n)' => Host!JobLives(n))
  BY <1>4, <1>5, Zenon DEF Host!JobLives
<1>8. v1.launch \in 1 .. v5
  BY <1>2, Zenon DEF Host!Tracked
<1>9. \A n \in 1 .. v5 : n = v1.launch => ~ Host!JobLives(n)'
  BY <1>4, <1>5, <1>8, ZenonT(40) DEF Host!JobLives
<1> QED BY <1>1, <1>2, <1>6, <1>7, <1>9, UndoBegins

\* A command run: it is in effect, and what was still is.
LEMMA PrepStepKeeps == ASSUME Host!HostInv, Host!PrepStep PROVE Host!HostInv'
<1> DEFINE e == [launch |-> v5 + 1, step |-> v2.step]
           held == [v2 EXCEPT !.step = v2.step + 1]
<1>1. /\ UNCHANGED <<v1, v3, v4, v5, v7, v8>> /\ v2.doing = "prep" /\ v2.step <= Prep[v2.app]
      /\ v2' = held /\ v6' = Append(v6, e)
  BY DEF Host!PrepStep, Host!Preparing
<1>2. /\ v1 = Host!Nothing /\ v2 \in Host!PrepHeld /\ v6 \in Seq(Host!Command) /\ v5 \in Nat
      /\ Prep \in [HostApp -> Nat]
  BY <1>1, HostFacts
<1>3. /\ held \in Host!PrepHeld /\ held.doing = "prep" /\ held.step = v2.step + 1
      /\ held.app = v2.app
  BY <1>2 DEF Host!PrepHeld
<1>4. e \in Host!Command /\ v2.step \in Nat \ {0} /\ v2.app \in HostApp /\ Prep[v2.app] \in Nat
  BY <1>2 DEF Host!Command, Host!PrepHeld
<1> HIDE DEF held
<1>5. /\ v6' \in Seq(Host!Command) /\ Len(v6') = Len(v6) + 1 /\ Len(v6) \in Nat
      /\ \A i \in 1 .. Len(v6) : v6'[i] = v6[i]
      /\ v6'[Len(v6) + 1] = e
  <2> HIDE DEF e
  <2> QED BY <1>1, <1>2, <1>4
<1>6. Host!TypeOK'
  BY <1>1, <1>5, HostFacts DEF Host!TypeOK
<1>7. Host!LockOK'
  BY <1>1, <1>2, <1>3, <1>4 DEF Host!LockOK, Host!Nothing
<1>8. ASSUME NEW n, NEW k, Host!InPlace(n, k) PROVE Host!InPlace(n, k)'
  <2>1. PICK i \in 1 .. Len(v6) : v6[i] = [launch |-> n, step |-> k]
    BY <1>8 DEF Host!InPlace
  <2>2. i \in 1 .. Len(v6') /\ v6'[i] = [launch |-> n, step |-> k]
    BY <1>5, <2>1
  <2> QED BY <2>2 DEF Host!InPlace
<1>9. Host!PreparedSoFar'
  <2>1. \A k \in 1 .. v2.step - 1 : Host!InPlace(v5 + 1, k)
    BY <1>1 DEF Host!HostInv, Host!PreparedSoFar, Host!Preparing
  <2>2. \A k : k = v2.step => \E i \in 1 .. Len(v6') : v6'[i] = [launch |-> v5 + 1, step |-> k]
    <3>1. Len(v6) + 1 \in 1 .. Len(v6')
      BY <1>5
    <3> QED BY <1>5, <3>1
  <2>3. \A k \in 1 .. v2'.step - 1 : k \in 1 .. v2.step - 1 \/ k = v2.step
    BY <1>1, <1>3, <1>4
  <2>4. \A k \in 1 .. v2'.step - 1 :
          \E i \in 1 .. Len(v6') : v6'[i] = [launch |-> v5 + 1, step |-> k]
    BY <1>8, <2>1, <2>2, <2>3 DEF Host!InPlace
  <2> QED BY <1>1, <2>4 DEF Host!PreparedSoFar, Host!Preparing, Host!InPlace
<1>10. Host!PrepOutlivesTheLauncher'
  <2>1. \A n \in 1 .. v5' : Host!JobLives(n)' => n \in 1 .. v5 /\ Host!JobLives(n)
    BY <1>1 DEF Host!JobLives
  <2> QED BY <1>1, <1>8, <2>1, PrepStays
<1>11. Host!SoMany' /\ Host!PrepIsAStack'
  <2>1. /\ Host!Owner = v5 + 1 /\ Host!HowMany = v2.step - 1
        /\ Host!Owner' = v5 + 1 /\ Host!HowMany' = v2.step
    <3>1. v1' = Host!Nothing /\ v2'.doing = "prep" /\ v5' = v5 /\ v2'.step = v2.step + 1
      BY <1>1, <1>2, <1>3
    <3> QED BY <1>1, <1>2, <1>4, <3>1, OwnerIs, OwnerWillBe
  <2>2. ASSUME v7' = 0, v8' = 0
        PROVE  /\ Len(v6') = v2.step
               /\ v6' = [i \in 1 .. Len(v6') |-> [launch |-> v5 + 1, step |-> i]]
    <3>1. /\ Len(v6) = v2.step - 1
          /\ v6 = [i \in 1 .. Len(v6) |-> [launch |-> v5 + 1, step |-> i]]
      BY <1>1, <2>1, <2>2 DEF Host!HostInv, Host!SoMany, Host!PrepIsAStack
    <3>2. Len(v6') = v2.step
      BY <1>4, <1>5, <3>1
    <3>3. \A i \in 1 .. Len(v6') : v6'[i] = [launch |-> v5 + 1, step |-> i]
      <4>1. \A i \in 1 .. Len(v6) : v6'[i] = [launch |-> v5 + 1, step |-> i]
        BY <1>5, <3>1
      <4>2. Len(v6) + 1 = v2.step
        BY <1>4, <3>1
      <4>3. \A i \in 1 .. Len(v6') : i \in 1 .. Len(v6) \/ i = v2.step
        BY <1>5, <4>2
      <4> QED BY <1>5, <4>1, <4>2, <4>3, Zenon
    <3> QED BY <1>5, <3>2, <3>3
  <2> QED BY <1>2, <2>1, <2>2 DEF Host!SoMany, Host!PrepIsAStack
<1> QED BY <1>6, <1>7, <1>9, <1>10, <1>11 DEF Host!HostInv

\* One more launch: the others are as they were.
LEMMA OneMoreLaunch ==
    ASSUME Host!HostInv, NEW p \in Host!Process, v5' = v5 + 1, v4' = Append(v4, p)
    PROVE  /\ v4' \in Seq(Host!Process) /\ Len(v4') = v5' /\ v5' \in Nat
           /\ v4'[v5 + 1] = p
           /\ \A n \in 1 .. v5' : n \in 1 .. v5 \/ n = v5 + 1
           /\ \A n \in 1 .. v5 : v4'[n] = v4[n] /\ (Host!JobLives(n)' => Host!JobLives(n))
<1>1. v4 \in Seq(Host!Process) /\ Len(v4) = v5 /\ v5 \in Nat
  BY HostFacts
<1> HIDE DEF Host!Process
<1>2. /\ v4' \in Seq(Host!Process) /\ Len(v4') = v5' /\ v5' \in Nat /\ v4'[v5 + 1] = p
      /\ \A n \in 1 .. v5 : v4'[n] = v4[n]
  BY <1>1
<1>3. \A n \in 1 .. v5' : n \in 1 .. v5 \/ n = v5 + 1
  BY <1>1
<1> QED BY <1>2, <1>3, Zenon DEF Host!JobLives

\* A launch is given up or the server goes down: nobody is at any prep.
LEMMA HostLetsGo ==
    ASSUME Host!HostInv, v1' = Host!Nothing, v2' = Host!Free, UNCHANGED v6,
           v7' \in Nat, v8' \in Nat, v7' # 0 \/ v8' # 0,
           v3' \in [Worker -> HostApp \cup {Host!NoApp}],
           \/ UNCHANGED <<v4, v5>>
           \/ \E app \in HostApp : v5' = v5 + 1 /\ v4' = Append(v4, Host!NotStarted(app))
    PROVE  Host!HostInv'
<1>1. /\ v4' \in Seq(Host!Process) /\ Len(v4') = v5' /\ v5' \in Nat
      /\ \A n \in 1 .. v5' : Host!JobLives(n)' =>
           n \in 1 .. v5 /\ Host!JobLives(n) /\ v4'[n].app = v4[n].app
  <2>1. CASE UNCHANGED <<v4, v5>>
    BY <2>1, HostFacts DEF Host!JobLives
  <2>2. CASE \E app \in HostApp : v5' = v5 + 1 /\ v4' = Append(v4, Host!NotStarted(app))
    <3>1. PICK app \in HostApp : v5' = v5 + 1 /\ v4' = Append(v4, Host!NotStarted(app))
      BY <2>2
    <3> DEFINE p == Host!NotStarted(app)
    <3>2. p \in Host!Process /\ p.launcher = FALSE /\ p.game = FALSE
      BY DEF Host!NotStarted, Host!Launched, Host!Process
    <3>3. v4' = Append(v4, p)
      BY <3>1
    <3> HIDE DEF p
    <3>4. /\ v4' \in Seq(Host!Process) /\ Len(v4') = v5' /\ v5' \in Nat
          /\ v4'[v5 + 1] = p
          /\ \A n \in 1 .. v5' : n \in 1 .. v5 \/ n = v5 + 1
          /\ \A n \in 1 .. v5 : v4'[n] = v4[n] /\ (Host!JobLives(n)' => Host!JobLives(n))
      BY <3>1, <3>2, <3>3, OneMoreLaunch, Zenon
    <3>5. \A n \in 1 .. v5' : n = v5 + 1 => ~ Host!JobLives(n)'
      BY <3>2, <3>4 DEF Host!JobLives
    <3> QED BY <3>4, <3>5
  <2> QED BY <2>1, <2>2
<1>2. Host!TypeOK'
  BY <1>1, HostFacts DEF Host!TypeOK
<1>3. v2'.doing = "nothing"
  BY DEF Host!Free
<1>4. Host!LockOK' /\ Host!PreparedSoFar'
  BY <1>3 DEF Host!LockOK, Host!PreparedSoFar, Host!Nothing, Host!Free
<1>5. Host!SoMany' /\ Host!PrepIsAStack'
  BY DEF Host!SoMany, Host!PrepIsAStack
<1>6. Host!PrepOutlivesTheLauncher'
  BY <1>1, PrepStays DEF Host!InPlace
<1> QED BY <1>2, <1>4, <1>5, <1>6 DEF Host!HostInv

LEMMA LaunchFailsKeeps == ASSUME Host!HostInv, Host!LaunchFails PROVE Host!HostInv'
<1>1. /\ UNCHANGED <<v1, v3, v6, v8>> /\ v2.doing = "prep" /\ v2' = Host!Free /\ v7' = v7 + 1
      /\ v5' = v5 + 1 /\ v4' = Append(v4, Host!NotStarted(v2.app))
  BY DEF Host!LaunchFails, Host!Fail, Host!Preparing
<1>2. /\ v1' = Host!Nothing /\ v2 \in Host!PrepHeld /\ v7' \in Nat /\ v7' # 0 /\ v8' \in Nat
      /\ v3' \in [Worker -> HostApp \cup {Host!NoApp}]
  BY <1>1, HostFacts
<1>3. v2.app \in HostApp
  BY <1>2 DEF Host!PrepHeld
<1> QED BY <1>1, <1>2, <1>3, HostLetsGo

LEMMA HostRestartKeeps == ASSUME Host!HostInv, Host!Restart PROVE Host!HostInv'
<1>1. /\ UNCHANGED <<v6, v7>> /\ v8' = v8 + 1 /\ v1' = Host!Nothing /\ v2' = Host!Free
      /\ v3' = [c \in Worker |-> Host!NoApp]
      /\ \/ UNCHANGED <<v4, v5>>
         \/ /\ v2.doing = "prep" /\ v5' = v5 + 1
            /\ v4' = Append(v4, Host!NotStarted(v2.app))
  BY DEF Host!Restart, Host!Preparing
<1>2. v7' \in Nat /\ v8' \in Nat /\ v8' # 0 /\ v3' \in [Worker -> HostApp \cup {Host!NoApp}]
  BY <1>1, HostFacts
<1>3. v2.doing = "prep" => v2.app \in HostApp
  BY HostFacts DEF Host!PrepHeld
<1>4. \/ UNCHANGED <<v4, v5>>
      \/ \E app \in HostApp : v5' = v5 + 1 /\ v4' = Append(v4, Host!NotStarted(app))
  BY <1>1, <1>3
<1> QED BY <1>1, <1>2, <1>4, HostLetsGo

\* The launch is under way with all of its prep in effect.
LEMMA SpawnKeeps == ASSUME Host!HostInv, Host!Spawn PROVE Host!HostInv'
<1> DEFINE app == v2.app
           new == [launch |-> v5 + 1, app |-> app, seen |-> FALSE,
                   absent |-> "not", inGrace |-> TRUE]
           p(joined) == Host!Launched(app, app \notin Uri, joined)
<1>1. /\ UNCHANGED <<v3, v6, v8>> /\ v2.doing = "prep" /\ v2.step > Prep[app]
      /\ v2' = Host!Free /\ v1' = new /\ v5' = v5 + 1
  BY DEF Host!Spawn, Host!Preparing
<1>2. PICK joined \in BOOLEAN : v4' = Append(v4, p(joined)) /\ (v7' = v7 \/ v7' = v7 + 1)
  BY DEF Host!Spawn
<1>3. /\ v1 = Host!Nothing /\ v2 \in Host!PrepHeld /\ v5 \in Nat /\ v7 \in Nat
      /\ Prep \in [HostApp -> Nat] /\ v2.step <= Prep[app] + 1 /\ v8' \in Nat
      /\ v3' \in [Worker -> HostApp \cup {Host!NoApp}] /\ v6' \in Seq(Host!Command)
  <2>1. v2.step <= Prep[app] + 1
    BY <1>1 DEF Host!HostInv, Host!LockOK
  <2> QED BY <1>1, <2>1, HostFacts
<1>4. app \in HostApp /\ Prep[app] \in Nat /\ v2.step = Prep[app] + 1
  <2>1. app \in HostApp /\ v2.step \in Nat
    BY <1>3 DEF Host!PrepHeld
  <2>2. Prep[app] \in Nat
    BY <1>3, <2>1
  <2> HIDE DEF app
  <2> QED BY <1>1, <1>3, <2>1, <2>2
<1>5. p(joined) \in Host!Process /\ p(joined).app = app
  <2>1. app \in HostApp
    BY <1>4
  <2> HIDE DEF app
  <2> QED BY <2>1 DEF Host!Launched, Host!Process
<1>6. new \in Host!Tracked' /\ new.launch = v5 + 1 /\ new.app = app
  <2>1. v5 + 1 \in 1 .. v5' /\ app \in HostApp
    BY <1>1, <1>3, <1>4
  <2> HIDE DEF app
  <2> QED BY <2>1 DEF Host!Tracked
<1>7. new # Host!Nothing
  BY <1>6 DEF Host!Nothing
<1> HIDE DEF new, p
<1>8. /\ v4' \in Seq(Host!Process) /\ Len(v4') = v5' /\ v5' \in Nat
      /\ v4'[v5 + 1] = p(joined)
      /\ \A n \in 1 .. v5' : n \in 1 .. v5 \/ n = v5 + 1
      /\ \A n \in 1 .. v5 : v4'[n] = v4[n] /\ (Host!JobLives(n)' => Host!JobLives(n))
  BY <1>1, <1>2, <1>5, OneMoreLaunch, Zenon
<1>9. v7' \in Nat /\ (v7' = 0 => v7 = 0)
  BY <1>2, <1>3
<1>10. Host!TypeOK'
  BY <1>3, <1>8, <1>9 DEF Host!TypeOK
<1>11. Host!LockOK' /\ Host!PreparedSoFar'
  <2>1. v2'.doing = "nothing"
    BY <1>1 DEF Host!Free
  <2>2. v4'[v1'.launch].app = v1'.app
    BY <1>1, <1>5, <1>6, <1>8
  <2> QED BY <1>1, <1>6, <2>1, <2>2 DEF Host!LockOK, Host!PreparedSoFar
<1>12. Host!SoMany' /\ Host!PrepIsAStack'
  <2>1. Host!HowMany = Prep[app] /\ Host!Owner = v5 + 1
    <3> HIDE DEF app
    <3> QED BY <1>1, <1>3, <1>4, OwnerIs
  <2>2. Host!HowMany' = Prep[app] /\ Host!Owner' = v5 + 1
    BY <1>1, <1>6, <1>7, OwnerWillBe
  <2>3. Host!Owner' # 0
    BY <2>2, <1>3
  <2> QED BY <1>1, <1>9, <2>1, <2>2, <2>3, StackStays
<1>13. Host!PrepOutlivesTheLauncher'
  <2> SUFFICES ASSUME NEW n \in 1 .. v5', Host!JobLives(n)'
               PROVE  Host!Steps(n)' = 1 .. Prep[v4'[n].app]
    BY DEF Host!PrepOutlivesTheLauncher
  <2>1. CASE n \in 1 .. v5
    <3>1. Host!Steps(n) = 1 .. Prep[v4[n].app] /\ v4'[n] = v4[n]
      BY <1>8, <2>1 DEF Host!HostInv, Host!PrepOutlivesTheLauncher
    <3> QED BY <1>1, <3>1 DEF Host!Steps, Host!InPlace
  <2>2. CASE n = v5 + 1
    <3>1. \A k \in 1 .. v2.step - 1 : Host!InPlace(n, k)
      BY <1>1, <2>2 DEF Host!HostInv, Host!PreparedSoFar, Host!Preparing
    <3>2. v4'[n].app = app
      BY <1>5, <1>8, <2>2
    <3>3. \A k \in 1 .. Prep[app] : Host!InPlace(n, k)
      <4> HIDE DEF app
      <4> QED BY <1>4, <3>1
    <3> QED BY <1>1, <3>2, <3>3 DEF Host!Steps, Host!InPlace
  <2> QED BY <1>8, <2>1, <2>2
<1> QED BY <1>10, <1>11, <1>12, <1>13 DEF Host!HostInv

\* What is in effect once a command is undone: without its first mention.
LEMMA WithoutIs ==
    ASSUME Host!HostInv, NEW e
    PROVE  \/ /\ \A i \in 1 .. Len(v6) : v6[i] # e
              /\ Host!Without(e) = v6
           \/ \E at \in 1 .. Len(v6) :
                /\ v6[at] = e
                /\ Host!Without(e) \in Seq(Host!Command) /\ Len(Host!Without(e)) = Len(v6) - 1
                /\ \A i \in 1 .. at - 1 : Host!Without(e)[i] = v6[i]
                /\ \A i \in at .. Len(v6) - 1 : Host!Without(e)[i] = v6[i + 1]
<1> DEFINE at == CHOOSE i \in 1 .. Len(v6) : v6[i] = e
           w == SubSeq(v6, 1, at - 1) \o SubSeq(v6, at + 1, Len(v6))
<1>1. v6 \in Seq(Host!Command)
  BY HostFacts
<1>2. CASE \A i \in 1 .. Len(v6) : v6[i] # e
  BY <1>2, Zenon DEF Host!Without
<1>3. CASE \E i \in 1 .. Len(v6) : v6[i] = e
  <2>1. at \in 1 .. Len(v6) /\ v6[at] = e
    BY <1>3
  <2>2. Host!Without(e) = w
    BY <1>3, Zenon DEF Host!Without
  <2> HIDE DEF at
  <2>3. Len(v6) \in Nat /\ at \in Nat
    BY <1>1, <2>1
  <2> DEFINE a == SubSeq(v6, 1, at - 1)
             b == SubSeq(v6, at + 1, Len(v6))
  <2>4. /\ a \in Seq(Host!Command) /\ Len(a) = at - 1
        /\ \A i \in 1 .. at - 1 : a[i] = v6[i]
    BY <1>1, <2>1, <2>3
  <2>5. /\ b \in Seq(Host!Command) /\ Len(b) = Len(v6) - at
        /\ \A i \in 1 .. Len(v6) - at : b[i] = v6[at + i]
    BY <1>1, <2>1, <2>3
  <2>6. w = a \o b
    OBVIOUS
  <2> HIDE DEF a, b, w, Host!Command
  <2>7. /\ w \in Seq(Host!Command) /\ Len(w) = Len(v6) - 1
        /\ \A i \in 1 .. Len(w) : w[i] = IF i <= at - 1 THEN a[i] ELSE b[i - (at - 1)]
    <3>1. ASSUME NEW S, NEW x \in Seq(S), NEW y \in Seq(S)
          PROVE  /\ x \o y \in Seq(S) /\ Len(x \o y) = Len(x) + Len(y)
                 /\ \A i \in 1 .. Len(x) + Len(y) :
                      (x \o y)[i] = IF i <= Len(x) THEN x[i] ELSE y[i - Len(x)]
      OBVIOUS
    <3>2. /\ w \in Seq(Host!Command) /\ Len(w) = Len(a) + Len(b)
          /\ \A i \in 1 .. Len(a) + Len(b) :
               w[i] = IF i <= Len(a) THEN a[i] ELSE b[i - Len(a)]
      BY <2>4, <2>5, <2>6, <3>1, Zenon
    <3>3. Len(a) + Len(b) = Len(v6) - 1
      BY <2>3, <2>4, <2>5
    <3> QED BY <2>4, <3>2, <3>3, Zenon
  <2>8. \A i \in 1 .. at - 1 : w[i] = v6[i]
    BY <2>1, <2>3, <2>4, <2>7
  <2>9. ASSUME NEW i \in at .. Len(v6) - 1 PROVE w[i] = v6[i + 1]
    <3>1. i \in 1 .. Len(w) /\ ~ (i <= at - 1) /\ i - (at - 1) \in 1 .. Len(v6) - at
      BY <2>1, <2>3, <2>7
    <3>2. w[i] = b[i - (at - 1)] /\ b[i - (at - 1)] = v6[at + (i - (at - 1))]
      BY <2>5, <2>7, <3>1
    <3>3. at + (i - (at - 1)) = i + 1
      BY <2>3
    <3> QED BY <3>2, <3>3
  <2> QED BY <2>1, <2>2, <2>7, <2>8, <2>9
<1> QED BY <1>2, <1>3

\* A command undone, or not: the launch it is of is dead.
LEMMA UndoStepKeeps == ASSUME Host!HostInv, Host!UndoStep PROVE Host!HostInv'
<1> DEFINE e == [launch |-> v2.launch, step |-> v2.step]
           held == [v2 EXCEPT !.step = v2.step - 1]
<1>1. /\ UNCHANGED <<v1, v3, v4, v5, v8>> /\ v2.doing = "undo" /\ v2.step > 0
      /\ v2' = held
      /\ \/ v6' = Host!Without(e) /\ v7' = v7
         \/ v6' = v6 /\ v7' = v7 + 1
  BY DEF Host!UndoStep, Host!StepOf, Host!Fail
<1>2. /\ v1 = Host!Nothing /\ v2 \in Host!UndoHeld /\ v6 \in Seq(Host!Command) /\ v5 \in Nat
      /\ v7 \in Nat
  BY <1>1, HostFacts
<1>3. /\ held \in Host!UndoHeld /\ held.doing = "undo" /\ held.step = v2.step - 1
      /\ held.app = v2.app /\ held.launch = v2.launch
  <2>1. v2.step \in Nat
    BY <1>2 DEF Host!UndoHeld
  <2>2. v2.step - 1 \in Nat
    BY <1>1, <2>1
  <2> QED BY <1>2, <2>2 DEF Host!UndoHeld
<1>4. v2.launch \in 1 .. v5 /\ v2.step \in Nat
  BY <1>2 DEF Host!UndoHeld
<1> HIDE DEF held
<1>5. /\ v6' \in Seq(Host!Command) /\ v7' \in Nat
      /\ \A n, k : Host!InPlace(n, k) /\ n # v2.launch =>
           \E i \in 1 .. Len(v6') : v6'[i] = [launch |-> n, step |-> k]
  <2>1. CASE v6' = v6 /\ v7' = v7 + 1
    BY <1>2, <2>1 DEF Host!InPlace
  <2>2. CASE v6' = Host!Without(e) /\ v7' = v7
    <3> DEFINE d == e
    <3>1. \A n, k : n # v2.launch => [launch |-> n, step |-> k] # d
      OBVIOUS
    <3>2. v6' = Host!Without(d)
      BY <2>2
    <3> HIDE DEF d
    <3>3. CASE v6' = v6
      BY <1>2, <2>2, <3>3, Zenon DEF Host!InPlace
    <3>4. CASE \E at \in 1 .. Len(v6) :
                /\ v6[at] = d
                /\ v6' \in Seq(Host!Command) /\ Len(v6') = Len(v6) - 1
                /\ \A i \in 1 .. at - 1 : v6'[i] = v6[i]
                /\ \A i \in at .. Len(v6) - 1 : v6'[i] = v6[i + 1]
      <4>1. PICK at \in 1 .. Len(v6) :
                /\ v6[at] = d
                /\ v6' \in Seq(Host!Command) /\ Len(v6') = Len(v6) - 1
                /\ \A i \in 1 .. at - 1 : v6'[i] = v6[i]
                /\ \A i \in at .. Len(v6) - 1 : v6'[i] = v6[i + 1]
        BY <3>4, Zenon
      <4>2. ASSUME NEW n, NEW k, Host!InPlace(n, k), n # v2.launch
            PROVE  \E i \in 1 .. Len(v6') : v6'[i] = [launch |-> n, step |-> k]
        <5> DEFINE c == [launch |-> n, step |-> k]
        <5>1. c # d
          BY <3>1, <4>2
        <5>2. PICK i \in 1 .. Len(v6) : v6[i] = c
          BY <4>2 DEF Host!InPlace
        <5> HIDE DEF c
        <5>3. i # at /\ Len(v6) \in Nat /\ i \in Nat /\ at \in Nat
          BY <1>2, <4>1, <5>1, <5>2
        <5>4. CASE i < at
          <6>1. i \in 1 .. Len(v6') /\ v6'[i] = c
            BY <4>1, <5>2, <5>3, <5>4
          <6> QED BY <6>1 DEF c
        <5>5. CASE i > at
          <6>1. i - 1 \in at .. Len(v6) - 1 /\ i - 1 \in 1 .. Len(v6') /\ (i - 1) + 1 = i
            BY <4>1, <5>3, <5>5
          <6>2. v6'[i - 1] = c
            BY <4>1, <5>2, <6>1
          <6> QED BY <6>1, <6>2 DEF c
        <5> QED BY <5>3, <5>4, <5>5
      <4> QED BY <1>2, <2>2, <4>1, <4>2
    <3> QED BY <3>2, <3>3, <3>4, WithoutIs
  <2> QED BY <1>1, <2>1, <2>2
<1>6. Host!TypeOK'
  BY <1>1, <1>5, HostFacts DEF Host!TypeOK
<1>7. Host!LockOK'
  <2>1. v4[v2.launch].app = v2.app /\ ~ Host!JobLives(v2.launch)
    BY <1>1 DEF Host!HostInv, Host!LockOK
  <2>2. ~ Host!JobLives(v2.launch)'
    BY <1>1, <1>3, <2>1 DEF Host!JobLives
  <2>3. v4'[v2'.launch].app = v2'.app /\ v2'.doing = "undo" /\ v1' = Host!Nothing
    BY <1>1, <1>2, <1>3, <2>1
  <2>4. v2' \in Host!UndoHeld'
    BY <1>1, <1>3 DEF Host!UndoHeld
  <2> QED BY <2>2, <2>3, <2>4 DEF Host!LockOK, Host!Nothing
<1>8. Host!PreparedSoFar'
  BY <1>1, <1>3 DEF Host!PreparedSoFar
<1>9. Host!PrepOutlivesTheLauncher'
  <2>1. ~ Host!JobLives(v2.launch)
    BY <1>1 DEF Host!HostInv, Host!LockOK
  <2>2. \A n \in 1 .. v5' : Host!JobLives(n)' =>
           n \in 1 .. v5 /\ Host!JobLives(n) /\ v4'[n].app = v4[n].app
    BY <1>1 DEF Host!JobLives
  <2>3. \A n \in 1 .. v5' : Host!JobLives(n)' =>
           \A k \in Nat : Host!InPlace(n, k) => Host!InPlace(n, k)'
    BY <1>5, <2>1, <2>2 DEF Host!InPlace
  <2> QED BY <2>2, <2>3, PrepStays
<1>10. Host!SoMany' /\ Host!PrepIsAStack'
  <2>1. /\ Host!Owner = v2.launch /\ Host!HowMany = v2.step
        /\ Host!Owner' = v2.launch /\ Host!HowMany' = v2.step - 1
    <3>1. /\ v1' = Host!Nothing /\ v2'.doing = "undo" /\ v2'.launch = v2.launch
          /\ v2'.step = v2.step - 1
      BY <1>1, <1>2, <1>3
    <3> QED BY <1>1, <1>2, <3>1, OwnerIs, OwnerWillBe
  <2>2. ASSUME v7' = 0, v8' = 0
        PROVE  /\ Len(v6') = v2.step - 1
               /\ v6' = [i \in 1 .. Len(v6') |-> [launch |-> v2.launch, step |-> i]]
    <3>1. v6' = Host!Without(e) /\ v7 = 0 /\ v8 = 0
      BY <1>1, <1>2, <2>2
    <3>2. /\ Len(v6) = v2.step
          /\ v6 = [i \in 1 .. Len(v6) |-> [launch |-> v2.launch, step |-> i]]
      BY <2>1, <3>1 DEF Host!HostInv, Host!SoMany, Host!PrepIsAStack
    <3>3. \A i \in 1 .. Len(v6) : (v6[i] = e) <=> (i = v2.step)
      BY <3>2
    <3>4. v2.step \in 1 .. Len(v6)
      BY <1>1, <1>4, <3>2
    <3> DEFINE d == e
    <3>5. v6' = Host!Without(d) /\ v6[v2.step] = d /\
            \A i \in 1 .. Len(v6) : v6[i] = d => i = v2.step
      BY <3>1, <3>3, <3>4
    <3> HIDE DEF d
    <3>6. PICK at \in 1 .. Len(v6) :
                /\ v6[at] = d
                /\ v6' \in Seq(Host!Command) /\ Len(v6') = Len(v6) - 1
                /\ \A i \in 1 .. at - 1 : v6'[i] = v6[i]
      BY <3>4, <3>5, WithoutIs
    <3>7. at = v2.step /\ Len(v6') = v2.step - 1 /\ v6' \in Seq(Host!Command)
      BY <3>2, <3>5, <3>6
    <3>8. \A i \in 1 .. v2.step - 1 : v6'[i] = [launch |-> v2.launch, step |-> i]
      <4>1. \A i \in 1 .. v2.step - 1 : i \in 1 .. Len(v6) /\ v6'[i] = v6[i]
        BY <1>4, <3>2, <3>6, <3>7
      <4> QED BY <3>2, <4>1
    <3>9. Len(v6') \in Nat /\ v6' = [i \in 1 .. Len(v6') |-> v6'[i]]
      BY <3>7
    <3> QED BY <3>7, <3>8, <3>9, Zenon
  <2>3. v2.launch # 0
    BY <1>4
  <2> QED BY <2>1, <2>2, <2>3 DEF Host!SoMany, Host!PrepIsAStack
<1> QED BY <1>6, <1>7, <1>8, <1>9, <1>10 DEF Host!HostInv

LEMMA UndoDoneKeeps == ASSUME Host!HostInv, Host!UndoDone PROVE Host!HostInv'
<1>1. /\ v2.doing = "undo" /\ v2.step = 0 /\ UNCHANGED <<v1, v3, v4, v5, v6, v7, v8>>
      /\ v2' = IF v2.next = Host!NoApp THEN Host!Free ELSE Host!DoPrep(v2.next)
  BY DEF Host!UndoDone
<1>2. v1 = Host!Nothing /\ v2 \in Host!UndoHeld /\ v3' \in [Worker -> HostApp \cup {Host!NoApp}]
  BY <1>1, HostFacts
<1>3. Host!HowMany = 0
  BY <1>1, <1>2, OwnerIs
<1>4. CASE v2.next = Host!NoApp
  BY <1>1, <1>2, <1>3, <1>4, LockFreed
<1>5. CASE v2.next # Host!NoApp
  <2> DEFINE app == v2.next
  <2>1. app \in HostApp /\ v2' = Host!DoPrep(app)
    BY <1>1, <1>2, <1>5 DEF Host!UndoHeld
  <2> HIDE DEF app
  <2> QED BY <1>1, <1>2, <1>3, <2>1, PrepBegins
<1> QED BY <1>4, <1>5

\* Processes come and go; a job that is dead stays dead.
LEMMA MachineKeeps == ASSUME Host!HostInv, Host!Machine PROVE Host!HostInv'
<1>1. UNCHANGED <<v1, v2, v3, v5, v6, v7, v8>>
  BY DEF Host!Machine
<1>2. PICK n \in 1 .. v5 : Host!GameStarts(n) \/ Host!GameExits(n) \/ Host!LauncherExits(n)
  BY DEF Host!Machine
<1>3. /\ v4 \in Seq(Host!Process) /\ Len(v4) = v5 /\ v5 \in Nat /\ v4[n] \in Host!Process
      /\ v3' \in [Worker -> HostApp \cup {Host!NoApp}]
  BY <1>1, HostFacts
<1>4. \E p \in Host!Process :
        /\ v4' = [v4 EXCEPT ![n] = p] /\ p.app = v4[n].app /\ p.joined = v4[n].joined
        /\ (Host!Tracking(p.app) = "job" /\ (p.launcher \/ (p.game /\ p.inJob)))
             => (v4[n].launcher \/ (v4[n].game /\ v4[n].inJob))
  <2>1. CASE Host!GameStarts(n)
    <3>1. PICK inJob \in BOOLEAN :
            /\ ~inJob => v4[n].app \in Uri \cup Waits
            /\ v4' = [v4 EXCEPT ![n].game = TRUE, ![n].inJob = inJob,
                                      ![n].since = v5, ![n].starts = @ + 1]
      BY <2>1, Zenon DEF Host!GameStarts
    <3>2. v4[n].launcher \/ v4[n].app \in Uri
      BY <2>1 DEF Host!GameStarts
    <3> DEFINE p == [v4[n] EXCEPT !.game = TRUE, !.inJob = inJob, !.since = v5, !.starts = @ + 1]
    <3>3. v4' = [v4 EXCEPT ![n] = p]
      BY <1>3, <3>1, Zenon
    <3>4. /\ p \in Host!Process /\ p.app = v4[n].app /\ p.joined = v4[n].joined
          /\ p.launcher = v4[n].launcher
      <4>1. inJob \in BOOLEAN /\ v5 \in Nat /\ v4[n].starts + 1 \in Nat
        BY <1>3, <3>1 DEF Host!Process
      <4> QED BY <1>3, <4>1, Zenon DEF Host!Process
    <3>5. Host!Tracking(p.app) = "job" => p.app \notin Uri
      BY DEF Host!Tracking
    <3> HIDE DEF p
    <3> QED BY <3>2, <3>3, <3>4, <3>5, Zenon
  <2>2. CASE Host!GameExits(n)
    <3> DEFINE p == [v4[n] EXCEPT !.game = FALSE]
    <3>1. v4' = [v4 EXCEPT ![n] = p]
      BY <1>3, <2>2 DEF Host!GameExits
    <3>2. /\ p \in Host!Process /\ p.app = v4[n].app /\ p.joined = v4[n].joined
          /\ p.launcher = v4[n].launcher /\ ~ p.game
      BY <1>3, Zenon DEF Host!Process
    <3> HIDE DEF p
    <3> QED BY <3>1, <3>2, Zenon
  <2>3. CASE Host!LauncherExits(n)
    <3> DEFINE p == [v4[n] EXCEPT !.launcher = FALSE]
    <3>1. v4' = [v4 EXCEPT ![n] = p]
      BY <1>3, <2>3 DEF Host!LauncherExits
    <3>2. /\ p \in Host!Process /\ p.app = v4[n].app /\ p.joined = v4[n].joined
          /\ ~ p.launcher /\ p.game = v4[n].game /\ p.inJob = v4[n].inJob
      BY <1>3, Zenon DEF Host!Process
    <3> HIDE DEF p
    <3> QED BY <3>1, <3>2, Zenon
  <2> QED BY <1>2, <2>1, <2>2, <2>3
<1>5. PICK p \in Host!Process :
        /\ v4' = [v4 EXCEPT ![n] = p] /\ p.app = v4[n].app /\ p.joined = v4[n].joined
        /\ (Host!Tracking(p.app) = "job" /\ (p.launcher \/ (p.game /\ p.inJob)))
             => (v4[n].launcher \/ (v4[n].game /\ v4[n].inJob))
  BY <1>4, Zenon
<1>6. /\ v4' \in Seq(Host!Process) /\ Len(v4') = v5 /\ v4'[n] = p
      /\ \A m \in 1 .. v5 : m # n => v4'[m] = v4[m]
  <2> HIDE DEF Host!Process
  <2> QED BY <1>3, <1>5
<1>7. \A m \in 1 .. v5 : v4'[m].app = v4[m].app /\ (Host!JobLives(m)' => Host!JobLives(m))
  BY <1>5, <1>6 DEF Host!JobLives
<1>8. Host!LockOK'
  <2>1. v1 # Host!Nothing => v1.launch \in 1 .. v5
    BY HostFacts, Zenon DEF Host!Tracked
  <2>2. v2.doing = "undo" => v2.launch \in 1 .. v5
    BY HostFacts DEF Host!UndoHeld
  <2>3. Host!LockOK
    BY DEF Host!HostInv
  <2>4. v2.doing = "undo" => ~ Host!JobLives(v2.launch)'
    <3>1. v2.doing = "undo" => ~ Host!JobLives(v2.launch)
      BY <2>3 DEF Host!LockOK
    <3> QED BY <1>1, <1>7, <2>2, <3>1 DEF Host!JobLives
  <2> QED BY <1>1, <1>7, <2>1, <2>2, <2>3, <2>4, Zenon
     DEF Host!LockOK, Host!UndoHeld, Host!Tracked, Host!Nothing, Host!Free
<1>9. Host!PreparedSoFar'
  BY <1>1 DEF Host!HostInv, Host!PreparedSoFar, Host!InPlace, Host!Preparing
<1>10. Host!HowMany' = Host!HowMany /\ Host!Owner' = Host!Owner
  BY <1>1 DEF Host!HowMany, Host!Owner, Host!Preparing, Host!Nothing
<1>11. Host!Owner' = 0 => Host!HowMany = 0
  BY <1>10, OwnerOfNone
<1> QED BY <1>1, <1>3, <1>6, <1>7, <1>8, <1>9, <1>10, <1>11, HostStays

LEMMA TimePassesKeeps == ASSUME Host!HostInv, Host!TimePasses PROVE Host!HostInv'
<1>1. UNCHANGED <<v2, v3, v4, v5, v6, v7, v8>> /\ v1 # Host!Nothing
  BY Zenon DEF Host!TimePasses
<1>2. v1 \in Host!Tracked
  BY <1>1, HostFacts
<1>3. v1' \in Host!Tracked /\ v1'.launch = v1.launch /\ v1'.app = v1.app
  BY <1>2, Zenon DEF Host!TimePasses, Host!Tracked
<1>4. v1.launch \in 1 .. v5
  BY <1>2, Zenon DEF Host!Tracked
<1>5. /\ v4' \in Seq(Host!Process) /\ Len(v4') = v5 /\ v2 = Host!Free /\ v2.doing = "nothing"
      /\ v3' \in [Worker -> HostApp \cup {Host!NoApp}]
      /\ \A n \in 1 .. v5 : v4'[n].app = v4[n].app /\ (Host!JobLives(n)' => Host!JobLives(n))
  BY <1>1, HostFacts DEF Host!JobLives
<1>6. v1' # Host!Nothing
  BY <1>3, <1>4 DEF Host!Nothing
<1>7. Host!LockOK' /\ Host!PreparedSoFar'
  <2>1. v4[v1.launch].app = v1.app
    BY <1>1 DEF Host!HostInv, Host!LockOK
  <2> QED BY <1>1, <1>3, <1>5, <2>1, Zenon
     DEF Host!LockOK, Host!PreparedSoFar, Host!Tracked, Host!Free
<1>8. Host!HowMany' = Host!HowMany /\ Host!Owner' = Host!Owner /\ Host!Owner # 0
  BY <1>1, <1>3, <1>4, <1>6, OwnerIs, OwnerWillBe
<1> QED BY <1>1, <1>5, <1>7, <1>8, HostStays

LEMMA HostStarts == ASSUME Host!Init PROVE Host!HostInv
<1>1. /\ v1 = Host!Nothing /\ v2 = Host!Free /\ v3 = [c \in Worker |-> Host!NoApp]
      /\ v4 = <<>> /\ v5 = 0 /\ v6 = <<>> /\ v7 = 0 /\ v8 = 0
  BY DEF Host!Init
<1>2. v2.doing = "nothing"
  BY <1>1 DEF Host!Free
<1>3. Host!TypeOK
  BY <1>1 DEF Host!TypeOK
<1>4. Host!LockOK /\ Host!PreparedSoFar
  BY <1>1, <1>2 DEF Host!LockOK, Host!PreparedSoFar
<1>5. Host!Owner = 0 /\ Host!HowMany = 0
  BY <1>1, <1>2, OwnerIs
<1>6. Host!SoMany /\ Host!PrepIsAStack
  BY <1>1, <1>5 DEF Host!SoMany, Host!PrepIsAStack
<1>7. Host!PrepOutlivesTheLauncher
  BY <1>1 DEF Host!PrepOutlivesTheLauncher
<1> QED BY <1>3, <1>4, <1>6, <1>7 DEF Host!HostInv

LEMMA HostStep == ASSUME Host!HostInv, Host!Next PROVE Host!HostInv'
BY ReapKeeps, TerminateKeeps, PrepStepKeeps, LaunchFailsKeeps, SpawnKeeps, UndoStepKeeps,
   UndoDoneKeeps, MachineKeeps, TimePassesKeeps, HostRestartKeeps, LaunchLocksKeeps,
   LaunchLooksKeeps
DEF Host!Next

-----------------------------------------------------------------------------
(* The stream and the desktop.  v1 desktop, v2 active, v3 stopping,        *)
(* v9 found, v10 lost; v6 nextId.                                          *)

\* A value a setting may be left with, when f is what was found.
FitFor(s, value, f) == value = f[s] \/ (s = "vdd" /\ ~value)

\* The desktop d once the guards in left are dropped is as was found, but for lost.
ToUndo(d, f, gone, guards, left) ==
    \A s \in Stream!Setting \ gone :
        IF Stream!GuardOf(s) \in left /\ s \in DOMAIN guards[Stream!GuardOf(s)]
          THEN FitFor(s, guards[Stream!GuardOf(s)][s], f) /\ (s = "virtualHdr" => d["vdd"])
          ELSE FitFor(s, d[s], f)

AllGuards == {"display", "vdd", "epp"}

\* The guards that stop_active has still to drop.
LeftAt(k) == CASE k = 0 -> {"display", "vdd", "epp"} [] k = 1 -> {"vdd", "epp"}
               [] k = 2 -> {"epp"} [] OTHER -> {}

LEMMA TurnIs ==
    \A s \in Stream!Setting : \A k \in 0 .. 3 :
        Stream!Turn(s) > k <=> Stream!GuardOf(s) \in LeftAt(k)
<1>1. /\ Stream!FieldOrder = <<"display", "vdd", "epp">> /\ Len(Stream!FieldOrder) = 3
      /\ Stream!FieldOrder[1] = "display" /\ Stream!FieldOrder[2] = "vdd"
      /\ Stream!FieldOrder[3] = "epp"
  BY DEF Stream!FieldOrder
<1>2. \A s \in Stream!Setting : Stream!GuardOf(s) \in AllGuards
  BY DEF Stream!GuardOf, Stream!Setting, AllGuards
<1>3. ASSUME NEW s \in Stream!Setting
      PROVE  /\ Stream!GuardOf(s) = "display" => Stream!Turn(s) = 1
             /\ Stream!GuardOf(s) = "vdd" => Stream!Turn(s) = 2
             /\ Stream!GuardOf(s) = "epp" => Stream!Turn(s) = 3
  <2> DEFINE P(k) == Stream!FieldOrder[k] = Stream!GuardOf(s)
  <2>1. Stream!Turn(s) = CHOOSE k \in 1 .. 3 : P(k)
    BY <1>1 DEF Stream!Turn
  <2>2. \E k \in 1 .. 3 : P(k)
    BY <1>1, <1>2 DEF AllGuards
  <2>3. Stream!Turn(s) \in 1 .. 3 /\ P(Stream!Turn(s))
    <3> HIDE DEF P
    <3> QED BY <2>1, <2>2
  <2> QED BY <1>1, <2>3
<1> QED BY <1>2, <1>3 DEF LeftAt, AllGuards

LEMMA GuardsFacts ==
    ASSUME NEW g \in Stream!Guards
    PROVE  /\ DOMAIN g["display"] \subseteq {"hdr", "virtualHdr", "mode"}
           /\ DOMAIN g["vdd"] \subseteq {"vdd"} /\ DOMAIN g["epp"] \subseteq {"accel", "speed"}
           /\ \A x \in AllGuards : \A s \in DOMAIN g[x] : g[x][s] \in BOOLEAN
<1>1. PICK ss \in SUBSET {"hdr", "virtualHdr", "mode"} : g["display"] \in [ss -> BOOLEAN]
  BY DEF Stream!Guards
<1>2. PICK sv \in SUBSET {"vdd"} : g["vdd"] \in [sv -> BOOLEAN]
  BY DEF Stream!Guards
<1>3. PICK se \in SUBSET {"accel", "speed"} : g["epp"] \in [se -> BOOLEAN]
  BY DEF Stream!Guards
<1>4. \A s \in DOMAIN g["display"] : g["display"][s] \in BOOLEAN
  BY <1>1, Zenon
<1>5. \A s \in DOMAIN g["vdd"] : g["vdd"][s] \in BOOLEAN
  BY <1>2, Zenon
<1>6. \A s \in DOMAIN g["epp"] : g["epp"][s] \in BOOLEAN
  BY <1>3, Zenon
<1> QED BY <1>1, <1>2, <1>3, <1>4, <1>5, <1>6, Zenon DEF AllGuards

\* What the invariant says of the guards, before and after a step.
LEMMA DesktopIs ==
    ASSUME Stream!DesktopInv
    PROVE  /\ v1 \in [Stream!Setting -> BOOLEAN] /\ v9 \in [Stream!Setting -> BOOLEAN]
           /\ v6 \in Nat \ {0}
           /\ v2 = Stream!Nothing \/ v3 = Stream!Nothing
           /\ v2 # Stream!Nothing =>
                /\ v2 \in [id : Nat \ {0}, guards : Stream!Guards, finished : BOOLEAN]
                /\ ToUndo(v1, v9, v10, v2.guards, AllGuards)
           /\ v3 # Stream!Nothing =>
                /\ v3 \in [id : Nat \ {0}, guards : Stream!Guards, dropped : 0 .. 3]
                /\ ToUndo(v1, v9, v10, v3.guards, LeftAt(v3.dropped))
           /\ v2 = Stream!Nothing /\ v3 = Stream!Nothing =>
                \A guards : ToUndo(v1, v9, v10, guards, {})
<1>1. \A guards, k : k \in 0 .. 3 /\ Stream!WillBeFound(guards, k)
                        => ToUndo(v1, v9, v10, guards, LeftAt(k))
  BY TurnIs DEF Stream!WillBeFound, ToUndo, Stream!AsFound, FitFor
<1>2. LeftAt(0) = AllGuards
  BY DEF LeftAt, AllGuards
<1>3. v2 # Stream!Nothing => ToUndo(v1, v9, v10, v2.guards, AllGuards)
  BY <1>1, <1>2 DEF Stream!DesktopInv
<1>4. v3 # Stream!Nothing =>
        /\ v3 \in [id : Nat \ {0}, guards : Stream!Guards, dropped : 0 .. 3]
        /\ Stream!WillBeFound(v3.guards, v3.dropped)
  BY DEF Stream!DesktopInv
<1>5. v3 # Stream!Nothing => ToUndo(v1, v9, v10, v3.guards, LeftAt(v3.dropped))
  BY <1>1, <1>4
<1>6. v2 = Stream!Nothing /\ v3 = Stream!Nothing =>
        \A guards : ToUndo(v1, v9, v10, guards, {})
  BY DEF Stream!DesktopInv, Stream!DesktopAsFound, ToUndo, Stream!AsFound, FitFor
<1> QED BY <1>3, <1>4, <1>5, <1>6 DEF Stream!DesktopInv

LEMMA DesktopWillBe ==
    ASSUME v1' \in [Stream!Setting -> BOOLEAN], v9' \in [Stream!Setting -> BOOLEAN],
           v6' \in Nat \ {0},
           v2' = Stream!Nothing \/ v3' = Stream!Nothing,
           v2' # Stream!Nothing =>
                /\ v2' \in [id : Nat \ {0}, guards : Stream!Guards, finished : BOOLEAN]
                /\ ToUndo(v1', v9', v10', v2'.guards, AllGuards),
           v3' # Stream!Nothing =>
                /\ v3' \in [id : Nat \ {0}, guards : Stream!Guards, dropped : 0 .. 3]
                /\ ToUndo(v1', v9', v10', v3'.guards, LeftAt(v3'.dropped)),
           v2' = Stream!Nothing /\ v3' = Stream!Nothing =>
                \E guards : ToUndo(v1', v9', v10', guards, {})
    PROVE  Stream!DesktopInv'
<1>1. \A guards, k : k \in 0 .. 3 /\ ToUndo(v1', v9', v10', guards, LeftAt(k))
                        => Stream!WillBeFound(guards, k)'
  BY TurnIs DEF Stream!WillBeFound, ToUndo, Stream!AsFound, FitFor
<1>2. LeftAt(0) = AllGuards
  BY DEF LeftAt, AllGuards
<1>3. v2' # Stream!Nothing => Stream!WillBeFound(v2.guards, 0)'
  <2>1. v2' # Stream!Nothing => \A guards : guards = v2'.guards => Stream!WillBeFound(guards, 0)'
    BY <1>1, <1>2
  <2> QED BY <2>1 DEF Stream!WillBeFound
<1>4. v3' # Stream!Nothing => Stream!WillBeFound(v3.guards, v3.dropped)'
  <2>1. v3' # Stream!Nothing =>
          \A guards, k : guards = v3'.guards /\ k = v3'.dropped => Stream!WillBeFound(guards, k)'
    BY <1>1
  <2> QED BY <2>1 DEF Stream!WillBeFound
<1>5. Stream!DesktopAsFound'
  BY DEF Stream!DesktopAsFound, ToUndo, Stream!AsFound, FitFor, Stream!Nothing
<1> QED BY <1>3, <1>4, <1>5 DEF Stream!DesktopInv, Stream!Nothing, Stream!Guards, Stream!Setting

\* A guard is dropped, that of the virtual display after what is set on it.
LEMMA DropKeeps ==
    ASSUME NEW d \in [Stream!Setting -> BOOLEAN], NEW f, NEW gone, NEW guards \in Stream!Guards,
           NEW left \in SUBSET AllGuards, NEW g \in left, ToUndo(d, f, gone, guards, left),
           g = "vdd" => "display" \notin left
    PROVE  /\ ToUndo(Stream!PutBack(d, guards[g]), f, gone, guards, left \ {g})
           /\ Stream!PutBack(d, guards[g]) \in [Stream!Setting -> BOOLEAN]
<1> DEFINE e == Stream!PutBack(d, guards[g])
<1>1. /\ DOMAIN guards["display"] \subseteq {"hdr", "virtualHdr", "mode"}
      /\ DOMAIN guards["vdd"] \subseteq {"vdd"} /\ DOMAIN guards["epp"] \subseteq {"accel", "speed"}
      /\ \A x \in AllGuards : \A s \in DOMAIN guards[x] : guards[x][s] \in BOOLEAN
  BY GuardsFacts
<1>2. g \in AllGuards
  OBVIOUS
<1>3. /\ e = [s \in Stream!Setting |->
                IF s \in DOMAIN guards[g] /\ (s = "virtualHdr" => d["vdd"])
                  THEN guards[g][s] ELSE d[s]]
      /\ \A s \in Stream!Setting : e[s] =
            IF s \in DOMAIN guards[g] /\ (s = "virtualHdr" => d["vdd"]) THEN guards[g][s] ELSE d[s]
  BY DEF Stream!PutBack
<1>4. e \in [Stream!Setting -> BOOLEAN]
  BY <1>1, <1>2, <1>3
<1>5. ASSUME NEW s \in Stream!Setting \ gone
      PROVE  IF Stream!GuardOf(s) \in left \ {g} /\ s \in DOMAIN guards[Stream!GuardOf(s)]
               THEN FitFor(s, guards[Stream!GuardOf(s)][s], f) /\ (s = "virtualHdr" => e["vdd"])
               ELSE FitFor(s, e[s], f)
  <2>1. IF Stream!GuardOf(s) \in left /\ s \in DOMAIN guards[Stream!GuardOf(s)]
          THEN FitFor(s, guards[Stream!GuardOf(s)][s], f) /\ (s = "virtualHdr" => d["vdd"])
          ELSE FitFor(s, d[s], f)
    BY DEF ToUndo
  <2>2. s \in DOMAIN guards[g] => Stream!GuardOf(s) = g
    BY <1>1, <1>2 DEF AllGuards, Stream!GuardOf
  <2>3. Stream!GuardOf(s) = g /\ s \in DOMAIN guards[g] =>
          FitFor(s, guards[g][s], f) /\ e[s] = guards[g][s]
    BY <1>3, <2>1
  <2>4. s \notin DOMAIN guards[g] => e[s] = d[s]
    BY <1>3
  <2>5. s = "virtualHdr" /\ Stream!GuardOf(s) \in left \ {g} => e["vdd"] = d["vdd"]
    <3>1. s = "virtualHdr" => Stream!GuardOf(s) = "display"
      BY DEF Stream!GuardOf
    <3>2. "vdd" \in Stream!Setting
      BY DEF Stream!Setting
    <3>3. s = "virtualHdr" /\ Stream!GuardOf(s) \in left \ {g} => g = "epp"
      BY <1>2, <3>1 DEF AllGuards
    <3>4. "vdd" \notin DOMAIN guards["epp"]
      BY <1>1
    <3> QED BY <1>3, <3>2, <3>3, <3>4
  <2>6. CASE Stream!GuardOf(s) = g
    <3>1. CASE s \in DOMAIN guards[g]
      BY <2>3, <2>6, <3>1
    <3>2. CASE s \notin DOMAIN guards[g]
      BY <2>1, <2>4, <2>6, <3>2
    <3> QED BY <3>1, <3>2
  <2>7. CASE Stream!GuardOf(s) # g
    <3>1. e[s] = d[s]
      BY <2>2, <2>4, <2>7
    <3> QED BY <2>1, <2>5, <2>7, <3>1
  <2> QED BY <2>6, <2>7
<1> HIDE DEF e
<1> QED BY <1>4, <1>5 DEF ToUndo, e

\* VirtualDisplay's guard: what it puts back is that there was none.
VddGuard(virtual) == IF virtual THEN [s \in {"vdd"} |-> FALSE] ELSE <<>>

\* The desktop with the virtual display, and the guards of a start.
WithVdd(d, virtual) == IF virtual THEN Stream!Changed(d, {"vdd"}) ELSE d
GuardsOf(d, kept, virtual, pointer) ==
    [display |-> Stream!Snapshot(d, kept), vdd |-> VddGuard(virtual),
     epp |-> Stream!Snapshot(d, pointer)]

\* What a start changes in d, of which pointer and kept are undone by guards: done
\* is what took effect of HDR and the mode, gone what is excepted.
StartOf(d, f, gone, virtual, pointer, done, kept, both) ==
    /\ d \in [Stream!Setting -> BOOLEAN] /\ virtual \in BOOLEAN
    /\ pointer \subseteq {"accel", "speed"}
    /\ done \subseteq {"hdr", "virtualHdr", "mode"}
    /\ kept \subseteq done /\ done \ kept \subseteq gone
    /\ "virtualHdr" \in done => virtual \/ d["vdd"]
    /\ \A s \in Stream!Setting \ gone : FitFor(s, d[s], f)
    /\ \A s : s \in both <=> s \in done \/ s \in pointer

\* A start's changes, and the guards that hold what was there before.
LEMMA SetUpKeeps ==
    ASSUME NEW d, NEW f, NEW gone, NEW virtual, NEW pointer, NEW done, NEW kept, NEW both,
           StartOf(d, f, gone, virtual, pointer, done, kept, both),
           NEW withVdd, withVdd = WithVdd(d, virtual),
           NEW guards, guards = GuardsOf(withVdd, kept, virtual, pointer)
    PROVE  /\ guards \in Stream!Guards
           /\ Stream!Changed(withVdd, both) \in [Stream!Setting -> BOOLEAN]
           /\ ToUndo(Stream!Changed(withVdd, both), f, gone, guards, AllGuards)
<1>0. /\ d \in [Stream!Setting -> BOOLEAN] /\ virtual \in BOOLEAN
      /\ pointer \subseteq {"accel", "speed"}
      /\ done \subseteq {"hdr", "virtualHdr", "mode"}
      /\ kept \subseteq done /\ done \ kept \subseteq gone
      /\ "virtualHdr" \in done => virtual \/ d["vdd"]
      /\ \A s \in Stream!Setting \ gone : FitFor(s, d[s], f)
      /\ \A s : s \in both <=> s \in done \/ s \in pointer
  BY DEF StartOf
<1> USE <1>0
<1> DEFINE e == Stream!Changed(withVdd, both)
           none == [s \in {"vdd"} |-> FALSE]
<1>1. /\ withVdd \in [Stream!Setting -> BOOLEAN]
      /\ \A s \in Stream!Setting : s # "vdd" => withVdd[s] = d[s]
      /\ withVdd["vdd"] = (virtual \/ d["vdd"])
      /\ ~virtual => withVdd = d
  <2>1. "vdd" \in Stream!Setting
    BY DEF Stream!Setting
  <2>2. CASE virtual
    <3>1. withVdd = [s \in Stream!Setting |-> s \in {"vdd"} \/ d[s]]
      BY <2>2 DEF Stream!Changed, WithVdd
    <3> QED BY <2>1, <2>2, <3>1, Zenon
  <2>3. CASE ~virtual
    BY <2>1, <2>3 DEF WithVdd
  <2> QED BY <2>2, <2>3
<1>2. e = [s \in Stream!Setting |-> s \in both \/ withVdd[s]]
  BY DEF Stream!Changed
<1>3. /\ e \in [Stream!Setting -> BOOLEAN]
      /\ \A s \in Stream!Setting : s \notin both => e[s] = withVdd[s]
      /\ \A s \in Stream!Setting : s \in both => e[s] = TRUE
  <2>1. \A s \in Stream!Setting : withVdd[s] \in BOOLEAN
    BY <1>1
  <2>2. e = [s \in Stream!Setting |-> s \in both \/ withVdd[s]]
    BY <1>2
  <2> HIDE DEF e
  <2>3. \A s \in Stream!Setting : e[s] = (s \in both \/ withVdd[s])
    BY <2>2
  <2>4. \A s \in Stream!Setting : /\ e[s] \in BOOLEAN
                                  /\ s \notin both => e[s] = withVdd[s]
                                  /\ s \in both => e[s] = TRUE
    BY <2>1, <2>3, Zenon
  <2>5. e \in [Stream!Setting -> BOOLEAN]
    BY <2>2, <2>4
  <2>6. \A s \in Stream!Setting : s \notin both => e[s] = withVdd[s]
    BY <2>4
  <2>7. \A s \in Stream!Setting : s \in both => e[s] = TRUE
    BY <2>4
  <2> QED BY <2>5, <2>6, <2>7
<1>4. both \subseteq Stream!Setting /\ "vdd" \notin both
  <2>1. \A s \in both : s \in {"hdr", "virtualHdr", "mode"} \/ s \in {"accel", "speed"}
    BY Zenon
  <2> QED BY <2>1 DEF Stream!Setting
<1>5. /\ DOMAIN <<>> = {} /\ <<>> \in [{} -> BOOLEAN]
  BY NobodyWaits, Zenon
<1>6. /\ guards["display"] = [s \in kept |-> withVdd[s]]
      /\ guards["vdd"] = IF virtual THEN none ELSE <<>>
      /\ guards["epp"] = [s \in pointer |-> withVdd[s]]
  BY DEF Stream!Snapshot, VddGuard, GuardsOf
<1>7. guards \in Stream!Guards
  <2>1. [s \in kept |-> withVdd[s]] \in [kept -> BOOLEAN]
    BY <1>1, <1>4
  <2>2. [s \in pointer |-> withVdd[s]] \in [pointer -> BOOLEAN]
    BY <1>1, <1>4
  <2>3. none \in [{"vdd"} -> BOOLEAN]
    OBVIOUS
  <2> DEFINE a == [s \in kept |-> withVdd[s]]
             b == [s \in pointer |-> withVdd[s]]
             c == IF virtual THEN none ELSE <<>>
             A == UNION {[ss -> BOOLEAN] : ss \in SUBSET {"hdr", "virtualHdr", "mode"}}
             B == UNION {[ss -> BOOLEAN] : ss \in SUBSET {"vdd"}}
             C == UNION {[ss -> BOOLEAN] : ss \in SUBSET {"accel", "speed"}}
  <2>4. a \in A
    <3>1. kept \in SUBSET {"hdr", "virtualHdr", "mode"}
      OBVIOUS
    <3> HIDE DEF a
    <3> QED BY <2>1, <3>1 DEF a
  <2>5. b \in C
    <3> HIDE DEF b
    <3> QED BY <2>2 DEF b
  <2>6. c \in B
    <3>1. {} \in SUBSET {"vdd"} /\ {"vdd"} \in SUBSET {"vdd"}
      OBVIOUS
    <3> HIDE DEF none
    <3> QED BY <1>5, <2>3, <3>1, Zenon
  <2>7. guards = [display |-> a, vdd |-> c, epp |-> b]
    BY DEF Stream!Snapshot, VddGuard, GuardsOf
  <2>8. Stream!Guards = [display : A, vdd : B, epp : C]
    BY DEF Stream!Guards
  <2> HIDE DEF a, b, c, A, B, C
  <2>9. [display |-> a, vdd |-> c, epp |-> b] \in [display : A, vdd : B, epp : C]
    BY <2>4, <2>5, <2>6
  <2> QED BY <2>7, <2>8, <2>9
<1>8. ASSUME NEW s \in Stream!Setting \ gone
      PROVE  IF Stream!GuardOf(s) \in AllGuards /\ s \in DOMAIN guards[Stream!GuardOf(s)]
               THEN FitFor(s, guards[Stream!GuardOf(s)][s], f) /\ (s = "virtualHdr" => e["vdd"])
               ELSE FitFor(s, e[s], f)
  <2>1. FitFor(s, d[s], f)
    OBVIOUS
  <2>2. CASE s \in {"hdr", "virtualHdr", "mode"}
    <3>1. Stream!GuardOf(s) = "display" /\ withVdd[s] = d[s] /\ s \notin pointer
      BY <1>1, <2>2 DEF Stream!GuardOf
    <3>2. CASE s \in kept
      <4>1. s \in DOMAIN guards["display"] /\ guards["display"][s] = d[s]
        BY <1>6, <3>1, <3>2
      <4>2. s = "virtualHdr" => e["vdd"]
        <5>1. s = "virtualHdr" => virtual \/ d["vdd"]
          BY <3>2
        <5>2. "vdd" \in Stream!Setting
          BY DEF Stream!Setting
        <5> HIDE DEF e
        <5> QED BY <1>1, <1>3, <1>4, <5>1, <5>2
      <4> QED BY <2>1, <3>1, <4>1, <4>2 DEF AllGuards
    <3>3. CASE s \notin kept
      <4>1. s \notin done
        BY <3>3, Zenon
      <4>2. e[s] = d[s] /\ s \notin DOMAIN guards["display"]
        BY <1>3, <1>6, <3>1, <3>3, <4>1
      <4> QED BY <2>1, <3>1, <4>2
    <3> QED BY <3>2, <3>3
  <2>3. CASE s = "vdd"
    <3>1. Stream!GuardOf(s) = "vdd" /\ e[s] = withVdd[s]
      BY <1>3, <1>4, <2>3 DEF Stream!GuardOf
    <3>2. CASE virtual
      <4>1. guards["vdd"] = none
        BY <1>6, <3>2
      <4>2. "vdd" \in DOMAIN none /\ none["vdd"] = FALSE
        OBVIOUS
      <4> QED BY <2>3, <3>1, <4>1, <4>2 DEF AllGuards, FitFor
    <3>3. CASE ~virtual
      BY <1>1, <1>5, <1>6, <2>1, <2>3, <3>1, <3>3
    <3> QED BY <3>2, <3>3
  <2>4. CASE s \in {"accel", "speed"}
    <3>1. Stream!GuardOf(s) = "epp" /\ withVdd[s] = d[s] /\ s \notin done /\ s # "virtualHdr"
      BY <1>1, <2>4 DEF Stream!GuardOf
    <3>2. CASE s \in pointer
      <4>1. s \in DOMAIN guards["epp"] /\ guards["epp"][s] = d[s]
        BY <1>6, <3>1, <3>2
      <4> QED BY <2>1, <3>1, <4>1 DEF AllGuards
    <3>3. CASE s \notin pointer
      <4>1. e[s] = d[s] /\ s \notin DOMAIN guards["epp"]
        BY <1>3, <1>6, <3>1, <3>3
      <4> QED BY <2>1, <3>1, <4>1
    <3> QED BY <3>2, <3>3
  <2> QED BY <2>2, <2>3, <2>4 DEF Stream!Setting
<1> HIDE DEF e
<1> QED BY <1>3, <1>7, <1>8 DEF ToUndo, e

\* The drops of a start that fails, in the reverse of its locals.
LEMMA FailedStart ==
    ASSUME NEW d \in [Stream!Setting -> BOOLEAN], NEW f, NEW gone, NEW guards \in Stream!Guards,
           ToUndo(d, f, gone, guards, AllGuards),
           NEW d1, d1 = Stream!PutBack(d, guards["epp"]),
           NEW d2, d2 = Stream!PutBack(d1, guards["display"]),
           NEW d3, d3 = Stream!PutBack(d2, guards["vdd"])
    PROVE  d3 \in [Stream!Setting -> BOOLEAN] /\ ToUndo(d3, f, gone, guards, {})
<1>1. d1 \in [Stream!Setting -> BOOLEAN] /\ ToUndo(d1, f, gone, guards, {"display", "vdd"})
  <2>1. /\ AllGuards \ {"epp"} = {"display", "vdd"} /\ AllGuards \in SUBSET AllGuards
        /\ "epp" \in AllGuards /\ "epp" # "vdd"
    BY DEF AllGuards
  <2> QED BY <2>1, DropKeeps, SMTT(30)
<1>2. d2 \in [Stream!Setting -> BOOLEAN] /\ ToUndo(d2, f, gone, guards, {"vdd"})
  <2> DEFINE left == {"display", "vdd"}
  <2>1. /\ left \ {"display"} = {"vdd"} /\ left \in SUBSET AllGuards
        /\ "display" \in left /\ "display" # "vdd"
    BY DEF AllGuards
  <2>2. ToUndo(d1, f, gone, guards, left)
    BY <1>1
  <2> HIDE DEF left
  <2> QED BY <1>1, <2>1, <2>2, DropKeeps
<1>3. d3 \in [Stream!Setting -> BOOLEAN] /\ ToUndo(d3, f, gone, guards, {})
  <2> DEFINE left == {"vdd"}
  <2>1. left \ {"vdd"} = {} /\ left \in SUBSET AllGuards /\ "vdd" \in left /\ "display" \notin left
    BY DEF AllGuards
  <2>2. ToUndo(d2, f, gone, guards, left)
    BY <1>2
  <2> HIDE DEF left
  <2>3. /\ ToUndo(Stream!PutBack(d2, guards["vdd"]), f, gone, guards, left \ {"vdd"})
        /\ Stream!PutBack(d2, guards["vdd"]) \in [Stream!Setting -> BOOLEAN]
    BY <1>2, <2>1, <2>2, DropKeeps, Zenon
  <2> QED BY <2>1, <2>3
<1> QED BY <1>3

LEMMA StreamIsRecord ==
    /\ \A i \in Nat \ {0}, g \in Stream!Guards, b \in BOOLEAN :
         [id |-> i, guards |-> g, finished |-> b] # Stream!Nothing
    /\ \A x : x = Stream!Nothing => x.id = 0
BY DEF Stream!Nothing, Stream!NoId

LEMMA SessionStartKeeps == ASSUME Stream!DesktopInv, Stream!SessionStart PROVE Stream!DesktopInv'
<1>1. /\ v2 = Stream!Nothing /\ v3 = Stream!Nothing /\ v3' = v3 /\ v9' = v9 /\ v6' = v6 + 1
      /\ v1 \in [Stream!Setting -> BOOLEAN] /\ v9 \in [Stream!Setting -> BOOLEAN]
      /\ v6 \in Nat \ {0} /\ v6' \in Nat \ {0}
      /\ \A s \in Stream!Setting \ v10 : FitFor(s, v1[s], v9)
  <2>1. v2 = Stream!Nothing /\ v3 = Stream!Nothing /\ v3' = v3 /\ v9' = v9 /\ v6' = v6 + 1
    BY DEF Stream!SessionStart
  <2>2. \A guards : ToUndo(v1, v9, v10, guards, {})
    BY <2>1, DesktopIs
  <2>3. \A s \in Stream!Setting \ v10 : FitFor(s, v1[s], v9)
    BY <2>2 DEF ToUndo
  <2> QED BY <2>1, <2>3, DesktopIs
<1>a. PICK ask \in [hdr : BOOLEAN, virtual : BOOLEAN, match : BOOLEAN, epp : BOOLEAN] :
       \E done \in SUBSET (Stream!Dark(ask) \cup {"mode"}), modeRead \in BOOLEAN,
         fails \in BOOLEAN :
         LET up == Stream!SetUp(ask, done, modeRead)
             Undone(d, k) == Stream!Dropped(d, up.guards, Stream!LocalOrder, k)
         IN /\ v10' = IF modeRead THEN v10 ELSE v10 \cup {"mode"}
            /\ IF fails
                 THEN /\ v1' = Undone(Undone(Undone(up.desktop, 1), 2), 3)
                      /\ v2' = v2
                 ELSE /\ v1' = up.desktop
                      /\ v2' = [id |-> v6, guards |-> up.guards, finished |-> FALSE]
  BY DEF Stream!SessionStart
<1>2. PICK done \in SUBSET (Stream!Dark(ask) \cup {"mode"}), modeRead \in BOOLEAN,
        fails \in BOOLEAN :
         LET up == Stream!SetUp(ask, done, modeRead)
             Undone(d, k) == Stream!Dropped(d, up.guards, Stream!LocalOrder, k)
         IN /\ v10' = IF modeRead THEN v10 ELSE v10 \cup {"mode"}
            /\ IF fails
                 THEN /\ v1' = Undone(Undone(Undone(up.desktop, 1), 2), 3)
                      /\ v2' = v2
                 ELSE /\ v1' = up.desktop
                      /\ v2' = [id |-> v6, guards |-> up.guards, finished |-> FALSE]
  BY <1>a
<1> DEFINE up == Stream!SetUp(ask, done, modeRead)
           virtual == ask.virtual
           withVdd == WithVdd(v1, virtual)
           pointer == IF ask.epp THEN {s \in {"accel", "speed"} : ~v1[s]} ELSE {}
           kept == IF modeRead THEN done ELSE done \ {"mode"}
           guards == GuardsOf(withVdd, kept, virtual, pointer)
           both == done \cup pointer
           d0 == Stream!Changed(withVdd, both)
           d1 == Stream!PutBack(d0, guards["epp"])
           d2 == Stream!PutBack(d1, guards["display"])
           d3 == Stream!PutBack(d2, guards["vdd"])
<1>3. up.desktop = d0 /\ up.guards = guards
  BY DEF Stream!SetUp, VddGuard, GuardsOf, WithVdd
<1>4. /\ v10' = IF modeRead THEN v10 ELSE v10 \cup {"mode"}
      /\ IF fails THEN v1' = d3 /\ v2' = v2
                  ELSE v1' = d0 /\ v2' = [id |-> v6, guards |-> guards, finished |-> FALSE]
  <2>1. /\ Stream!LocalOrder[1] = "epp" /\ Stream!LocalOrder[2] = "display"
        /\ Stream!LocalOrder[3] = "vdd"
    BY DEF Stream!LocalOrder
  <2>2. /\ \A d : Stream!Dropped(d, guards, Stream!LocalOrder, 1) = Stream!PutBack(d, guards["epp"])
        /\ \A d : Stream!Dropped(d, guards, Stream!LocalOrder, 2) =
             Stream!PutBack(d, guards["display"])
        /\ \A d : Stream!Dropped(d, guards, Stream!LocalOrder, 3) = Stream!PutBack(d, guards["vdd"])
    <3> HIDE DEF guards
    <3> QED BY <2>1 DEF Stream!Dropped
  <2> HIDE DEF guards, d0, up
  <2>3. CASE fails
    BY <1>2, <1>3, <2>2, <2>3 DEF up
  <2>4. CASE ~fails
    BY <1>2, <1>3, <2>4 DEF up
  <2> QED BY <1>2, <2>3, <2>4
<1>5. /\ virtual \in BOOLEAN /\ pointer \in SUBSET {"accel", "speed"}
      /\ done \in SUBSET {"hdr", "virtualHdr", "mode"}
      /\ kept \in SUBSET done /\ done \ kept \subseteq v10'
      /\ "virtualHdr" \in done => virtual \/ v1["vdd"]
  <2>1. done \in SUBSET {"hdr", "virtualHdr", "mode"} /\
          ("virtualHdr" \in done => virtual \/ v1["vdd"])
    BY DEF Stream!Dark
  <2> QED BY <1>4, <2>1
<1>6. \A s \in Stream!Setting \ v10' : FitFor(s, v1[s], v9)
  BY <1>1, <1>4
<1>7. \A gone : gone = v10' => /\ guards \in Stream!Guards /\ d0 \in [Stream!Setting -> BOOLEAN]
                              /\ ToUndo(d0, v9, gone, guards, AllGuards)
  <2> SUFFICES ASSUME NEW gone, gone = v10'
               PROVE  /\ guards \in Stream!Guards /\ d0 \in [Stream!Setting -> BOOLEAN]
                      /\ ToUndo(d0, v9, gone, guards, AllGuards)
    BY Zenon
  <2>1. StartOf(v1, v9, gone, virtual, pointer, done, kept, both)
    <3>1. \A s : s \in both <=> s \in done \/ s \in pointer
      OBVIOUS
    <3> HIDE DEF virtual, pointer, kept, both
    <3> QED BY <1>1, <1>5, <1>6, <3>1 DEF StartOf
  <2>2. withVdd = WithVdd(v1, virtual) /\ guards = GuardsOf(withVdd, kept, virtual, pointer)
    OBVIOUS
  <2> HIDE DEF virtual, pointer, kept, both, withVdd, guards
  <2> QED BY <2>1, <2>2, SetUpKeeps
<1> HIDE DEF guards, d0
<1>8. CASE fails
  <2>1. v1' = d3 /\ v2' = Stream!Nothing /\ v3' = Stream!Nothing
    BY <1>1, <1>4, <1>8 DEF Stream!Nothing
  <2>2. \A gone : gone = v10' => d3 \in [Stream!Setting -> BOOLEAN] /\
          ToUndo(d3, v9, gone, guards, {})
    <3>1. d1 = Stream!PutBack(d0, guards["epp"]) /\ d2 = Stream!PutBack(d1, guards["display"])
          /\ d3 = Stream!PutBack(d2, guards["vdd"])
      OBVIOUS
    <3> HIDE DEF d1, d2, d3
    <3> QED BY <1>7, <3>1, FailedStart
  <2> HIDE DEF d3
  <2>3. ToUndo(v1', v9', v10', guards, {}) /\ v1' \in [Stream!Setting -> BOOLEAN]
    BY <1>1, <2>1, <2>2
  <2> QED BY <1>1, <2>1, <2>3, DesktopWillBe
<1>9. CASE ~fails
  <2>1. v1' = d0 /\ v2' = [id |-> v6, guards |-> guards, finished |-> FALSE]
    BY <1>4, <1>9
  <2>2. /\ v2' \in [id : Nat \ {0}, guards : Stream!Guards, finished : BOOLEAN]
        /\ v2'.guards = guards /\ v2' # Stream!Nothing
    BY <1>1, <1>7, <2>1, StreamIsRecord
  <2>3. v3' = Stream!Nothing
    BY <1>1
  <2>4. ToUndo(v1', v9', v10', guards, AllGuards) /\ v1' \in [Stream!Setting -> BOOLEAN]
    BY <1>1, <1>7, <2>1
  <2> QED BY <1>1, <2>2, <2>3, <2>4, DesktopWillBe
<1> QED BY <1>8, <1>9

\* Taken, nothing of it dropped yet.
LEMMA TakeKeeps ==
    ASSUME Stream!DesktopInv, v2 # Stream!Nothing, Stream!Take, UNCHANGED <<v1, v6, v9, v10>>
    PROVE  Stream!DesktopInv'
<1>1. /\ v2 \in [id : Nat \ {0}, guards : Stream!Guards, finished : BOOLEAN]
      /\ ToUndo(v1, v9, v10, v2.guards, AllGuards)
      /\ v1 \in [Stream!Setting -> BOOLEAN] /\ v9 \in [Stream!Setting -> BOOLEAN]
      /\ v6 \in Nat \ {0}
  BY DesktopIs
<1>2. /\ v3' = [id |-> v2.id, guards |-> v2.guards, dropped |-> 0] /\ v2' = Stream!Nothing
  BY DEF Stream!Take
<1>3. /\ v3' \in [id : Nat \ {0}, guards : Stream!Guards, dropped : 0 .. 3]
      /\ v3'.guards = v2.guards /\ v3'.dropped = 0 /\ v3'.id # 0
  BY <1>1, <1>2
<1>4. LeftAt(0) = AllGuards
  BY DEF LeftAt, AllGuards
<1>5. v3' # Stream!Nothing
  BY <1>3 DEF Stream!Nothing, Stream!NoId
<1>6. ToUndo(v1', v9', v10', v3'.guards, LeftAt(v3'.dropped))
  BY <1>1, <1>3, <1>4
<1> QED BY <1>1, <1>2, <1>3, <1>5, <1>6, DesktopWillBe

\* A step that is none of the desktop's.
LEMMA DesktopStays ==
    ASSUME Stream!DesktopInv, UNCHANGED <<v1, v2, v3, v6, v9, v10>> PROVE Stream!DesktopInv'
<1>1. v2' = Stream!Nothing <=> v2 = Stream!Nothing
  BY DEF Stream!Nothing
<1>2. v3' = Stream!Nothing <=> v3 = Stream!Nothing
  BY DEF Stream!Nothing
<1>3. /\ v1' \in [Stream!Setting -> BOOLEAN] /\ v9' \in [Stream!Setting -> BOOLEAN]
      /\ v6' \in Nat \ {0} /\ (v2' = Stream!Nothing \/ v3' = Stream!Nothing)
  BY <1>1, <1>2, DesktopIs
<1>4. v2' # Stream!Nothing =>
        /\ v2' \in [id : Nat \ {0}, guards : Stream!Guards, finished : BOOLEAN]
        /\ ToUndo(v1', v9', v10', v2'.guards, AllGuards)
  BY <1>1, DesktopIs
<1>5. v3' # Stream!Nothing =>
        /\ v3' \in [id : Nat \ {0}, guards : Stream!Guards, dropped : 0 .. 3]
        /\ ToUndo(v1', v9', v10', v3'.guards, LeftAt(v3'.dropped))
  BY <1>2, DesktopIs
<1>6. v2' = Stream!Nothing /\ v3' = Stream!Nothing => \E guards : ToUndo(v1', v9', v10', guards, {})
  BY <1>1, <1>2, DesktopIs
<1> QED BY <1>3, <1>4, <1>5, <1>6, DesktopWillBe

LEMMA SessionStopKeeps == ASSUME Stream!DesktopInv, Stream!SessionStop PROVE Stream!DesktopInv'
<1>1. v2 # Stream!Nothing /\ Stream!Take /\ UNCHANGED <<v1, v6, v9, v10>>
  BY DEF Stream!SessionStop
<1> QED BY <1>1, TakeKeeps

LEMMA StreamDrainKeeps == ASSUME Stream!DesktopInv, Stream!Drain PROVE Stream!DesktopInv'
<1>1. UNCHANGED <<v1, v6, v9, v10>>
  BY DEF Stream!Drain
<1>2. \/ v2 # Stream!Nothing /\ Stream!Take
      \/ UNCHANGED <<v2, v3>>
  BY DEF Stream!Drain, Stream!EndsItself
<1> QED BY <1>1, <1>2, TakeKeeps, DesktopStays

\* One guard after the other, and then the stream is forgotten.
LEMMA StopStepKeeps == ASSUME Stream!DesktopInv, Stream!StopStep PROVE Stream!DesktopInv'
<1>1. /\ v3 # Stream!Nothing /\ UNCHANGED <<v2, v6, v9, v10>>
  BY DEF Stream!StopStep
<1>2. /\ v3 \in [id : Nat \ {0}, guards : Stream!Guards, dropped : 0 .. 3]
      /\ v2 = Stream!Nothing /\ v2' = Stream!Nothing
      /\ ToUndo(v1, v9, v10, v3.guards, LeftAt(v3.dropped))
      /\ v1 \in [Stream!Setting -> BOOLEAN] /\ v9 \in [Stream!Setting -> BOOLEAN]
      /\ v6 \in Nat \ {0}
  BY <1>1, DesktopIs DEF Stream!Nothing
<1>3. Len(Stream!FieldOrder) = 3
  BY DEF Stream!FieldOrder
<1>4. CASE v3.dropped = 3
  <2>1. v3' = Stream!Nothing /\ v1' = v1
    BY <1>3, <1>4 DEF Stream!StopStep
  <2>2. LeftAt(3) = {}
    BY DEF LeftAt
  <2>3. ToUndo(v1', v9', v10', v3.guards, {})
    BY <1>1, <1>2, <1>4, <2>1, <2>2
  <2> QED BY <1>1, <1>2, <2>1, <2>3, DesktopWillBe
<1>5. CASE v3.dropped # 3
  <2> DEFINE k == v3.dropped
             g == Stream!FieldOrder[k + 1]
             guards == v3.guards
             left == LeftAt(k)
  <2>1. k \in 0 .. 2 /\ guards \in Stream!Guards
    BY <1>2, <1>5
  <2>2. /\ v3' = [v3 EXCEPT !.dropped = k + 1] /\ v1' = Stream!PutBack(v1, guards[g])
    BY <1>3, <1>5 DEF Stream!StopStep, Stream!Dropped
  <2>3. /\ g \in left /\ left \in SUBSET AllGuards /\ (g = "vdd" => "display" \notin left)
        /\ left \ {g} = LeftAt(k + 1)
    <3>1. /\ Stream!FieldOrder[1] = "display" /\ Stream!FieldOrder[2] = "vdd"
          /\ Stream!FieldOrder[3] = "epp"
      BY DEF Stream!FieldOrder
    <3> HIDE DEF k
    <3> QED BY <2>1, <3>1 DEF LeftAt, AllGuards
  <2>4. ToUndo(v1, v9, v10, guards, left)
    BY <1>2
  <2>5. v3' \in [id : Nat \ {0}, guards : Stream!Guards, dropped : 0 .. 3]
        /\ v3'.guards = guards /\ v3'.dropped = k + 1 /\ v3'.id # 0
    BY <1>2, <2>1, <2>2
  <2> HIDE DEF k, g, guards, left
  <2>6. /\ ToUndo(Stream!PutBack(v1, guards[g]), v9, v10, guards, left \ {g})
        /\ Stream!PutBack(v1, guards[g]) \in [Stream!Setting -> BOOLEAN]
    BY <1>2, <2>1, <2>3, <2>4, DropKeeps, Zenon
  <2>7. v3' # Stream!Nothing
    BY <2>5 DEF Stream!Nothing, Stream!NoId
  <2>8. ToUndo(v1', v9', v10', v3'.guards, LeftAt(v3'.dropped)) /\
          v1' \in [Stream!Setting -> BOOLEAN]
    BY <1>1, <2>2, <2>3, <2>5, <2>6
  <2> QED BY <1>1, <1>2, <2>5, <2>7, <2>8, DesktopWillBe
<1> QED BY <1>4, <1>5

LEMMA PipelineDiesKeeps == ASSUME Stream!DesktopInv, Stream!PipelineDies PROVE Stream!DesktopInv'
<1>1. /\ v2 # Stream!Nothing /\ v2' = [v2 EXCEPT !.finished = TRUE]
      /\ UNCHANGED <<v1, v3, v6, v9, v10>>
  BY DEF Stream!PipelineDies
<1>2. /\ v2 \in [id : Nat \ {0}, guards : Stream!Guards, finished : BOOLEAN]
      /\ v3 = Stream!Nothing /\ v3' = Stream!Nothing
  BY <1>1, DesktopIs DEF Stream!Nothing
<1>3. /\ v2' \in [id : Nat \ {0}, guards : Stream!Guards, finished : BOOLEAN]
      /\ v2'.guards = v2.guards /\ v2'.id # 0
  BY <1>1, <1>2, Zenon
<1>4. v2' # Stream!Nothing
  BY <1>3 DEF Stream!Nothing, Stream!NoId
<1> QED BY <1>1, <1>2, <1>3, <1>4, DesktopIs, DesktopWillBe

\* Changed by somebody else: from now on that is what was found, or nobody can
\* be expected to put it back.
LEMMA MeddleKeeps ==
    ASSUME Stream!DesktopInv, NEW s \in Stream!Setting, Stream!Meddle(s) PROVE Stream!DesktopInv'
<1>1. UNCHANGED <<v2, v3, v6>> /\ v1' = [v1 EXCEPT ![s] = ~v1[s]]
  BY DEF Stream!Meddle
<1>2. /\ v1 \in [Stream!Setting -> BOOLEAN] /\ v9 \in [Stream!Setting -> BOOLEAN]
      /\ v6' \in Nat \ {0} /\ v1' \in [Stream!Setting -> BOOLEAN]
      /\ \A t \in Stream!Setting : t # s => v1'[t] = v1[t]
  BY <1>1, DesktopIs
<1>3. CASE v2 = Stream!Nothing /\ v3 = Stream!Nothing
  <2>1. v9' = [v9 EXCEPT ![s] = v1'[s]] /\ v10' = v10 \ {s}
    BY <1>3 DEF Stream!Meddle
  <2>2. \A guards : ToUndo(v1, v9, v10, guards, {})
    BY <1>3, DesktopIs
  <2>3. v9' \in [Stream!Setting -> BOOLEAN]
    BY <1>2, <2>1
  <2>4. \A guards : ToUndo(v1', v9', v10', guards, {})
    BY <1>2, <2>1, <2>2 DEF ToUndo, FitFor
  <2>5. v2' = Stream!Nothing /\ v3' = Stream!Nothing
    BY <1>1, <1>3 DEF Stream!Nothing
  <2> QED BY <1>2, <2>3, <2>4, <2>5, DesktopWillBe
<1>4. CASE ~ (v2 = Stream!Nothing /\ v3 = Stream!Nothing)
  <2>1. v9' = v9 /\ v10' = v10 \cup {s} \cup (IF s = "vdd" THEN {"virtualHdr"} ELSE {})
    BY <1>4 DEF Stream!Meddle
  <2>2. \A guards, left : ToUndo(v1, v9, v10, guards, left) => ToUndo(v1', v9', v10', guards, left)
    <3>1. "vdd" \in Stream!Setting
      BY DEF Stream!Setting
    <3>2. "virtualHdr" \notin v10' => s # "vdd"
      BY <2>1
    <3>3. \A t \in Stream!Setting \ v10' : t \in Stream!Setting \ v10 /\ t # s /\ v1'[t] = v1[t]
      BY <1>2, <2>1
    <3>4. "virtualHdr" \notin v10' => v1'["vdd"] = v1["vdd"]
      BY <1>2, <3>1, <3>2
    <3> QED BY <2>1, <3>3, <3>4 DEF ToUndo
  <2> QED BY <1>1, <1>2, <1>4, <2>1, <2>2, DesktopIs, DesktopWillBe
<1> QED BY <1>3, <1>4

\* The server goes down: what its guards held is lost.
LEMMA StreamRestartKeeps == ASSUME Stream!DesktopInv, Stream!Restart PROVE Stream!DesktopInv'
<1>1. /\ v1' = v1 /\ v9' = v9 /\ v2' = Stream!Nothing /\ v3' = Stream!Nothing /\ v6' = 1
      /\ v10' = v10 \cup Stream!Guarded(v2) \cup Stream!Guarded(v3)
  BY DEF Stream!Restart
<1>2. ASSUME NEW stream, stream # Stream!Nothing, stream.guards \in Stream!Guards, NEW left,
             ToUndo(v1, v9, v10, stream.guards, left),
             Stream!Guarded(stream) \subseteq v10'
      PROVE  ToUndo(v1', v9', v10', stream.guards, {})
  <2> DEFINE guards == stream.guards
  <2>1. Stream!Guarded(stream) = UNION {DOMAIN guards[g] : g \in DOMAIN guards}
    BY <1>2 DEF Stream!Guarded
  <2>2. DOMAIN guards = {"display", "vdd", "epp"}
    BY <1>2 DEF Stream!Guards
  <2>3. \A s \in Stream!Setting : Stream!GuardOf(s) \in {"display", "vdd", "epp"}
    BY DEF Stream!GuardOf
  <2>4. \A s \in Stream!Setting \ v10' : s \notin DOMAIN guards[Stream!GuardOf(s)]
    BY <1>2, <2>1, <2>2, <2>3
  <2>5. \A s \in Stream!Setting \ v10' : FitFor(s, v1[s], v9)
    BY <1>1, <1>2, <2>4 DEF ToUndo
  <2> QED BY <1>1, <2>5 DEF ToUndo
<1>3. \E guards : ToUndo(v1', v9', v10', guards, {})
  <2>1. CASE v2 # Stream!Nothing
    <3>1. v2.guards \in Stream!Guards /\ ToUndo(v1, v9, v10, v2.guards, AllGuards)
      BY <2>1, DesktopIs
    <3>2. Stream!Guarded(v2) \subseteq v10'
      BY <1>1
    <3> QED BY <1>2, <2>1, <3>1, <3>2
  <2>2. CASE v3 # Stream!Nothing
    <3>1. v3.guards \in Stream!Guards /\ ToUndo(v1, v9, v10, v3.guards, LeftAt(v3.dropped))
      BY <2>2, DesktopIs
    <3>2. Stream!Guarded(v3) \subseteq v10'
      BY <1>1
    <3> QED BY <1>2, <2>2, <3>1, <3>2
  <2>3. CASE v2 = Stream!Nothing /\ v3 = Stream!Nothing
    <3>1. \A guards : ToUndo(v1, v9, v10, guards, {})
      BY <2>3, DesktopIs
    <3> QED BY <1>1, <3>1 DEF ToUndo
  <2> QED BY <2>1, <2>2, <2>3
<1>4. /\ v1' \in [Stream!Setting -> BOOLEAN] /\ v9' \in [Stream!Setting -> BOOLEAN]
      /\ v6' \in Nat \ {0}
  BY <1>1, DesktopIs
<1>5. v2' = Stream!Nothing /\ v3' = Stream!Nothing
  BY <1>1 DEF Stream!Nothing
<1> QED BY <1>3, <1>4, <1>5, DesktopWillBe

LEMMA StreamStarts == ASSUME Stream!Init PROVE Stream!DesktopInv
<1>1. /\ v1 = [s \in Stream!Setting |-> FALSE] /\ v9 = v1 /\ v10 = {}
      /\ v2 = Stream!Nothing /\ v3 = Stream!Nothing /\ v6 = 1
  BY DEF Stream!Init
<1> QED BY <1>1 DEF Stream!DesktopInv, Stream!DesktopAsFound, Stream!AsFound

LEMMA StreamStep == ASSUME Stream!DesktopInv, Stream!Next PROVE Stream!DesktopInv'
<1>1. \A w : Stream!List(w) => UNCHANGED <<v1, v2, v3, v6, v9, v10>>
  BY DEF Stream!List
<1>2. \A w : Stream!RequestDisconnect(w) => UNCHANGED <<v1, v2, v3, v6, v9, v10>>
  BY DEF Stream!RequestDisconnect
<1>3. CASE Stream!SessionStart
  BY <1>3, SessionStartKeeps
<1>4. CASE Stream!SessionStop
  BY <1>4, SessionStopKeeps
<1>7. CASE Stream!Drain
  BY <1>7, StreamDrainKeeps
<1>8. CASE Stream!StopStep
  BY <1>8, StopStepKeeps
<1>9. CASE Stream!PipelineDies
  BY <1>9, PipelineDiesKeeps
<1>10. CASE Stream!Restart
  BY <1>10, StreamRestartKeeps
<1>5. CASE \E w \in Web : Stream!List(w) \/ Stream!RequestDisconnect(w)
  BY <1>1, <1>2, <1>5, DesktopStays
<1>6. CASE \E s \in Stream!Setting : Stream!Meddle(s)
  BY <1>6, MeddleKeeps
<1> QED BY <1>3, <1>4, <1>5, <1>6, <1>7, <1>8, <1>9, <1>10 DEF Stream!Next

-----------------------------------------------------------------------------
(* Instrumentation.  v1 registry, v2 rings, v3 threads, v4 collectors,     *)
(* v5 locked, v6 clock, v7 drains, v8 collected, v9 dropped.               *)

LEMMA InstrNumbers ==
    Places \in Nat \ {0} /\ Nobody \notin Thread /\ Nobody \notin Collector
BY InstrAssumption DEF Instr!InstrBounds

InstrRings == [samples : Seq(Nat), retired : BOOLEAN, memory : {"none", "live", "freed"}]
InstrThreads ==
    [state : {"new", "registered", "failed", "exited"}, local : BOOLEAN,
     at : {"idle", "stamped", "claiming", "retiring"}, sample : Nat, place : Instr!Place]
InstrCollectors ==
    [at : {"idle", "locking", "looking", "merging", "reclaiming"}, until : Nat,
     place : Instr!Place, seen : Seq(Thread \cup {Nobody}), retired : SUBSET Instr!Place]

LEMMA InstrTyped ==
    Instr!TypeOK <=> /\ v1 \in [Instr!Place -> Thread \cup {Nobody}]
                     /\ v2 \in [Thread -> InstrRings] /\ v3 \in [Thread -> InstrThreads]
                     /\ v4 \in [Collector -> InstrCollectors]
                     /\ v5 \in Collector \cup {Nobody} /\ v6 \in Nat /\ v8 \in Seq(Nat)
BY Zenon DEF Instr!TypeOK, InstrRings, InstrThreads, InstrCollectors

LEMMA InstrTypedNext ==
    ASSUME v1' \in [Instr!Place -> Thread \cup {Nobody}], v2' \in [Thread -> InstrRings],
           v3' \in [Thread -> InstrThreads], v4' \in [Collector -> InstrCollectors],
           v5' \in Collector \cup {Nobody}, v6' \in Nat, v8' \in Seq(Nat)
    PROVE  Instr!TypeOK'
BY DEF Instr!TypeOK, InstrRings, InstrThreads, InstrCollectors, Instr!Place

LEMMA InstrStart == Instr!Init => Instr!InstrInv
<1> SUFFICES ASSUME Instr!Init PROVE Instr!InstrInv
  OBVIOUS
<1> USE InstrNumbers
<1>1. /\ v1 = [p \in Instr!Place |-> Nobody] /\ v5 = Nobody /\ v6 = 0 /\ v8 = <<>> /\ v9 = {}
      /\ v2 = [t \in Thread |-> Instr!NoRing] /\ v3 = [t \in Thread |-> Instr!Started]
      /\ v4 = [c \in Collector |-> Instr!Waiting]
  BY DEF Instr!Init
<1>2. 1 \in Instr!Place
  BY DEF Instr!Place
<1>3. \A t \in Thread : /\ v2[t].samples = <<>> /\ ~v2[t].retired /\ v2[t].memory = "none"
                        /\ v3[t].state = "new" /\ ~v3[t].local /\ v3[t].at = "idle"
  BY <1>1 DEF Instr!NoRing, Instr!Started
<1>4. \A c \in Collector : v4[c].at = "idle" /\ v4[c].seen = <<>> /\ v4[c].retired = {}
                           /\ v4[c].place = 1
  BY <1>1 DEF Instr!Waiting
<1>5. Instr!TypeOK
  <2>1. Instr!NoRing \in InstrRings
    BY DEF Instr!NoRing, InstrRings
  <2>2. Instr!Started \in InstrThreads
    BY <1>2 DEF Instr!Started, InstrThreads
  <2>3. Instr!Waiting \in InstrCollectors
    <3>1. <<>> \in Seq(Thread \cup {Nobody})
      OBVIOUS
    <3> QED BY <1>2, <3>1 DEF Instr!Waiting, InstrCollectors
  <2> QED BY <1>1, <2>1, <2>2, <2>3, InstrTyped
<1>6. Instr!RegistryHolds
  BY <1>1 DEF Instr!RegistryHolds
<1>7. ASSUME NEW t \in Thread PROVE Instr!RingOf(t)
  BY <1>3 DEF Instr!RingOf
<1>8. ASSUME NEW c \in Collector PROVE Instr!SeenIs(c)
  <2>1. v5 # c
    BY <1>1
  <2> QED BY <1>4, <2>1 DEF Instr!SeenIs
<1>9. Instr!SamplesHeld
  BY <1>1, <1>3 DEF Instr!SamplesHeld, Instr!OnceEach, Instr!Holds
<1> QED BY <1>5, <1>6, <1>7, <1>8, <1>9 DEF Instr!InstrInv

\* Where no sample moves, all are where they were.
LEMMA SamplesStay ==
    ASSUME Instr!SamplesHeld, v6' = v6, v8' = v8, v9' = v9,
           \A t \in Thread : /\ Instr!Holds(t)' <=> Instr!Holds(t)
                             /\ v3'[t].sample = v3[t].sample
                             /\ v2'[t].samples = v2[t].samples
    PROVE  Instr!SamplesHeld'
<1>1. Instr!OnceEach'
  <2>1. Instr!OnceEach
    BY DEF Instr!SamplesHeld
  <2>2. ASSUME NEW t \in Thread, NEW u \in Thread, Instr!Holds(t)', Instr!Holds(u)',
               v3'[t].sample = v3'[u].sample
        PROVE  t = u
    BY <2>1, <2>2 DEF Instr!OnceEach
  <2>3. ASSUME NEW t \in Thread, NEW u \in Thread, NEW i \in 1 .. Len(v2'[u].samples),
               Instr!Holds(t)'
        PROVE  v2'[u].samples[i] # v3'[t].sample
    BY <2>1, <2>3 DEF Instr!OnceEach
  <2>4. ASSUME NEW t \in Thread, NEW j \in 1 .. Len(v8'), Instr!Holds(t)'
        PROVE  v8'[j] # v3'[t].sample
    BY <2>1, <2>4 DEF Instr!OnceEach
  <2>5. ASSUME NEW t \in Thread, NEW u \in Thread, NEW i \in 1 .. Len(v2'[t].samples),
               NEW j \in 1 .. Len(v2'[u].samples), v2'[t].samples[i] = v2'[u].samples[j]
        PROVE  t = u /\ i = j
    BY <2>1, <2>5 DEF Instr!OnceEach
  <2>6. ASSUME NEW t \in Thread, NEW i \in 1 .. Len(v2'[t].samples), NEW j \in 1 .. Len(v8')
        PROVE  v2'[t].samples[i] # v8'[j]
    BY <2>1, <2>6 DEF Instr!OnceEach
  <2>7. ASSUME NEW i \in 1 .. Len(v8'), NEW j \in 1 .. Len(v8'), v8'[i] = v8'[j] PROVE i = j
    BY <2>1, <2>7 DEF Instr!OnceEach
  <2> QED BY <2>2, <2>3, <2>4, <2>5, <2>6, <2>7 DEF Instr!OnceEach
<1>2. ASSUME NEW x \in 1 .. v6 PROVE Instr!Somewhere(x)'
  BY DEF Instr!SamplesHeld, Instr!Somewhere
<1> QED BY <1>1, <1>2 DEF Instr!SamplesHeld

LEMMA SeenStays ==
    ASSUME Instr!TypeOK, NEW c \in Collector, Instr!SeenIs(c), v4'[c] = v4[c],
           v5' = c <=> v5 = c,
           \A p \in Instr!Place : v1[p] # Nobody =>
              v1'[p] = v1[p] /\ (v2[v1[p]].retired => v2'[v1[p]].retired)
    PROVE  Instr!SeenIs(c)'
<1>1. v4[c] \in InstrCollectors
  BY InstrTyped
<1>2. v4[c].retired \subseteq Instr!Place /\ v4[c].seen \in Seq(Thread \cup {Nobody})
      /\ v4[c].place \in 1 .. Places
  BY <1>1 DEF InstrCollectors, Instr!Place
<1>3. v4[c].at \in {"looking", "merging", "reclaiming"} => Len(v4[c].seen) <= Places
  BY <1>2, InstrNumbers DEF Instr!SeenIs
<1>4. ASSUME NEW p \in 1 .. Len(v4[c].seen), v4[c].seen[p] # Nobody, v4[c].at \in {"looking", "merging"}
      PROVE  v1'[p] = v4[c].seen[p]
  <2>1. v1[p] = v4[c].seen[p]
    BY <1>4 DEF Instr!SeenIs
  <2>2. p \in Instr!Place
    BY <1>2, <1>3, <1>4, InstrNumbers DEF Instr!Place
  <2> QED BY <1>4, <2>1, <2>2
<1>5. ASSUME NEW p \in v4[c].retired
      PROVE  /\ p \in 1 .. Len(v4[c].seen) /\ v4[c].seen[p] # Nobody /\ v1'[p] = v4[c].seen[p]
             /\ v2'[v4[c].seen[p]].retired
             /\ v4[c].at = "reclaiming" => v4[c].place <= p
  <2>1. /\ p \in 1 .. Len(v4[c].seen) /\ v4[c].seen[p] # Nobody /\ v1[p] = v4[c].seen[p]
        /\ v2[v4[c].seen[p]].retired /\ p \in Instr!Place
        /\ v4[c].at = "reclaiming" => v4[c].place <= p
    BY <1>2, <1>5 DEF Instr!SeenIs
  <2> QED BY <2>1
<1> QED BY <1>4, <1>5 DEF Instr!SeenIs

LEMMA InstrStays == ASSUME Instr!InstrInv, UNCHANGED vars PROVE Instr!InstrInv'
<1> USE DEF vars
<1>1. Instr!TypeOK' /\ Instr!RegistryHolds'
  BY DEF Instr!InstrInv, Instr!TypeOK, Instr!RegistryHolds, Instr!Place
<1>2. Instr!SamplesHeld'
  BY SamplesStay DEF Instr!InstrInv, Instr!Holds
<1>3. ASSUME NEW c \in Collector PROVE Instr!SeenIs(c)'
  BY SeenStays DEF Instr!InstrInv
<1>4. ASSUME NEW t \in Thread PROVE Instr!RingOf(t)'
  BY DEF Instr!InstrInv, Instr!RingOf
<1> QED BY <1>1, <1>2, <1>3, <1>4 DEF Instr!InstrInv

LEMMA SamplesTyped ==
    ASSUME Instr!TypeOK
    PROVE  /\ \A t \in Thread : v2[t].samples \in Seq(Nat) /\ v3[t].sample \in Nat
           /\ v6 \in Nat /\ v8 \in Seq(Nat)
BY InstrTyped DEF InstrRings, InstrThreads

LEMMA SampleStamped ==
    ASSUME Instr!TypeOK, Instr!SamplesHeld, NEW t \in Thread, v6' = v6 + 1, v8' = v8, v9' = v9,
           \A u \in Thread : v2'[u].samples = v2[u].samples,
           \A u \in Thread : u # t => (Instr!Holds(u)' <=> Instr!Holds(u))
                                      /\ v3'[u].sample = v3[u].sample,
           Instr!Holds(t)', v3'[t].sample = v6 + 1, ~Instr!Holds(t)
    PROVE  Instr!SamplesHeld'
<1>1. /\ \A u \in Thread : v2[u].samples \in Seq(Nat) /\ v3[u].sample \in Nat
      /\ v6 \in Nat /\ v8 \in Seq(Nat)
  BY SamplesTyped
<1>2. /\ \A x \in 1 .. v6 : Instr!Somewhere(x)
      /\ \A u \in Thread : Instr!Holds(u) => v3[u].sample \in 1 .. v6
      /\ \A u \in Thread : \A i \in 1 .. Len(v2[u].samples) : v2[u].samples[i] \in 1 .. v6
      /\ v9 \subseteq 1 .. v6 /\ \A i \in 1 .. Len(v8) : v8[i] \in 1 .. v6
      /\ Instr!OnceEach
  BY DEF Instr!SamplesHeld
<1>3. Instr!OnceEach'
  <2>2. ASSUME NEW r \in Thread, NEW u \in Thread, Instr!Holds(r)', Instr!Holds(u)',
               v3'[r].sample = v3'[u].sample
        PROVE  r = u
    <3>1. CASE r # t /\ u # t
      BY <1>2, <2>2, <3>1 DEF Instr!OnceEach
    <3>2. \A w \in Thread : w # t /\ Instr!Holds(w)' => v3'[w].sample \in 1 .. v6
      BY <1>2
    <3>3. v6 + 1 \notin 1 .. v6
      BY <1>1
    <3> QED BY <2>2, <3>1, <3>2, <3>3
  <2>3. ASSUME NEW r \in Thread, NEW u \in Thread, NEW i \in 1 .. Len(v2'[u].samples),
               Instr!Holds(r)'
        PROVE  v2'[u].samples[i] # v3'[r].sample
    <3>1. v2'[u].samples[i] = v2[u].samples[i] /\ i \in 1 .. Len(v2[u].samples)
      BY <2>3
    <3>2. v2[u].samples[i] \in 1 .. v6
      BY <1>2, <3>1
    <3>3. CASE r = t
      BY <1>1, <3>1, <3>2, <3>3
    <3>4. CASE r # t
      BY <1>2, <2>3, <3>1, <3>4 DEF Instr!OnceEach
    <3> QED BY <3>3, <3>4
  <2>4. ASSUME NEW r \in Thread, NEW j \in 1 .. Len(v8'), Instr!Holds(r)'
        PROVE  v8'[j] # v3'[r].sample
    <3>1. v8[j] \in 1 .. v6
      BY <1>2
    <3>2. CASE r = t
      BY <1>1, <3>1, <3>2
    <3>3. CASE r # t
      BY <1>2, <2>4, <3>3 DEF Instr!OnceEach
    <3> QED BY <3>2, <3>3
  <2>5. ASSUME NEW r \in Thread, NEW u \in Thread, NEW i \in 1 .. Len(v2'[r].samples),
               NEW j \in 1 .. Len(v2'[u].samples), v2'[r].samples[i] = v2'[u].samples[j]
        PROVE  r = u /\ i = j
    <3>1. /\ i \in 1 .. Len(v2[r].samples) /\ j \in 1 .. Len(v2[u].samples)
          /\ v2[r].samples[i] = v2[u].samples[j]
      BY <2>5, Zenon
    <3> QED BY <1>2, <3>1 DEF Instr!OnceEach
  <2>6. ASSUME NEW r \in Thread, NEW i \in 1 .. Len(v2'[r].samples), NEW j \in 1 .. Len(v8')
        PROVE  v2'[r].samples[i] # v8'[j]
    BY <1>2, <2>6 DEF Instr!OnceEach
  <2>7. ASSUME NEW i \in 1 .. Len(v8'), NEW j \in 1 .. Len(v8'), v8'[i] = v8'[j] PROVE i = j
    BY <1>2, <2>7 DEF Instr!OnceEach
  <2> QED BY <2>2, <2>3, <2>4, <2>5, <2>6, <2>7 DEF Instr!OnceEach
<1>4. ASSUME NEW x \in 1 .. v6 + 1 PROVE Instr!Somewhere(x)'
  <2>1. CASE x = v6 + 1
    BY <2>1 DEF Instr!Somewhere
  <2>2. CASE x # v6 + 1
    <3>1. x \in 1 .. v6
      BY <1>1, <2>2
    <3>2. CASE \E u \in Thread : Instr!Holds(u) /\ v3[u].sample = x
      BY <3>2 DEF Instr!Somewhere
    <3>3. CASE ~ \E u \in Thread : Instr!Holds(u) /\ v3[u].sample = x
      BY <1>2, <3>1, <3>3 DEF Instr!Somewhere
    <3> QED BY <3>2, <3>3
  <2> QED BY <2>1, <2>2
<1>5. 1 .. v6 \subseteq 1 .. v6 + 1 /\ v6 + 1 \in 1 .. v6 + 1
  BY <1>1
<1>6. ASSUME NEW u \in Thread, Instr!Holds(u)' PROVE v3'[u].sample \in 1 .. v6 + 1
  BY <1>2, <1>5, <1>6
<1>7. ASSUME NEW u \in Thread, NEW i \in 1 .. Len(v2'[u].samples)
      PROVE  v2'[u].samples[i] \in 1 .. v6 + 1
  BY <1>2, <1>5, <1>7
<1>8. v9' \subseteq 1 .. v6 + 1 /\ \A i \in 1 .. Len(v8') : v8'[i] \in 1 .. v6 + 1
  BY <1>2, <1>5
<1> QED BY <1>3, <1>4, <1>6, <1>7, <1>8 DEF Instr!SamplesHeld

LEMMA SampleDropped ==
    ASSUME Instr!SamplesHeld, NEW t \in Thread, v6' = v6, v8' = v8, v9' = v9 \cup {v3[t].sample},
           \A u \in Thread : v2'[u].samples = v2[u].samples,
           \A u \in Thread : u # t => (Instr!Holds(u)' <=> Instr!Holds(u)),
           \A u \in Thread : v3'[u].sample = v3[u].sample,
           Instr!Holds(t), ~Instr!Holds(t)'
    PROVE  Instr!SamplesHeld'
<1>1. /\ \A x \in 1 .. v6 : Instr!Somewhere(x)
      /\ \A u \in Thread : Instr!Holds(u) => v3[u].sample \in 1 .. v6
      /\ \A u \in Thread : \A i \in 1 .. Len(v2[u].samples) : v2[u].samples[i] \in 1 .. v6
      /\ v9 \subseteq 1 .. v6 /\ \A i \in 1 .. Len(v8) : v8[i] \in 1 .. v6
      /\ Instr!OnceEach
  BY DEF Instr!SamplesHeld
<1>2. \A u \in Thread : Instr!Holds(u)' => Instr!Holds(u)
  OBVIOUS
<1>3. Instr!OnceEach'
  <2>2. ASSUME NEW r \in Thread, NEW u \in Thread, Instr!Holds(r)', Instr!Holds(u)',
               v3'[r].sample = v3'[u].sample
        PROVE  r = u
    BY <1>1, <1>2, <2>2 DEF Instr!OnceEach
  <2>3. ASSUME NEW r \in Thread, NEW u \in Thread, NEW i \in 1 .. Len(v2'[u].samples),
               Instr!Holds(r)'
        PROVE  v2'[u].samples[i] # v3'[r].sample
    BY <1>1, <1>2, <2>3 DEF Instr!OnceEach
  <2>4. ASSUME NEW r \in Thread, NEW j \in 1 .. Len(v8'), Instr!Holds(r)'
        PROVE  v8'[j] # v3'[r].sample
    BY <1>1, <1>2, <2>4 DEF Instr!OnceEach
  <2>5. ASSUME NEW r \in Thread, NEW u \in Thread, NEW i \in 1 .. Len(v2'[r].samples),
               NEW j \in 1 .. Len(v2'[u].samples), v2'[r].samples[i] = v2'[u].samples[j]
        PROVE  r = u /\ i = j
    <3>1. /\ i \in 1 .. Len(v2[r].samples) /\ j \in 1 .. Len(v2[u].samples)
          /\ v2[r].samples[i] = v2[u].samples[j]
      BY <2>5, Zenon
    <3> QED BY <1>1, <3>1 DEF Instr!OnceEach
  <2>6. ASSUME NEW r \in Thread, NEW i \in 1 .. Len(v2'[r].samples), NEW j \in 1 .. Len(v8')
        PROVE  v2'[r].samples[i] # v8'[j]
    BY <1>1, <2>6 DEF Instr!OnceEach
  <2>7. ASSUME NEW i \in 1 .. Len(v8'), NEW j \in 1 .. Len(v8'), v8'[i] = v8'[j] PROVE i = j
    BY <1>1, <2>7 DEF Instr!OnceEach
  <2> QED BY <2>2, <2>3, <2>4, <2>5, <2>6, <2>7 DEF Instr!OnceEach
<1>4. ASSUME NEW x \in 1 .. v6 PROVE Instr!Somewhere(x)'
  <2>1. CASE x = v3[t].sample
    BY <2>1 DEF Instr!Somewhere
  <2>2. CASE x # v3[t].sample /\ \E u \in Thread : Instr!Holds(u) /\ v3[u].sample = x
    <3>1. PICK u \in Thread : Instr!Holds(u) /\ v3[u].sample = x
      BY <2>2
    <3> QED BY <2>2, <3>1 DEF Instr!Somewhere
  <2>3. CASE ~ \E u \in Thread : Instr!Holds(u) /\ v3[u].sample = x
    <3>1. Instr!Somewhere(x)
      BY <1>1, Zenon
    <3>2. CASE \E u \in Thread : \E i \in 1 .. Len(v2[u].samples) : v2[u].samples[i] = x
      BY <3>2, Zenon DEF Instr!Somewhere
    <3>3. CASE x \in v9 \/ \E i \in 1 .. Len(v8) : v8[i] = x
      <4>1. x \in v9' \/ \E i \in 1 .. Len(v8') : v8'[i] = x
        BY <3>3, Zenon
      <4> QED BY <4>1, Zenon DEF Instr!Somewhere
    <3> QED BY <2>3, <3>1, <3>2, <3>3, Zenon DEF Instr!Somewhere
  <2> QED BY <2>1, <2>2, <2>3
<1>5. v9' \subseteq 1 .. v6
  BY <1>1, Zenon
<1> QED BY <1>1, <1>2, <1>3, <1>4, <1>5 DEF Instr!SamplesHeld

LEMMA SamplePushed ==
    ASSUME Instr!TypeOK, Instr!SamplesHeld, NEW t \in Thread, v6' = v6, v8' = v8, v9' = v9,
           \A u \in Thread : u # t => v2'[u].samples = v2[u].samples,
           v2'[t].samples = Append(v2[t].samples, v3[t].sample),
           \A u \in Thread : u # t => (Instr!Holds(u)' <=> Instr!Holds(u)),
           \A u \in Thread : v3'[u].sample = v3[u].sample,
           Instr!Holds(t), ~Instr!Holds(t)'
    PROVE  Instr!SamplesHeld'
<1>1. /\ \A x \in 1 .. v6 : Instr!Somewhere(x)
      /\ \A u \in Thread : Instr!Holds(u) => v3[u].sample \in 1 .. v6
      /\ \A u \in Thread : \A i \in 1 .. Len(v2[u].samples) : v2[u].samples[i] \in 1 .. v6
      /\ v9 \subseteq 1 .. v6 /\ \A i \in 1 .. Len(v8) : v8[i] \in 1 .. v6
      /\ Instr!OnceEach
  BY DEF Instr!SamplesHeld
<1>2. \A u \in Thread : Instr!Holds(u)' => Instr!Holds(u) /\ u # t
  OBVIOUS
<1>3. PICK s : s = v3[t].sample
  OBVIOUS
<1>4. PICK n \in Nat : n = Len(v2[t].samples)
  BY SamplesTyped
<1>5. /\ Len(v2'[t].samples) = n + 1 /\ v2'[t].samples[n + 1] = s
      /\ \A i \in 1 .. n : v2'[t].samples[i] = v2[t].samples[i]
  <2>1. PICK q \in Seq(Nat) : q = v2[t].samples
    BY SamplesTyped
  <2>2. v2'[t].samples = Append(q, s) /\ s \in Nat
    BY <1>3, <2>1, SamplesTyped
  <2> QED BY <1>4, <2>1, <2>2
<1>6. \* What is in a ring now was in it before, or is the sample pushed.
      ASSUME NEW u \in Thread, NEW i \in 1 .. Len(v2'[u].samples)
      PROVE  \/ i \in 1 .. Len(v2[u].samples) /\ v2'[u].samples[i] = v2[u].samples[i]
             \/ u = t /\ i = n + 1 /\ v2'[u].samples[i] = s
  <2>1. CASE u # t
    BY <1>6, <2>1
  <2>2. CASE u = t
    <3>1. i \in 1 .. n + 1
      BY <1>5, <1>6, <2>2
    <3>2. i \in 1 .. n \/ i = n + 1
      BY <3>1
    <3> QED BY <1>4, <1>5, <2>2, <3>2, Zenon
  <2> QED BY <2>1, <2>2
<1>7. \A u \in Thread : \A i \in 1 .. Len(v2[u].samples) : v2[u].samples[i] # s
  BY <1>1, <1>3 DEF Instr!OnceEach
<1>8. Instr!OnceEach'
  <2>2. ASSUME NEW r \in Thread, NEW u \in Thread, Instr!Holds(r)', Instr!Holds(u)',
               v3'[r].sample = v3'[u].sample
        PROVE  r = u
    BY <1>1, <1>2, <2>2 DEF Instr!OnceEach
  <2>3. ASSUME NEW r \in Thread, NEW u \in Thread, NEW i \in 1 .. Len(v2'[u].samples),
               Instr!Holds(r)'
        PROVE  v2'[u].samples[i] # v3'[r].sample
    <3>1. Instr!Holds(r) /\ r # t /\ v3'[r].sample = v3[r].sample
      BY <1>2, <2>3
    <3>2. CASE i \in 1 .. Len(v2[u].samples) /\ v2'[u].samples[i] = v2[u].samples[i]
      BY <1>1, <3>1, <3>2 DEF Instr!OnceEach
    <3>3. CASE v2'[u].samples[i] = s
      BY <1>1, <1>3, <3>1, <3>3 DEF Instr!OnceEach
    <3> QED BY <1>6, <2>3, <3>2, <3>3
  <2>4. ASSUME NEW r \in Thread, NEW j \in 1 .. Len(v8'), Instr!Holds(r)'
        PROVE  v8'[j] # v3'[r].sample
    BY <1>1, <1>2, <2>4 DEF Instr!OnceEach
  <2>5. ASSUME NEW r \in Thread, NEW u \in Thread, NEW i \in 1 .. Len(v2'[r].samples),
               NEW j \in 1 .. Len(v2'[u].samples), v2'[r].samples[i] = v2'[u].samples[j]
        PROVE  r = u /\ i = j
    <3>1. CASE /\ i \in 1 .. Len(v2[r].samples) /\ v2'[r].samples[i] = v2[r].samples[i]
               /\ j \in 1 .. Len(v2[u].samples) /\ v2'[u].samples[j] = v2[u].samples[j]
      <4>1. v2[r].samples[i] = v2[u].samples[j]
        BY <2>5, <3>1, Zenon
      <4> QED BY <1>1, <3>1, <4>1 DEF Instr!OnceEach
    <3>2. CASE v2'[r].samples[i] = s
      <4>1. ~(j \in 1 .. Len(v2[u].samples) /\ v2'[u].samples[j] = v2[u].samples[j])
        BY <1>7, <2>5, <3>2
      <4>2. ~(i \in 1 .. Len(v2[r].samples) /\ v2'[r].samples[i] = v2[r].samples[i])
        BY <1>7, <3>2
      <4>3. u = t /\ j = n + 1 /\ r = t /\ i = n + 1
        BY <1>6, <2>5, <4>1, <4>2
      <4> QED BY <4>3
    <3>3. CASE v2'[u].samples[j] = s
      <4>1. v2'[r].samples[i] = s
        BY <2>5, <3>3
      <4> QED BY <3>2, <4>1
    <3> QED BY <1>6, <2>5, <3>1, <3>2, <3>3, Zenon
  <2>6. ASSUME NEW r \in Thread, NEW i \in 1 .. Len(v2'[r].samples), NEW j \in 1 .. Len(v8')
        PROVE  v2'[r].samples[i] # v8'[j]
    <3>1. CASE i \in 1 .. Len(v2[r].samples) /\ v2'[r].samples[i] = v2[r].samples[i]
      BY <1>1, <2>6, <3>1 DEF Instr!OnceEach
    <3>2. CASE v2'[r].samples[i] = s
      BY <1>1, <1>3, <2>6, <3>2 DEF Instr!OnceEach
    <3> QED BY <1>6, <2>6, <3>1, <3>2
  <2>7. ASSUME NEW i \in 1 .. Len(v8'), NEW j \in 1 .. Len(v8'), v8'[i] = v8'[j] PROVE i = j
    BY <1>1, <2>7 DEF Instr!OnceEach
  <2> QED BY <2>2, <2>3, <2>4, <2>5, <2>6, <2>7, Zenon DEF Instr!OnceEach
<1>9. ASSUME NEW x \in 1 .. v6 PROVE Instr!Somewhere(x)'
  <2>1. CASE x = s
    <3>1. n + 1 \in 1 .. Len(v2'[t].samples) /\ v2'[t].samples[n + 1] = x
      BY <1>5, <2>1
    <3> QED BY <3>1, Zenon DEF Instr!Somewhere
  <2>2. CASE x # s /\ \E u \in Thread : Instr!Holds(u) /\ v3[u].sample = x
    <3>1. PICK u \in Thread : Instr!Holds(u) /\ v3[u].sample = x
      BY <2>2
    <3> QED BY <1>3, <2>2, <3>1 DEF Instr!Somewhere
  <2>3. CASE \E u \in Thread : \E i \in 1 .. Len(v2[u].samples) : v2[u].samples[i] = x
    <3>1. PICK u \in Thread : \E i \in 1 .. Len(v2[u].samples) : v2[u].samples[i] = x
      BY <2>3
    <3>2. PICK i \in 1 .. Len(v2[u].samples) : v2[u].samples[i] = x
      BY <3>1
    <3>3. i \in 1 .. Len(v2'[u].samples) /\ v2'[u].samples[i] = x
      <4>1. CASE u # t
        BY <3>2, <4>1
      <4>2. CASE u = t
        BY <1>4, <1>5, <3>2, <4>2
      <4> QED BY <4>1, <4>2
    <3> QED BY <3>3 DEF Instr!Somewhere
  <2>4. CASE x \in v9 \/ \E i \in 1 .. Len(v8) : v8[i] = x
    BY <2>4 DEF Instr!Somewhere
  <2>5. Instr!Somewhere(x)
    BY <1>1
  <2> QED BY <2>1, <2>2, <2>3, <2>4, <2>5 DEF Instr!Somewhere
<1>10. ASSUME NEW u \in Thread, NEW i \in 1 .. Len(v2'[u].samples)
       PROVE  v2'[u].samples[i] \in 1 .. v6
  <2>1. s \in 1 .. v6
    BY <1>1, <1>3
  <2> QED BY <1>1, <1>6, <1>10, <2>1, Zenon
<1> QED BY <1>1, <1>2, <1>8, <1>9, <1>10 DEF Instr!SamplesHeld

LEMMA SamplePopped ==
    ASSUME Instr!TypeOK, Instr!SamplesHeld, NEW t \in Thread, v6' = v6, v9' = v9, v3' = v3,
           v2[t].samples # <<>>, v8' = Append(v8, Head(v2[t].samples)),
           \A u \in Thread : u # t => v2'[u].samples = v2[u].samples,
           v2'[t].samples = Tail(v2[t].samples)
    PROVE  Instr!SamplesHeld'
<1>1. /\ \A x \in 1 .. v6 : Instr!Somewhere(x)
      /\ \A u \in Thread : Instr!Holds(u) => v3[u].sample \in 1 .. v6
      /\ \A u \in Thread : \A i \in 1 .. Len(v2[u].samples) : v2[u].samples[i] \in 1 .. v6
      /\ v9 \subseteq 1 .. v6 /\ \A i \in 1 .. Len(v8) : v8[i] \in 1 .. v6
      /\ Instr!OnceEach
  BY DEF Instr!SamplesHeld
<1>2. \A u \in Thread : Instr!Holds(u)' <=> Instr!Holds(u)
  BY DEF Instr!Holds
<1>3. PICK q \in Seq(Nat) : q = v2[t].samples
  BY SamplesTyped
<1>4. PICK n \in Nat \ {0}, m \in Nat : n = Len(q) /\ m = Len(v8)
  BY <1>3, SamplesTyped
<1>5. PICK s \in Nat : s = q[1] /\ s = Head(q)
  BY <1>3, <1>4
<1>6. /\ Len(v2'[t].samples) = n - 1
      /\ \A i \in 1 .. n - 1 : v2'[t].samples[i] = q[i + 1]
  BY <1>3, <1>4
<1>7. Len(v8') = m + 1 /\ v8'[m + 1] = s /\ \A i \in 1 .. m : v8'[i] = v8[i]
  <2>1. v8 \in Seq(Nat) /\ v8' = Append(v8, s)
    BY <1>3, <1>5, SamplesTyped
  <2> QED BY <1>4, <2>1
<1>8. \* What is in a ring now was in it before, behind the sample popped.
      ASSUME NEW u \in Thread, NEW i \in 1 .. Len(v2'[u].samples)
      PROVE  \E k \in 1 .. Len(v2[u].samples) :
               /\ v2'[u].samples[i] = v2[u].samples[k]
               /\ IF u = t THEN k = i + 1 ELSE k = i
  <2>1. CASE u # t
    BY <1>8, <2>1
  <2>2. CASE u = t
    <3>2. i \in 1 .. n - 1
      BY <1>6, <1>8, <2>2, Zenon
    <3>1. i \in 1 .. n - 1 /\ i + 1 \in 1 .. n
      BY <3>2
    <3> QED BY <1>3, <1>4, <1>6, <2>2, <3>1, Zenon
  <2> QED BY <2>1, <2>2
<1>9. 1 \in 1 .. Len(v2[t].samples) /\ v2[t].samples[1] = s
  BY <1>3, <1>4, <1>5
<1>10. ASSUME NEW u \in Thread, NEW i \in 1 .. Len(v2'[u].samples) PROVE v2'[u].samples[i] # s
  <2>1. PICK k \in 1 .. Len(v2[u].samples) :
               /\ v2'[u].samples[i] = v2[u].samples[k]
               /\ IF u = t THEN k = i + 1 ELSE k = i
    BY <1>8, <1>10, Zenon
  <2>2. ASSUME v2[u].samples[k] = v2[t].samples[1] PROVE FALSE
    <3>1. u = t /\ k = 1
      BY <1>1, <1>9, <2>2 DEF Instr!OnceEach
    <3>2. i \in Nat \ {0}
      BY <1>4, <1>6, <1>10, <3>1
    <3> QED BY <2>1, <3>1, <3>2
  <2> QED BY <1>9, <2>1, <2>2
<1>11. \A i \in 1 .. Len(v8) : v8[i] # s
  BY <1>1, <1>9 DEF Instr!OnceEach
<1>12. \A u \in Thread : Instr!Holds(u) => v3[u].sample # s
  BY <1>1, <1>9 DEF Instr!OnceEach
<1>13. \A j \in 1 .. Len(v8') : (j \in 1 .. Len(v8) /\ v8'[j] = v8[j]) \/ (j = m + 1 /\ v8'[j] = s)
  BY <1>4, <1>7
<1>14. Instr!OnceEach'
  <2>2. ASSUME NEW r \in Thread, NEW u \in Thread, Instr!Holds(r)', Instr!Holds(u)',
               v3'[r].sample = v3'[u].sample
        PROVE  r = u
    BY <1>1, <1>2, <2>2 DEF Instr!OnceEach
  <2>3. ASSUME NEW r \in Thread, NEW u \in Thread, NEW i \in 1 .. Len(v2'[u].samples),
               Instr!Holds(r)'
        PROVE  v2'[u].samples[i] # v3'[r].sample
    <3>1. PICK k \in 1 .. Len(v2[u].samples) : v2'[u].samples[i] = v2[u].samples[k]
      BY <1>8, <2>3, Zenon
    <3> QED BY <1>1, <1>2, <2>3, <3>1 DEF Instr!OnceEach
  <2>4. ASSUME NEW r \in Thread, NEW j \in 1 .. Len(v8'), Instr!Holds(r)'
        PROVE  v8'[j] # v3'[r].sample
    <3>1. Instr!Holds(r) /\ v3'[r].sample = v3[r].sample
      BY <1>2, <2>4
    <3>2. CASE j \in 1 .. Len(v8) /\ v8'[j] = v8[j]
      BY <1>1, <3>1, <3>2 DEF Instr!OnceEach
    <3>3. CASE v8'[j] = s
      BY <1>12, <3>1, <3>3
    <3> QED BY <1>13, <2>4, <3>2, <3>3
  <2>5. ASSUME NEW r \in Thread, NEW u \in Thread, NEW i \in 1 .. Len(v2'[r].samples),
               NEW j \in 1 .. Len(v2'[u].samples), v2'[r].samples[i] = v2'[u].samples[j]
        PROVE  r = u /\ i = j
    <3>1. PICK k \in 1 .. Len(v2[r].samples) : /\ v2'[r].samples[i] = v2[r].samples[k]
                                               /\ IF r = t THEN k = i + 1 ELSE k = i
      BY <1>8, <2>5
    <3>2. PICK l \in 1 .. Len(v2[u].samples) : /\ v2'[u].samples[j] = v2[u].samples[l]
                                               /\ IF u = t THEN l = j + 1 ELSE l = j
      BY <1>8, <2>5
    <3>3. v2[r].samples[k] = v2[u].samples[l]
      BY <2>5, <3>1, <3>2, Zenon
    <3>4. r = u /\ k = l
      BY <1>1, <3>3 DEF Instr!OnceEach
    <3>5. i \in Int /\ j \in Int
      OBVIOUS
    <3> QED BY <3>1, <3>2, <3>4, <3>5
  <2>6. ASSUME NEW r \in Thread, NEW i \in 1 .. Len(v2'[r].samples), NEW j \in 1 .. Len(v8')
        PROVE  v2'[r].samples[i] # v8'[j]
    <3>1. PICK k \in 1 .. Len(v2[r].samples) : v2'[r].samples[i] = v2[r].samples[k]
      BY <1>8, <2>6, Zenon
    <3>2. CASE j \in 1 .. Len(v8) /\ v8'[j] = v8[j]
      BY <1>1, <3>1, <3>2 DEF Instr!OnceEach
    <3>3. CASE v8'[j] = s
      BY <1>10, <2>6, <3>3, Zenon
    <3> QED BY <1>13, <2>6, <3>2, <3>3
  <2>7. ASSUME NEW i \in 1 .. Len(v8'), NEW j \in 1 .. Len(v8'), v8'[i] = v8'[j] PROVE i = j
    <3>1. CASE i \in 1 .. Len(v8) /\ v8'[i] = v8[i] /\ j \in 1 .. Len(v8) /\ v8'[j] = v8[j]
      BY <1>1, <2>7, <3>1 DEF Instr!OnceEach
    <3>2. CASE i = m + 1 /\ v8'[i] = s
      BY <1>11, <1>13, <2>7, <3>2
    <3>3. CASE j = m + 1 /\ v8'[j] = s
      BY <1>11, <1>13, <2>7, <3>3, Zenon
    <3> QED BY <1>13, <2>7, <3>1, <3>2, <3>3
  <2> QED BY <2>2, <2>3, <2>4, <2>5, <2>6, <2>7 DEF Instr!OnceEach
<1>15. ASSUME NEW x \in 1 .. v6 PROVE Instr!Somewhere(x)'
  <2>1. CASE x = s
    <3>1. m + 1 \in 1 .. Len(v8') /\ v8'[m + 1] = x
      BY <1>7, <2>1
    <3> QED BY <3>1 DEF Instr!Somewhere
  <2>2. CASE \E u \in Thread : Instr!Holds(u) /\ v3[u].sample = x
    BY <1>2, <2>2 DEF Instr!Somewhere
  <2>3. CASE x # s /\ \E u \in Thread : \E i \in 1 .. Len(v2[u].samples) : v2[u].samples[i] = x
    <3>1. PICK u \in Thread : \E i \in 1 .. Len(v2[u].samples) : v2[u].samples[i] = x
      BY <2>3
    <3>2. PICK i \in 1 .. Len(v2[u].samples) : v2[u].samples[i] = x
      BY <3>1
    <3>3. CASE u # t
      BY <3>2, <3>3 DEF Instr!Somewhere
    <3>4. CASE u = t
      <4>1. i # 1 /\ i \in 1 .. n
        BY <1>3, <1>4, <1>5, <2>3, <3>2, <3>4
      <4>2. PICK k \in 1 .. n - 1 : i = k + 1
        <5>1. i - 1 \in 1 .. n - 1 /\ i = (i - 1) + 1
          BY <4>1
        <5> QED BY <5>1
      <4>3. k \in 1 .. Len(v2'[t].samples) /\ v2'[t].samples[k] = x
        BY <1>3, <1>6, <3>2, <3>4, <4>2
      <4> QED BY <4>3, Zenon DEF Instr!Somewhere
    <3> QED BY <3>3, <3>4
  <2>4. CASE x \in v9
    BY <2>4 DEF Instr!Somewhere
  <2>6. CASE \E i \in 1 .. Len(v8) : v8[i] = x
    <3>1. PICK i \in 1 .. Len(v8) : v8[i] = x
      BY <2>6
    <3>2. i \in 1 .. Len(v8') /\ v8'[i] = x
      BY <1>4, <1>7, <3>1
    <3> QED BY <3>2 DEF Instr!Somewhere
  <2>5. Instr!Somewhere(x)
    BY <1>1
  <2> QED BY <2>1, <2>2, <2>3, <2>4, <2>5, <2>6 DEF Instr!Somewhere
<1>16. ASSUME NEW u \in Thread, NEW i \in 1 .. Len(v2'[u].samples)
       PROVE  v2'[u].samples[i] \in 1 .. v6
  <2>1. PICK k \in 1 .. Len(v2[u].samples) : v2'[u].samples[i] = v2[u].samples[k]
    BY <1>8, <1>16, Zenon
  <2> QED BY <1>1, <2>1
<1>17. \A j \in 1 .. Len(v8') : v8'[j] \in 1 .. v6
  <2>1. s \in 1 .. v6
    BY <1>1, <1>9
  <2> QED BY <1>1, <1>13, <2>1
<1> QED BY <1>1, <1>2, <1>14, <1>15, <1>16, <1>17 DEF Instr!SamplesHeld

\* A thread set anew is a thread still.
LEMMA ThreadsTyped ==
    ASSUME Instr!TypeOK, NEW t \in Thread, NEW r \in InstrThreads, v3' = [v3 EXCEPT ![t] = r]
    PROVE  /\ v3' \in [Thread -> InstrThreads] /\ v3'[t] = r
           /\ \A u \in Thread : u # t => v3'[u] = v3[u]
<1>1. v3 \in [Thread -> InstrThreads]
  BY InstrTyped
<1> QED BY <1>1, Zenon

LEMMA RingsTyped ==
    ASSUME Instr!TypeOK, NEW t \in Thread, NEW r \in InstrRings, v2' = [v2 EXCEPT ![t] = r]
    PROVE  /\ v2' \in [Thread -> InstrRings] /\ v2'[t] = r
           /\ \A u \in Thread : u # t => v2'[u] = v2[u]
<1>1. v2 \in [Thread -> InstrRings]
  BY InstrTyped
<1> QED BY <1>1, Zenon

\* A thread whose ring, place and state nobody touched.
LEMMA OwnRingStays ==
    ASSUME NEW u \in Thread, Instr!RingOf(u), v3'[u] = v3[u], v2'[u] = v2[u],
           \A p \in Instr!Place : v1'[p] = u => v1[p] = u
    PROVE  Instr!RingOf(u)'
BY DEF Instr!RingOf, Instr!Place

\* A step of a thread, on itself and its ring.
LEMMA InstrKeptByThread ==
    ASSUME Instr!InstrInv, NEW t \in Thread, NEW r \in InstrThreads, NEW q \in InstrRings,
           v3' = [v3 EXCEPT ![t] = r], v2' = [v2 EXCEPT ![t] = q], v4' = v4, v5' = v5,
           v6' \in Nat, v8' = v8, v1' \in [Instr!Place -> Thread \cup {Nobody}],
           \A p \in Instr!Place : v1[p] # Nobody => v1'[p] = v1[p],
           \A p \in Instr!Place : v1'[p] = v1[p] \/ v1'[p] = t,
           v2[t].retired => q.retired,
           Instr!RingOf(t)', Instr!RegistryHolds', Instr!SamplesHeld'
    PROVE  Instr!InstrInv'
<1>1. Instr!TypeOK
  BY DEF Instr!InstrInv
<1>2. /\ v3' \in [Thread -> InstrThreads] /\ v3'[t] = r
      /\ \A u \in Thread : u # t => v3'[u] = v3[u]
  BY <1>1, ThreadsTyped, Zenon
<1>3. /\ v2' \in [Thread -> InstrRings] /\ v2'[t] = q
      /\ \A u \in Thread : u # t => v2'[u] = v2[u]
  BY <1>1, RingsTyped, Zenon
<1>4. Instr!TypeOK'
  BY <1>1, <1>2, <1>3, InstrTyped, InstrTypedNext
<1>5. ASSUME NEW u \in Thread PROVE Instr!RingOf(u)'
  <2>1. CASE u # t
    <3>1. \A p \in Instr!Place : v1'[p] = u => v1[p] = u
      BY <2>1
    <3> QED BY <1>2, <1>3, <2>1, <3>1, OwnRingStays DEF Instr!InstrInv
  <2> QED BY <2>1
<1>6. ASSUME NEW c \in Collector PROVE Instr!SeenIs(c)'
  <2>1. ASSUME NEW p \in Instr!Place, v1[p] # Nobody
        PROVE  v1'[p] = v1[p] /\ (v2[v1[p]].retired => v2'[v1[p]].retired)
    <3>1. v1[p] \in Thread
      BY <1>1, <2>1, InstrTyped
    <3> QED BY <1>3, <2>1, <3>1
  <2> QED BY <1>1, <2>1, SeenStays DEF Instr!InstrInv
<1> QED BY <1>4, <1>5, <1>6 DEF Instr!InstrInv

\* The fields of a thread and of a ring.
LEMMA ThreadRegistered ==
    ASSUME NEW x \in InstrThreads
    PROVE  \E r \in InstrThreads :
             /\ r = [x EXCEPT !.state = "registered", !.local = TRUE, !.at = "stamped"]
             /\ r.state = "registered" /\ r.local = TRUE /\ r.at = "stamped" /\ r.sample = x.sample
<1>1. PICK y : y = [x EXCEPT !.state = "registered"]
  BY Zenon
<1>2. y \in InstrThreads /\ y.state = "registered" /\ y.sample = x.sample
  BY <1>1 DEF InstrThreads
<1>3. PICK z : z = [y EXCEPT !.local = TRUE]
  BY Zenon
<1>4. z \in InstrThreads /\ z.state = "registered" /\ z.local = TRUE /\ z.sample = x.sample
  BY <1>2, <1>3, Zenon DEF InstrThreads
<1>5. PICK r : r = [z EXCEPT !.at = "stamped"]
  BY Zenon
<1>6. r \in InstrThreads /\ r.state = "registered" /\ r.local = TRUE /\ r.at = "stamped"
      /\ r.sample = x.sample
  BY <1>4, <1>5 DEF InstrThreads
<1>7. r = [x EXCEPT !.state = "registered", !.local = TRUE, !.at = "stamped"]
  BY <1>1, <1>3, <1>5
<1> QED BY <1>6, <1>7, Zenon

LEMMA ThreadExited ==
    ASSUME NEW x \in InstrThreads, NEW a \in {"idle", "retiring"}
    PROVE  \E r \in InstrThreads :
             /\ r = [x EXCEPT !.state = "exited", !.local = FALSE, !.at = a]
             /\ r.state = "exited" /\ r.local = FALSE /\ r.at = a /\ r.sample = x.sample
<1>1. PICK y : y = [x EXCEPT !.state = "exited"]
  BY Zenon
<1>2. y \in InstrThreads /\ y.state = "exited" /\ y.sample = x.sample
  BY <1>1 DEF InstrThreads
<1>3. PICK z : z = [y EXCEPT !.local = FALSE]
  BY Zenon
<1>4. z \in InstrThreads /\ z.state = "exited" /\ z.local = FALSE /\ z.sample = x.sample
  BY <1>2, <1>3, Zenon DEF InstrThreads
<1>5. PICK r : r = [z EXCEPT !.at = a]
  BY Zenon
<1>6. r \in InstrThreads /\ r.state = "exited" /\ r.local = FALSE /\ r.at = a
      /\ r.sample = x.sample
  BY <1>4, <1>5 DEF InstrThreads
<1>7. r = [x EXCEPT !.state = "exited", !.local = FALSE, !.at = a]
  BY <1>1, <1>3, <1>5
<1> QED BY <1>6, <1>7, Zenon

LEMMA ThreadAt ==
    ASSUME NEW x \in InstrThreads, NEW a \in {"idle", "stamped", "claiming", "retiring"}
    PROVE  \E r \in InstrThreads :
             /\ r = [x EXCEPT !.at = a]
             /\ r.state = x.state /\ r.local = x.local /\ r.at = a /\ r.sample = x.sample
             /\ r.place = x.place
<1>1. PICK r : r = [x EXCEPT !.at = a]
  BY Zenon
<1>2. r \in InstrThreads /\ r.state = x.state /\ r.local = x.local /\ r.at = a
      /\ r.sample = x.sample /\ r.place = x.place
  BY <1>1 DEF InstrThreads
<1> QED BY <1>1, <1>2, Zenon

LEMMA NoRingIs ==
    \E q \in InstrRings : /\ q = Instr!NoRing /\ q.samples = <<>> /\ q.retired = FALSE
                          /\ q.memory = "none"
<1>1. <<>> \in Seq(Nat)
  OBVIOUS
<1>2. Instr!NoRing \in InstrRings
  BY <1>1 DEF Instr!NoRing, InstrRings
<1>3. /\ Instr!NoRing.samples = <<>> /\ Instr!NoRing.retired = FALSE
      /\ Instr!NoRing.memory = "none"
  BY DEF Instr!NoRing
<1> QED BY <1>2, <1>3

LEMMA NewRingIs ==
    \E q \in InstrRings : /\ q = Instr!NewRing /\ q.samples = <<>> /\ q.retired = FALSE
                          /\ q.memory = "live"
<1>1. PICK x \in InstrRings : /\ x = Instr!NoRing /\ x.samples = <<>> /\ x.retired = FALSE
                              /\ x.memory = "none"
  BY NoRingIs
<1>2. PICK q : q = [x EXCEPT !.memory = "live"]
  BY Zenon
<1>3. q = Instr!NewRing
  BY <1>1, <1>2 DEF Instr!NewRing
<1>4. q \in InstrRings /\ q.samples = <<>> /\ q.retired = FALSE /\ q.memory = "live"
  BY <1>1, <1>2 DEF InstrRings
<1> QED BY <1>3, <1>4

LEMMA SameRing ==
    ASSUME Instr!TypeOK, NEW t \in Thread, v2' = v2
    PROVE  v2[t] \in InstrRings /\ v2' = [v2 EXCEPT ![t] = v2[t]]
<1>1. v2 \in [Thread -> InstrRings]
  BY InstrTyped
<1> QED BY <1>1

LEMMA InstrKeptByStamp ==
    ASSUME Instr!InstrInv, NEW t \in Thread, Instr!Stamp(t)
    PROVE  Instr!InstrInv'
<1>1. /\ v3[t].at = "idle" /\ v6' = v6 + 1 /\ UNCHANGED <<v1, v2, v4, v5, v8, v9>>
      /\ v3' = [v3 EXCEPT ![t] = [v3[t] EXCEPT !.at = "stamped", !.sample = v6 + 1]]
  BY Zenon DEF Instr!Stamp
<1>2. /\ Instr!TypeOK /\ v3[t] \in InstrThreads /\ v6 \in Nat
      /\ v1 \in [Instr!Place -> Thread \cup {Nobody}]
  BY InstrTyped DEF Instr!InstrInv
<1>3. PICK r : r = [v3[t] EXCEPT !.at = "stamped", !.sample = v6 + 1]
  OBVIOUS
<1>4. r \in InstrThreads /\ r.at = "stamped" /\ r.sample = v6 + 1 /\ r.state = v3[t].state
      /\ r.local = v3[t].local
  <2>1. PICK x \in InstrThreads : x = v3[t]
    BY <1>2
  <2>2. PICK y : y = [x EXCEPT !.at = "stamped"]
    BY Zenon
  <2>3. y \in InstrThreads /\ y.at = "stamped" /\ y.state = x.state /\ y.local = x.local
    BY <2>1, <2>2 DEF InstrThreads
  <2>4. r = [y EXCEPT !.sample = v6 + 1]
    BY <1>3, <2>1, <2>2
  <2> QED BY <1>2, <2>1, <2>3, <2>4 DEF InstrThreads
<1>5. /\ v3' \in [Thread -> InstrThreads] /\ v3'[t] = r
      /\ \A u \in Thread : u # t => v3'[u] = v3[u]
  BY <1>1, <1>2, <1>3, <1>4, ThreadsTyped, Zenon
<1>7. Instr!RegistryHolds'
  BY <1>1 DEF Instr!InstrInv, Instr!RegistryHolds, Instr!Place
<1>8. Instr!RingOf(t)'
  BY <1>1, <1>4, <1>5 DEF Instr!InstrInv, Instr!RingOf
<1>9. v2[t] \in InstrRings /\ v2' = [v2 EXCEPT ![t] = v2[t]]
  BY <1>1, <1>2, SameRing
<1>10. Instr!SamplesHeld'
  <2>1. ~Instr!Holds(t) /\ Instr!Holds(t)'
    BY <1>1, <1>4, <1>5 DEF Instr!Holds
  <2>2. \A u \in Thread : u # t => (Instr!Holds(u)' <=> Instr!Holds(u))
    BY <1>5 DEF Instr!Holds
  <2> QED BY <1>1, <1>2, <1>4, <1>5, <2>1, <2>2, SampleStamped DEF Instr!InstrInv
<1>11. v6' \in Nat /\ v1' = v1 /\ v3' = [v3 EXCEPT ![t] = r]
  BY <1>1, <1>2, <1>3
<1> QED BY <1>1, <1>2, <1>4, <1>7, <1>8, <1>9, <1>10, <1>11, InstrKeptByThread, Zenon

\* Where a thread is done with its sample, it is in its ring or dropped.
LEMMA InstrKeptByDone ==
    ASSUME Instr!InstrInv, NEW t \in Thread, v3[t].at = "stamped",
           v3' = [v3 EXCEPT ![t] = [v3[t] EXCEPT !.at = "idle"]],
           UNCHANGED <<v1, v4, v5, v6, v8>>,
           \/ v2' = v2 /\ v9' = v9 \cup {v3[t].sample}
           \/ /\ v2[t].memory = "live" /\ v9' = v9
              /\ v2' = [v2 EXCEPT ![t] = [v2[t] EXCEPT !.samples = Append(@, v3[t].sample)]]
    PROVE  Instr!InstrInv'
<1>1. /\ Instr!TypeOK /\ v3[t] \in InstrThreads /\ v6 \in Nat /\ v2[t] \in InstrRings
      /\ v1 \in [Instr!Place -> Thread \cup {Nobody}]
  BY InstrTyped DEF Instr!InstrInv
<1>2. PICK r \in InstrThreads :
        /\ r = [v3[t] EXCEPT !.at = "idle"] /\ r.state = v3[t].state /\ r.local = v3[t].local
        /\ r.at = "idle" /\ r.sample = v3[t].sample
  BY <1>1, ThreadAt, Zenon
<1>3. /\ v3' \in [Thread -> InstrThreads] /\ v3'[t] = r
      /\ \A u \in Thread : u # t => v3'[u] = v3[u]
  BY <1>1, <1>2, ThreadsTyped, Zenon
<1>4. PICK q \in InstrRings :
        /\ v2' = [v2 EXCEPT ![t] = q] /\ q.retired = v2[t].retired /\ q.memory = v2[t].memory
        /\ \/ q = v2[t] /\ v9' = v9 \cup {v3[t].sample}
           \/ v9' = v9 /\ q.memory = "live" /\ q.samples = Append(v2[t].samples, v3[t].sample)
  <2>1. CASE v2' = v2 /\ v9' = v9 \cup {v3[t].sample}
    BY <1>1, <2>1, SameRing
  <2>2. CASE /\ v2[t].memory = "live" /\ v9' = v9
             /\ v2' = [v2 EXCEPT ![t] = [v2[t] EXCEPT !.samples = Append(@, v3[t].sample)]]
    <3>1. PICK x \in InstrRings, n \in Nat : x = v2[t] /\ n = v3[t].sample
      BY <1>1 DEF InstrThreads
    <3>2. PICK s : s = Append(x.samples, n)
      BY Zenon
    <3>3. s \in Seq(Nat)
      BY <3>2 DEF InstrRings
    <3>4. PICK q : q = [x EXCEPT !.samples = s]
      BY Zenon
    <3>5. q \in InstrRings /\ q.retired = x.retired /\ q.memory = x.memory /\ q.samples = s
      BY <3>3, <3>4 DEF InstrRings
    <3>6. v2' = [v2 EXCEPT ![t] = q]
      BY <2>2, <3>1, <3>2, <3>4
    <3> QED BY <2>2, <3>1, <3>2, <3>5, <3>6, Zenon
  <2> QED BY <2>1, <2>2
<1>5. /\ v2' \in [Thread -> InstrRings] /\ v2'[t] = q
      /\ \A u \in Thread : u # t => v2'[u] = v2[u]
  BY <1>1, <1>4, RingsTyped, Zenon
<1>6. \A u \in Thread : v2'[u].memory = v2[u].memory
  BY <1>4, <1>5
<1>7. Instr!RegistryHolds'
  <2>1. \A p \in Instr!Place : v1[p] # Nobody => v1[p] \in Thread
    BY <1>1
  <2> QED BY <1>6, <2>1 DEF Instr!InstrInv, Instr!RegistryHolds, Instr!Place
<1>8. Instr!RingOf(t)'
  BY <1>2, <1>3, <1>4, <1>5 DEF Instr!InstrInv, Instr!RingOf
<1>10. Instr!SamplesHeld'
  <2>1. Instr!Holds(t) /\ ~Instr!Holds(t)'
    BY <1>2, <1>3 DEF Instr!Holds
  <2>2. \A u \in Thread : u # t => (Instr!Holds(u)' <=> Instr!Holds(u))
    BY <1>3 DEF Instr!Holds
  <2>3. \A u \in Thread : v3'[u].sample = v3[u].sample
    BY <1>2, <1>3
  <2>4. Instr!SamplesHeld
    BY DEF Instr!InstrInv
  <2>5. CASE q = v2[t] /\ v9' = v9 \cup {v3[t].sample}
    <3>1. \A u \in Thread : v2'[u].samples = v2[u].samples
      BY <1>5, <2>5
    <3> QED BY <2>1, <2>2, <2>3, <2>4, <2>5, <3>1, SampleDropped
  <2>6. CASE v9' = v9 /\ q.samples = Append(v2[t].samples, v3[t].sample)
    BY <1>1, <1>5, <2>1, <2>2, <2>3, <2>4, <2>6, SamplePushed
  <2> QED BY <1>4, <2>5, <2>6
<1> QED BY <1>1, <1>2, <1>4, <1>7, <1>8, <1>10, InstrKeptByThread, Zenon

LEMMA InstrKeptByPush ==
    ASSUME Instr!InstrInv, NEW t \in Thread, Instr!Push(t) \/ Instr!Skip(t)
    PROVE  Instr!InstrInv'
<1>1. /\ v3[t].at = "stamped" /\ UNCHANGED <<v1, v4, v5, v6, v8>>
      /\ v3' = [v3 EXCEPT ![t] = [v3[t] EXCEPT !.at = "idle"]]
      /\ \/ v2' = v2 /\ v9' = v9 \cup {v3[t].sample}
         \/ /\ v3[t].local /\ v9' = v9
            /\ v2' = [v2 EXCEPT ![t] = [v2[t] EXCEPT !.samples = Append(@, v3[t].sample)]]
  BY DEF Instr!Push, Instr!Skip
<1>2. v3[t].local => v2[t].memory = "live"
  BY DEF Instr!InstrInv, Instr!RingOf
<1> QED BY <1>1, <1>2, InstrKeptByDone, Zenon

\* A step that moves no sample.
LEMMA InstrKeptByMove ==
    ASSUME Instr!InstrInv, NEW t \in Thread, NEW r \in InstrThreads, NEW q \in InstrRings,
           v3' = [v3 EXCEPT ![t] = r], v2' = [v2 EXCEPT ![t] = q],
           UNCHANGED <<v4, v5, v6, v8, v9>>, v1' \in [Instr!Place -> Thread \cup {Nobody}],
           \A p \in Instr!Place : v1[p] # Nobody => v1'[p] = v1[p],
           \A p \in Instr!Place : v1'[p] = v1[p] \/ v1'[p] = t,
           v2[t].retired => q.retired,
           q.samples = v2[t].samples, r.sample = v3[t].sample,
           r.at \in {"stamped", "claiming"} <=> v3[t].at \in {"stamped", "claiming"},
           Instr!RingOf(t)', Instr!RegistryHolds'
    PROVE  Instr!InstrInv'
<1>1. Instr!TypeOK /\ v6 \in Nat
  BY InstrTyped DEF Instr!InstrInv
<1>2. /\ v3' \in [Thread -> InstrThreads] /\ v3'[t] = r
      /\ \A u \in Thread : u # t => v3'[u] = v3[u]
  BY <1>1, ThreadsTyped, Zenon
<1>3. /\ v2' \in [Thread -> InstrRings] /\ v2'[t] = q
      /\ \A u \in Thread : u # t => v2'[u] = v2[u]
  BY <1>1, RingsTyped, Zenon
<1>4. ASSUME NEW u \in Thread
      PROVE  /\ Instr!Holds(u)' <=> Instr!Holds(u)
             /\ v3'[u].sample = v3[u].sample
             /\ v2'[u].samples = v2[u].samples
  BY <1>2, <1>3 DEF Instr!Holds
<1>5. Instr!SamplesHeld'
  BY <1>4, SamplesStay DEF Instr!InstrInv
<1> QED BY <1>1, <1>5, InstrKeptByThread, Zenon

LEMMA InstrKeptByLook ==
    ASSUME Instr!InstrInv, NEW t \in Thread, Instr!LookForRoom(t)
    PROVE  Instr!InstrInv'
<1>1. /\ v3[t].at = "stamped" /\ ~v3[t].local /\ v3[t].state = "new"
      /\ UNCHANGED <<v1, v4, v5, v6, v8, v9>>
      /\ \/ v2' = v2 /\ v3' = [v3 EXCEPT ![t] = [v3[t] EXCEPT !.state = "failed"]]
         \/ /\ v2' = [v2 EXCEPT ![t] = Instr!NewRing]
            /\ v3' = [v3 EXCEPT ![t] = [v3[t] EXCEPT !.at = "claiming"]]
  BY DEF Instr!LookForRoom
<1>2. /\ Instr!TypeOK /\ v3[t] \in InstrThreads /\ v2[t] \in InstrRings
      /\ v1 \in [Instr!Place -> Thread \cup {Nobody}]
  BY InstrTyped DEF Instr!InstrInv
<1>3. v2[t].memory = "none" /\ v2[t].samples = <<>> /\ ~v2[t].retired
  BY <1>1 DEF Instr!InstrInv, Instr!RingOf
<1>4. \A p \in Instr!Place : v1[p] # t
  <2>1. t # Nobody
    BY InstrNumbers
  <2> QED BY <1>3, <2>1 DEF Instr!InstrInv, Instr!RegistryHolds
<1>5. \A p \in Instr!Place : v1[p] # Nobody => v1[p] \in Thread
  BY <1>2
<1>6. CASE v2' = v2 /\ v3' = [v3 EXCEPT ![t] = [v3[t] EXCEPT !.state = "failed"]]
  <2>1. PICK r : r = [v3[t] EXCEPT !.state = "failed"]
    BY Zenon
  <2>2. r \in InstrThreads /\ r.state = "failed" /\ r.local = v3[t].local /\ r.at = v3[t].at
        /\ r.sample = v3[t].sample
    <3>1. PICK x \in InstrThreads : x = v3[t]
      BY <1>2
    <3> QED BY <2>1, <3>1 DEF InstrThreads
  <2>3. v3'[t] = r
    BY <1>2, <1>6, <2>1, <2>2, ThreadsTyped, Zenon
  <2>4. Instr!RingOf(t)'
    BY <1>1, <1>3, <1>6, <2>2, <2>3 DEF Instr!RingOf
  <2>5. Instr!RegistryHolds'
    BY <1>1, <1>6 DEF Instr!InstrInv, Instr!RegistryHolds, Instr!Place
  <2>6. v2' = [v2 EXCEPT ![t] = v2[t]]
    BY <1>2, <1>6, SameRing
  <2> QED BY <1>1, <1>2, <1>6, <2>1, <2>2, <2>4, <2>5, <2>6, InstrKeptByMove, Zenon
<1>7. CASE /\ v2' = [v2 EXCEPT ![t] = Instr!NewRing]
           /\ v3' = [v3 EXCEPT ![t] = [v3[t] EXCEPT !.at = "claiming"]]
  <2>1. PICK r \in InstrThreads :
          /\ r = [v3[t] EXCEPT !.at = "claiming"] /\ r.state = v3[t].state
          /\ r.local = v3[t].local /\ r.at = "claiming" /\ r.sample = v3[t].sample
    BY <1>2, ThreadAt, Zenon
  <2>2. PICK q \in InstrRings : /\ q = Instr!NewRing /\ q.samples = <<>> /\ q.retired = FALSE
                                /\ q.memory = "live"
    BY NewRingIs
  <2>3. v3'[t] = r /\ v2'[t] = q /\ \A u \in Thread : u # t => v2'[u] = v2[u]
    BY <1>2, <1>7, <2>1, <2>2, ThreadsTyped, RingsTyped, Zenon
  <2>4. Instr!RingOf(t)'
    <3>1. \A p \in Instr!Place : v1'[p] # t
      BY <1>1, <1>4
    <3> QED BY <1>1, <2>1, <2>2, <2>3, <3>1 DEF Instr!RingOf, Instr!Place
  <2>5. Instr!RegistryHolds'
    BY <1>1, <1>4, <1>5, <2>3 DEF Instr!InstrInv, Instr!RegistryHolds, Instr!Place
  <2>6. v2' = [v2 EXCEPT ![t] = q] /\ v3' = [v3 EXCEPT ![t] = r]
    BY <1>7, <2>1, <2>2
  <2> QED BY <1>1, <1>2, <1>3, <2>1, <2>2, <2>4, <2>5, <2>6, InstrKeptByMove, Zenon
<1> QED BY <1>1, <1>6, <1>7

LEMMA InstrKeptByClaim ==
    ASSUME Instr!InstrInv, NEW t \in Thread, Instr!Claim(t)
    PROVE  Instr!InstrInv'
<1>1. PICK p : p = v3[t].place
  OBVIOUS
<1>2. /\ v3[t].at = "claiming" /\ UNCHANGED <<v4, v5, v6, v8, v9>>
      /\ \/ /\ v1[p] = Nobody /\ v1' = [v1 EXCEPT ![p] = t] /\ v2' = v2
            /\ v3' = [v3 EXCEPT ![t] = [v3[t] EXCEPT !.state = "registered", !.local = TRUE,
                                                     !.at = "stamped"]]
         \/ /\ v1' = v1 /\ v2' = v2 /\ p < Places
            /\ v3' = [v3 EXCEPT ![t] = [v3[t] EXCEPT !.place = p + 1]]
         \/ /\ v1' = v1 /\ v2' = [v2 EXCEPT ![t] = Instr!NoRing]
            /\ v3' = [v3 EXCEPT ![t] = [v3[t] EXCEPT !.state = "failed", !.at = "stamped"]]
  BY <1>1, Zenon DEF Instr!Claim
<1>3. /\ Instr!TypeOK /\ v3[t] \in InstrThreads /\ v2[t] \in InstrRings
      /\ v1 \in [Instr!Place -> Thread \cup {Nobody}]
  BY InstrTyped DEF Instr!InstrInv
<1>4. p \in Instr!Place
  BY <1>1, <1>3 DEF InstrThreads
<1>5. /\ v3[t].state = "new" /\ ~v3[t].local /\ v2[t].memory = "live" /\ ~v2[t].retired
      /\ v2[t].samples = <<>> /\ \A k \in Instr!Place : v1[k] # t
  BY <1>2 DEF Instr!InstrInv, Instr!RingOf
<1>6. \A k \in Instr!Place : v1[k] # Nobody => v1[k] \in Thread
  BY <1>3
<1>7. t # Nobody
  BY InstrNumbers
<1>8. Instr!RegistryHolds
  BY DEF Instr!InstrInv
<1>9. CASE /\ v1[p] = Nobody /\ v1' = [v1 EXCEPT ![p] = t] /\ v2' = v2
           /\ v3' = [v3 EXCEPT ![t] = [v3[t] EXCEPT !.state = "registered", !.local = TRUE,
                                                    !.at = "stamped"]]
  <2>1. PICK r \in InstrThreads :
          /\ r = [v3[t] EXCEPT !.state = "registered", !.local = TRUE, !.at = "stamped"]
          /\ r.state = "registered" /\ r.local = TRUE /\ r.at = "stamped"
          /\ r.sample = v3[t].sample
    BY <1>3, ThreadRegistered, Zenon
  <2>2. v3'[t] = r /\ v3' = [v3 EXCEPT ![t] = r]
    BY <1>3, <1>9, <2>1, ThreadsTyped, Zenon
  <2>3. v1'[p] = t /\ \A k \in Instr!Place : k # p => v1'[k] = v1[k]
    BY <1>3, <1>4, <1>9
  <2>4. v1' \in [Instr!Place -> Thread \cup {Nobody}]
    BY <1>3, <1>4, <1>9
  <2>5. Instr!RingOf(t)'
    BY <1>5, <1>9, <2>1, <2>2, Zenon DEF Instr!RingOf
  <2>6. Instr!RegistryHolds'
    <3>1. ASSUME NEW k \in Instr!Place, v1'[k] # Nobody PROVE v2'[v1'[k]].memory = "live"
      BY <1>5, <1>8, <1>9, <2>3, <3>1 DEF Instr!RegistryHolds
    <3>2. ASSUME NEW k \in Instr!Place, NEW l \in Instr!Place, v1'[k] # Nobody, v1'[k] = v1'[l]
          PROVE  k = l
      BY <1>5, <1>8, <2>3, <3>2 DEF Instr!RegistryHolds
    <3> QED BY <3>1, <3>2 DEF Instr!RegistryHolds, Instr!Place
  <2>7. v2' = [v2 EXCEPT ![t] = v2[t]]
    BY <1>3, <1>9, SameRing
  <2>8. /\ \A k \in Instr!Place : v1[k] # Nobody => v1'[k] = v1[k]
        /\ \A k \in Instr!Place : v1'[k] = v1[k] \/ v1'[k] = t
    BY <1>9, <2>3
  <2>9. r.at \in {"stamped", "claiming"} <=> v3[t].at \in {"stamped", "claiming"}
    BY <1>2, <2>1
  <2> QED BY <1>2, <1>3, <2>1, <2>2, <2>4, <2>5, <2>6, <2>7, <2>8, <2>9, InstrKeptByMove,
     Zenon
<1>10. CASE /\ v1' = v1 /\ v2' = v2 /\ p < Places
            /\ v3' = [v3 EXCEPT ![t] = [v3[t] EXCEPT !.place = p + 1]]
  <2>1. PICK r : r = [v3[t] EXCEPT !.place = p + 1]
    BY Zenon
  <2>2. r \in InstrThreads /\ r.state = v3[t].state /\ r.local = v3[t].local
        /\ r.at = v3[t].at /\ r.sample = v3[t].sample
    <3>1. PICK x \in InstrThreads : x = v3[t]
      BY <1>3
    <3>2. PICK k \in Instr!Place : k = p + 1
      BY <1>4, <1>10, InstrNumbers DEF Instr!Place
    <3>3. r = [x EXCEPT !.place = k]
      BY <2>1, <3>1, <3>2
    <3> QED BY <3>1, <3>3 DEF InstrThreads
  <2>3. v3'[t] = r
    BY <1>3, <1>10, <2>1, <2>2, ThreadsTyped, Zenon
  <2>4. Instr!RingOf(t)'
    BY <1>2, <1>5, <1>10, <2>2, <2>3 DEF Instr!RingOf, Instr!Place
  <2>5. Instr!RegistryHolds'
    BY <1>8, <1>10 DEF Instr!RegistryHolds, Instr!Place
  <2>6. v2' = [v2 EXCEPT ![t] = v2[t]]
    BY <1>3, <1>10, SameRing
  <2> QED BY <1>2, <1>3, <1>10, <2>1, <2>2, <2>4, <2>5, <2>6, InstrKeptByMove, Zenon
<1>11. CASE /\ v1' = v1 /\ v2' = [v2 EXCEPT ![t] = Instr!NoRing]
            /\ v3' = [v3 EXCEPT ![t] = [v3[t] EXCEPT !.state = "failed", !.at = "stamped"]]
  <2>1. PICK r : r = [v3[t] EXCEPT !.state = "failed", !.at = "stamped"]
    OBVIOUS
  <2>2. r \in InstrThreads /\ r.state = "failed" /\ r.local = v3[t].local
        /\ r.at = "stamped" /\ r.sample = v3[t].sample
    <3>1. PICK x \in InstrThreads : x = v3[t]
      BY <1>3
    <3>2. PICK y : y = [x EXCEPT !.state = "failed"]
      BY Zenon
    <3>3. y \in InstrThreads /\ y.state = "failed" /\ y.local = x.local /\ y.sample = x.sample
      BY <3>1, <3>2 DEF InstrThreads
    <3>4. r = [y EXCEPT !.at = "stamped"]
      BY <2>1, <3>1, <3>2
    <3> QED BY <3>1, <3>3, <3>4 DEF InstrThreads
  <2>3. PICK q \in InstrRings : /\ q = Instr!NoRing /\ q.samples = <<>> /\ q.retired = FALSE
                                /\ q.memory = "none"
    BY NoRingIs
  <2>4. v3'[t] = r /\ v2'[t] = q /\ \A u \in Thread : u # t => v2'[u] = v2[u]
    BY <1>3, <1>11, <2>1, <2>2, <2>3, ThreadsTyped, RingsTyped, Zenon
  <2>5. Instr!RingOf(t)'
    BY <1>5, <2>2, <2>3, <2>4 DEF Instr!RingOf
  <2>6. Instr!RegistryHolds'
    BY <1>5, <1>6, <1>8, <1>11, <2>4 DEF Instr!RegistryHolds, Instr!Place
  <2>7. r.at \in {"stamped", "claiming"} <=> v3[t].at \in {"stamped", "claiming"}
    BY <1>2, <2>2
  <2>8. v2' = [v2 EXCEPT ![t] = q] /\ v3' = [v3 EXCEPT ![t] = r]
    BY <1>11, <2>1, <2>3
  <2>9. q.samples = v2[t].samples /\ (v2[t].retired => q.retired)
    BY <1>5, <2>3
  <2>10. /\ v1' \in [Instr!Place -> Thread \cup {Nobody}]
         /\ \A k \in Instr!Place : v1[k] # Nobody => v1'[k] = v1[k]
         /\ \A k \in Instr!Place : v1'[k] = v1[k] \/ v1'[k] = t
    BY <1>3, <1>11
  <2>11. r.sample = v3[t].sample
    BY <2>2
  <2>12. UNCHANGED <<v4, v5, v6, v8, v9>>
    BY <1>2
  <2> QED BY <2>2, <2>5, <2>6, <2>7, <2>8, <2>9, <2>10, <2>11, <2>12, InstrKeptByMove,
     Zenon
<1> QED BY <1>2, <1>9, <1>10, <1>11

LEMMA InstrKeptByExit ==
    ASSUME Instr!InstrInv, NEW t \in Thread, Instr!Exit(t)
    PROVE  Instr!InstrInv'
<1>1. PICK a \in {"idle", "retiring"} : a = IF v3[t].local THEN "retiring" ELSE "idle"
  OBVIOUS
<1>2. /\ v3[t].at = "idle" /\ v3[t].state # "exited"
      /\ UNCHANGED <<v1, v2, v4, v5, v6, v8, v9>>
      /\ v3' = [v3 EXCEPT ![t] = [v3[t] EXCEPT !.state = "exited", !.local = FALSE, !.at = a]]
  BY <1>1, Zenon DEF Instr!Exit
<1>3. /\ Instr!TypeOK /\ v3[t] \in InstrThreads /\ v2[t] \in InstrRings
      /\ v1 \in [Instr!Place -> Thread \cup {Nobody}]
  BY InstrTyped DEF Instr!InstrInv
<1>4. PICK r \in InstrThreads :
        /\ r = [v3[t] EXCEPT !.state = "exited", !.local = FALSE, !.at = a]
        /\ r.state = "exited" /\ r.local = FALSE /\ r.at = a /\ r.sample = v3[t].sample
  BY <1>1, <1>3, ThreadExited, Zenon
<1>5. v3'[t] = r /\ v3' = [v3 EXCEPT ![t] = r]
  BY <1>2, <1>3, <1>4, ThreadsTyped, Zenon
<1>6. Instr!RingOf(t)'
  BY <1>1, <1>2, <1>4, <1>5 DEF Instr!InstrInv, Instr!RingOf
<1>7. Instr!RegistryHolds'
  BY <1>2 DEF Instr!InstrInv, Instr!RegistryHolds, Instr!Place
<1>8. v2' = [v2 EXCEPT ![t] = v2[t]]
  BY <1>2, <1>3, SameRing
<1>9. r.at \in {"stamped", "claiming"} <=> v3[t].at \in {"stamped", "claiming"}
  BY <1>1, <1>2, <1>4
<1> QED BY <1>2, <1>3, <1>4, <1>5, <1>6, <1>7, <1>8, <1>9, InstrKeptByMove, Zenon

LEMMA InstrKeptByRetire ==
    ASSUME Instr!InstrInv, NEW t \in Thread, Instr!Retire(t)
    PROVE  Instr!InstrInv'
<1>1. /\ v3[t].at = "retiring" /\ UNCHANGED <<v1, v4, v5, v6, v8, v9>>
      /\ v3' = [v3 EXCEPT ![t] = [v3[t] EXCEPT !.at = "idle"]]
      /\ v2' = [v2 EXCEPT ![t] = [v2[t] EXCEPT !.retired = TRUE]]
  BY DEF Instr!Retire
<1>2. /\ Instr!TypeOK /\ v3[t] \in InstrThreads /\ v2[t] \in InstrRings
      /\ v1 \in [Instr!Place -> Thread \cup {Nobody}]
  BY InstrTyped DEF Instr!InstrInv
<1>3. PICK r \in InstrThreads :
        /\ r = [v3[t] EXCEPT !.at = "idle"] /\ r.state = v3[t].state /\ r.local = v3[t].local
        /\ r.at = "idle" /\ r.sample = v3[t].sample
  BY <1>2, ThreadAt, Zenon
<1>4. PICK q \in InstrRings :
        /\ q = [v2[t] EXCEPT !.retired = TRUE] /\ q.retired /\ q.memory = v2[t].memory
        /\ q.samples = v2[t].samples
  <2>1. PICK x \in InstrRings : x = v2[t]
    BY <1>2
  <2>2. PICK q : q = [x EXCEPT !.retired = TRUE]
    BY Zenon
  <2>3. q \in InstrRings /\ q.retired /\ q.memory = x.memory /\ q.samples = x.samples
    BY <2>1, <2>2, Zenon DEF InstrRings
  <2> QED BY <2>1, <2>2, <2>3, Zenon
<1>5. v3'[t] = r /\ v2'[t] = q /\ \A u \in Thread : u # t => v2'[u] = v2[u]
  BY <1>1, <1>2, <1>3, <1>4, ThreadsTyped, RingsTyped, Zenon
<1>6. Instr!RingOf(t)'
  BY <1>1, <1>3, <1>4, <1>5, Zenon DEF Instr!InstrInv, Instr!RingOf
<1>7. Instr!RegistryHolds'
  <2>1. \A p \in Instr!Place : v1[p] # Nobody => v1[p] \in Thread
    BY <1>2
  <2>2. \A u \in Thread : v2'[u].memory = v2[u].memory
    BY <1>4, <1>5, Zenon
  <2> QED BY <1>1, <2>1, <2>2 DEF Instr!InstrInv, Instr!RegistryHolds, Instr!Place
<1>8. r.at \in {"stamped", "claiming"} <=> v3[t].at \in {"stamped", "claiming"}
  BY <1>1, <1>3
<1>9. v2' = [v2 EXCEPT ![t] = q] /\ v3' = [v3 EXCEPT ![t] = r]
  BY <1>1, <1>3, <1>4
<1> QED BY <1>1, <1>2, <1>3, <1>4, <1>6, <1>7, <1>8, <1>9, InstrKeptByMove, Zenon

\* A collector set anew is a collector still.
LEMMA CollectorsTyped ==
    ASSUME Instr!TypeOK, NEW c \in Collector, NEW k \in InstrCollectors, v4' = [v4 EXCEPT ![c] = k]
    PROVE  /\ v4' \in [Collector -> InstrCollectors] /\ v4'[c] = k
           /\ \A d \in Collector : d # c => v4'[d] = v4[d]
<1>1. v4 \in [Collector -> InstrCollectors]
  BY InstrTyped
<1> QED BY <1>1, Zenon

\* A step of a collector on itself and on the lock.
LEMMA InstrKeptByCollector ==
    ASSUME Instr!InstrInv, NEW c \in Collector, NEW k \in InstrCollectors,
           v4' = [v4 EXCEPT ![c] = k], UNCHANGED <<v1, v2, v3, v6, v8, v9>>,
           v5' \in Collector \cup {Nobody},
           \A d \in Collector : d # c => (v5' = d <=> v5 = d),
           Instr!SeenIs(c)'
    PROVE  Instr!InstrInv'
<1>1. Instr!TypeOK
  BY DEF Instr!InstrInv
<1>2. /\ v4' \in [Collector -> InstrCollectors] /\ v4'[c] = k
      /\ \A d \in Collector : d # c => v4'[d] = v4[d]
  BY <1>1, CollectorsTyped, Zenon
<1>3. Instr!TypeOK'
  BY <1>1, <1>2, InstrTyped, InstrTypedNext
<1>4. Instr!RegistryHolds'
  BY DEF Instr!InstrInv, Instr!RegistryHolds, Instr!Place
<1>5. Instr!SamplesHeld'
  BY SamplesStay DEF Instr!InstrInv, Instr!Holds
<1>6. ASSUME NEW t \in Thread PROVE Instr!RingOf(t)'
  BY OwnRingStays DEF Instr!InstrInv
<1>7. ASSUME NEW d \in Collector PROVE Instr!SeenIs(d)'
  <2>1. CASE d = c
    BY <2>1
  <2>2. CASE d # c
    <3>1. v4'[d] = v4[d] /\ (v5' = d <=> v5 = d)
      BY <1>2, <2>2
    <3> QED BY <1>1, <3>1, SeenStays DEF Instr!InstrInv
  <2> QED BY <2>1, <2>2
<1> QED BY <1>3, <1>4, <1>5, <1>6, <1>7 DEF Instr!InstrInv

\* A step of a collector that takes the oldest sample of a ring.
LEMMA InstrKeptByPop ==
    ASSUME Instr!InstrInv, NEW u \in Thread, v2[u].samples # <<>>,
           v2' = [v2 EXCEPT ![u] = [v2[u] EXCEPT !.samples = Tail(@)]],
           v8' = Append(v8, Head(v2[u].samples)), UNCHANGED <<v1, v3, v4, v5, v6, v9>>
    PROVE  Instr!InstrInv'
<1>1. /\ Instr!TypeOK /\ v2[u] \in InstrRings /\ v8 \in Seq(Nat)
      /\ v1 \in [Instr!Place -> Thread \cup {Nobody}]
  BY InstrTyped DEF Instr!InstrInv
<1>2. PICK x \in InstrRings : x = v2[u]
  BY <1>1
<1>3. PICK s : s = Tail(x.samples)
  BY Zenon
<1>4. s \in Seq(Nat) /\ Head(x.samples) \in Nat
  BY <1>2, <1>3 DEF InstrRings
<1>5. PICK q : q = [x EXCEPT !.samples = s]
  BY Zenon
<1>6. /\ q \in InstrRings /\ q.samples = s /\ q.retired = x.retired /\ q.memory = x.memory
  BY <1>2, <1>4, <1>5, Zenon DEF InstrRings
<1>7. v2' = [v2 EXCEPT ![u] = q]
  BY <1>2, <1>3, <1>5
<1>8. /\ v2' \in [Thread -> InstrRings] /\ v2'[u] = q
      /\ \A t \in Thread : t # u => v2'[t] = v2[t]
  BY <1>1, <1>6, <1>7, RingsTyped, Zenon
<1>9. v8' \in Seq(Nat)
  BY <1>1, <1>2, <1>4
<1>10. Instr!TypeOK'
  BY <1>1, <1>8, <1>9, InstrTyped, InstrTypedNext
<1>11. \A t \in Thread : v2'[t].memory = v2[t].memory /\ v2'[t].retired = v2[t].retired
  BY <1>2, <1>6, <1>8
<1>12. \A p \in Instr!Place : v1[p] # Nobody => v1[p] \in Thread
  BY <1>1
<1>13. Instr!RegistryHolds'
  BY <1>11, <1>12 DEF Instr!InstrInv, Instr!RegistryHolds, Instr!Place
<1>14. ASSUME NEW t \in Thread PROVE Instr!RingOf(t)'
  <2>1. CASE t # u
    BY <1>8, <2>1, OwnRingStays DEF Instr!InstrInv
  <2>2. CASE t = u
    BY <1>11, <2>2 DEF Instr!InstrInv, Instr!RingOf
  <2> QED BY <2>1, <2>2
<1>15. ASSUME NEW c \in Collector PROVE Instr!SeenIs(c)'
  <2>1. \A p \in Instr!Place : v1[p] # Nobody =>
           v1'[p] = v1[p] /\ (v2[v1[p]].retired => v2'[v1[p]].retired)
    BY <1>11, <1>12
  <2> QED BY <1>1, <2>1, SeenStays DEF Instr!InstrInv
<1>16. Instr!SamplesHeld'
  <2>1. v2'[u].samples = Tail(v2[u].samples) /\ \A t \in Thread : t # u => v2'[t].samples = v2[t].samples
    BY <1>2, <1>3, <1>6, <1>8
  <2> QED BY <1>1, <2>1, SamplePopped, Zenon DEF Instr!InstrInv
<1> QED BY <1>10, <1>13, <1>14, <1>15, <1>16 DEF Instr!InstrInv

LEMMA InstrKeptByPoll ==
    ASSUME Instr!InstrInv, NEW c \in Collector, Instr!Poll(c)
    PROVE  Instr!InstrInv'
<1>1. PICK k : k = [Instr!Waiting EXCEPT !.at = "locking", !.until = v6]
  OBVIOUS
<1>2. v4[c].at = "idle" /\ v4' = [v4 EXCEPT ![c] = k] /\ UNCHANGED <<v1, v2, v3, v5, v6, v8, v9>>
  BY <1>1 DEF Instr!Poll
<1>3. Instr!TypeOK /\ v6 \in Nat /\ v5 \in Collector \cup {Nobody}
  BY InstrTyped DEF Instr!InstrInv
<1>4. k \in InstrCollectors /\ k.at = "locking" /\ k.seen = <<>> /\ k.retired = {} /\ k.place = 1
  <2>1. <<>> \in Seq(Thread \cup {Nobody}) /\ 1 \in Instr!Place
    BY InstrNumbers DEF Instr!Place
  <2>2. k = [at |-> "locking", until |-> v6, place |-> 1, seen |-> <<>>, retired |-> {}]
    BY <1>1, Zenon DEF Instr!Waiting
  <2> QED BY <1>3, <2>1, <2>2 DEF InstrCollectors
<1>5. v4'[c] = k
  BY <1>2, <1>3, <1>4, CollectorsTyped, Zenon
<1>6. v5' # c
  BY <1>2 DEF Instr!InstrInv, Instr!SeenIs
<1>7. Instr!SeenIs(c)'
  BY <1>4, <1>5, <1>6 DEF Instr!SeenIs
<1> QED BY <1>2, <1>3, <1>4, <1>7, InstrKeptByCollector, Zenon

\* The fields of a collector whose stage alone changes.
LEMMA CollectorAt ==
    ASSUME NEW x \in InstrCollectors, NEW a \in {"looking", "merging", "reclaiming"}
    PROVE  \E k \in InstrCollectors :
             /\ k = [x EXCEPT !.at = a] /\ k.at = a /\ k.seen = x.seen
             /\ k.retired = x.retired /\ k.place = x.place
<1>1. PICK k : k = [x EXCEPT !.at = a]
  BY Zenon
<1>2. k \in InstrCollectors /\ k.at = a /\ k.seen = x.seen /\ k.retired = x.retired
      /\ k.place = x.place
  BY <1>1 DEF InstrCollectors
<1> QED BY <1>1, <1>2, Zenon

LEMMA InstrKeptByLock ==
    ASSUME Instr!InstrInv, NEW c \in Collector, Instr!Lock(c)
    PROVE  Instr!InstrInv'
<1>1. /\ v4[c].at = "locking" /\ v5 = Nobody /\ v5' = c /\ UNCHANGED <<v1, v2, v3, v6, v8, v9>>
      /\ v4' = [v4 EXCEPT ![c] = [v4[c] EXCEPT !.at = "looking"]]
  BY DEF Instr!Lock, Instr!Unlocked
<1>2. Instr!TypeOK /\ v4[c] \in InstrCollectors
  BY InstrTyped DEF Instr!InstrInv
<1>3. PICK k \in InstrCollectors :
         /\ k = [v4[c] EXCEPT !.at = "looking"] /\ k.at = "looking" /\ k.seen = v4[c].seen
         /\ k.retired = v4[c].retired /\ k.place = v4[c].place
  BY <1>2, CollectorAt, Zenon
<1>4. v4'[c] = k
  BY <1>1, <1>2, <1>3, CollectorsTyped, Zenon
<1>5. k.seen = <<>> /\ k.retired = {} /\ k.place = 1
  BY <1>1, <1>3 DEF Instr!InstrInv, Instr!SeenIs
<1>6. Instr!SeenIs(c)'
  <2>1. Len(k.seen) = k.place - 1 /\ \A p \in 1 .. Len(k.seen) : FALSE
    BY <1>5
  <2>2. \A p \in k.retired : FALSE
    BY <1>5
  <2> QED BY <1>1, <1>3, <1>4, <2>1, <2>2, Zenon DEF Instr!SeenIs
<1>7. \A d \in Collector : d # c => (v5' = d <=> v5 = d)
  BY <1>1, InstrNumbers
<1> QED BY <1>1, <1>3, <1>6, <1>7, InstrKeptByCollector, Zenon

LEMMA InstrKeptByMerged ==
    ASSUME Instr!InstrInv, NEW c \in Collector, Instr!Merged(c)
    PROVE  Instr!InstrInv'
<1>1. /\ v4[c].at = "merging" /\ UNCHANGED <<v1, v2, v3, v5, v6, v8, v9>>
      /\ v4' = [v4 EXCEPT ![c] = [v4[c] EXCEPT !.at = "reclaiming"]]
  BY DEF Instr!Merged
<1>2. Instr!TypeOK /\ v4[c] \in InstrCollectors /\ v5 \in Collector \cup {Nobody}
  BY InstrTyped DEF Instr!InstrInv
<1>3. PICK k \in InstrCollectors :
         /\ k = [v4[c] EXCEPT !.at = "reclaiming"] /\ k.at = "reclaiming" /\ k.seen = v4[c].seen
         /\ k.retired = v4[c].retired /\ k.place = v4[c].place
  BY <1>2, CollectorAt, Zenon
<1>4. v4'[c] = k
  BY <1>1, <1>2, <1>3, CollectorsTyped, Zenon
<1>5. /\ Len(k.seen) = Places /\ k.place = 1 /\ v5' = c
      /\ \A p \in k.retired : /\ p \in 1 .. Len(k.seen) /\ k.seen[p] # Nobody
                              /\ v1[p] = k.seen[p] /\ v2[k.seen[p]].retired
  BY <1>1, <1>3 DEF Instr!InstrInv, Instr!SeenIs
<1>6. \A p \in k.retired : k.place <= p
  BY <1>5
<1>7. Instr!SeenIs(c)'
  BY <1>1, <1>3, <1>4, <1>5, <1>6, Zenon DEF Instr!SeenIs
<1> QED BY <1>1, <1>2, <1>3, <1>7, InstrKeptByCollector, Zenon

LEMMA InstrKeptByLookUp ==
    ASSUME Instr!InstrInv, NEW c \in Collector, Instr!LookUp(c)
    PROVE  Instr!InstrInv'
<1>1. /\ Instr!TypeOK /\ v4[c] \in InstrCollectors /\ v5 \in Collector \cup {Nobody}
      /\ v1 \in [Instr!Place -> Thread \cup {Nobody}]
  BY InstrTyped DEF Instr!InstrInv
<1>2. PICK x \in InstrCollectors : x = v4[c]
  BY <1>1
<1>3. PICK p \in Instr!Place : p = x.place
  BY <1>2 DEF InstrCollectors
<1>4. PICK n \in Nat \ {0} : n = Places /\ p \in 1 .. n
  BY <1>3, InstrNumbers DEF Instr!Place
<1>5. PICK l \in Instr!Place : l = IF p < n THEN p + 1 ELSE 1
  BY <1>4 DEF Instr!Place
<1>6. PICK a \in {"looking", "merging"} : a = IF p < n THEN "looking" ELSE "merging"
  OBVIOUS
<1>7. PICK r : r = IF v1[p] # Nobody /\ v2[v1[p]].retired THEN x.retired \cup {p} ELSE x.retired
  BY Zenon
<1>8. PICK s : s = Append(x.seen, v1[p])
  BY Zenon
<1>9. /\ x.at = "looking" /\ UNCHANGED <<v1, v2, v3, v5, v6, v8, v9>>
      /\ v4' = [v4 EXCEPT ![c] = [x EXCEPT !.seen = s, !.retired = r, !.at = a, !.place = l]]
  BY <1>2, <1>3, <1>4, <1>5, <1>6, <1>7, <1>8, Zenon DEF Instr!LookUp
<1>10. /\ x.seen \in Seq(Thread \cup {Nobody}) /\ Len(x.seen) = p - 1 /\ v5 = c
       /\ x.retired \subseteq Instr!Place
  BY <1>2, <1>3, <1>9 DEF Instr!InstrInv, Instr!SeenIs, InstrCollectors
<1>11. /\ s \in Seq(Thread \cup {Nobody}) /\ Len(s) = p /\ s[p] = v1[p]
       /\ \A q \in 1 .. p - 1 : s[q] = x.seen[q]
  <2>1. v1[p] \in Thread \cup {Nobody}
    BY <1>1, <1>3
  <2>2. p \in Nat
    BY <1>4
  <2> QED BY <1>8, <1>10, <2>1, <2>2
<1>12. r \subseteq Instr!Place
  BY <1>3, <1>7, <1>10
<1>13. PICK k \in InstrCollectors :
          /\ k = [x EXCEPT !.seen = s, !.retired = r, !.at = a, !.place = l]
          /\ k.seen = s /\ k.retired = r /\ k.at = a /\ k.place = l
  <2>1. PICK y : y = [x EXCEPT !.seen = s]
    BY Zenon
  <2>2. y \in InstrCollectors /\ y.seen = s
    BY <1>2, <1>11, <2>1, Zenon DEF InstrCollectors
  <2>3. PICK z : z = [y EXCEPT !.retired = r]
    BY Zenon
  <2>4. z \in InstrCollectors /\ z.seen = s /\ z.retired = r
    BY <1>12, <2>2, <2>3, Zenon DEF InstrCollectors
  <2>5. PICK w : w = [z EXCEPT !.at = a]
    BY Zenon
  <2>6. w \in InstrCollectors /\ w.seen = s /\ w.retired = r /\ w.at = a
    BY <1>6, <2>4, <2>5 DEF InstrCollectors
  <2>7. PICK k : k = [w EXCEPT !.place = l]
    BY Zenon
  <2>8. k \in InstrCollectors /\ k.seen = s /\ k.retired = r /\ k.at = a /\ k.place = l
    BY <1>5, <2>6, <2>7 DEF InstrCollectors
  <2>9. k = [x EXCEPT !.seen = s, !.retired = r, !.at = a, !.place = l]
    BY <2>1, <2>3, <2>5, <2>7
  <2> QED BY <2>8, <2>9, Zenon
<1>14. v4'[c] = k /\ v4' = [v4 EXCEPT ![c] = k]
  BY <1>1, <1>9, <1>13, CollectorsTyped, Zenon
<1>15. ASSUME NEW q \in 1 .. p, s[q] # Nobody PROVE v1[q] = s[q]
  <2>1. CASE q = p
    BY <1>11, <2>1
  <2>2. CASE q # p
    <3>1. q \in 1 .. p - 1
      BY <1>4, <2>2
    <3>2. x.seen[q] # Nobody /\ s[q] = x.seen[q] /\ q \in 1 .. Len(x.seen)
      BY <1>10, <1>11, <1>15, <3>1
    <3> QED BY <1>2, <1>9, <3>2 DEF Instr!InstrInv, Instr!SeenIs
  <2> QED BY <2>1, <2>2
<1>16. ASSUME NEW q \in r
       PROVE  q \in 1 .. p /\ s[q] # Nobody /\ v1[q] = s[q] /\ v2[s[q]].retired
  <2>1. CASE q \in x.retired
    <3>1. /\ q \in 1 .. Len(x.seen) /\ x.seen[q] # Nobody /\ v1[q] = x.seen[q]
          /\ v2[x.seen[q]].retired
      BY <1>2, <2>1 DEF Instr!InstrInv, Instr!SeenIs
    <3>2. q \in 1 .. p - 1
      BY <1>10, <3>1
    <3>3. q \in 1 .. p /\ s[q] = x.seen[q]
      BY <1>4, <1>11, <3>2
    <3> QED BY <3>1, <3>3
  <2>2. CASE q \notin x.retired
    <3>1. q = p /\ v1[p] # Nobody /\ v2[v1[p]].retired
      BY <1>7, <1>16, <2>2
    <3> QED BY <1>4, <1>11, <3>1
  <2> QED BY <2>1, <2>2
<1>17. CASE p < n
  <2>1. a = "looking" /\ l = p + 1 /\ Len(s) = l - 1
    BY <1>4, <1>5, <1>6, <1>11, <1>17
  <2>2. \A q \in 1 .. Len(k.seen) : k.seen[q] # Nobody => v1'[q] = k.seen[q]
    BY <1>9, <1>11, <1>13, <1>15
  <2>3. \A q \in k.retired : /\ q \in 1 .. Len(k.seen) /\ k.seen[q] # Nobody
                             /\ v1'[q] = k.seen[q] /\ v2'[k.seen[q]].retired
    BY <1>9, <1>11, <1>13, <1>16
  <2>4. v5' = c /\ k.at = a /\ k.place = l /\ k.seen = s /\ v4'[c] = k
    BY <1>9, <1>10, <1>13, <1>14
  <2>5. Instr!SeenIs(c)'
    BY <2>1, <2>2, <2>3, <2>4 DEF Instr!SeenIs
  <2> QED BY <1>1, <1>9, <1>13, <1>14, <2>5, InstrKeptByCollector, Zenon
<1>18. CASE ~(p < n)
  <2>1. a = "merging" /\ l = 1 /\ Len(s) = Places
    BY <1>4, <1>5, <1>6, <1>11, <1>18
  <2>2. \A q \in 1 .. Len(k.seen) : k.seen[q] # Nobody => v1'[q] = k.seen[q]
    BY <1>9, <1>11, <1>13, <1>15
  <2>3. \A q \in k.retired : /\ q \in 1 .. Len(k.seen) /\ k.seen[q] # Nobody
                             /\ v1'[q] = k.seen[q] /\ v2'[k.seen[q]].retired
    BY <1>9, <1>11, <1>13, <1>16
  <2>4. v5' = c /\ k.at = a /\ k.place = l /\ k.seen = s /\ v4'[c] = k
    BY <1>9, <1>10, <1>13, <1>14
  <2>5. Instr!SeenIs(c)'
    BY <2>1, <2>2, <2>3, <2>4 DEF Instr!SeenIs
  <2> QED BY <1>1, <1>9, <1>13, <1>14, <2>5, InstrKeptByCollector, Zenon
<1> QED BY <1>17, <1>18

\* What a collector has looked up is a thread's ring, and at a place.
LEMMA SeenIsAThread ==
    ASSUME Instr!InstrInv, NEW c \in Collector, v4[c].at \in {"merging", "reclaiming"},
           NEW p \in Instr!Place, v4[c].seen[p] # Nobody
    PROVE  v4[c].seen[p] \in Thread
<1>1. v4[c] \in InstrCollectors
  BY InstrTyped DEF Instr!InstrInv
<1>2. PICK s \in Seq(Thread \cup {Nobody}) : s = v4[c].seen
  BY <1>1 DEF InstrCollectors
<1>3. p \in 1 .. Len(s)
  BY <1>2 DEF Instr!InstrInv, Instr!SeenIs, Instr!Place
<1>4. s[p] \in Thread \cup {Nobody}
  BY <1>2, <1>3
<1> QED BY <1>2, <1>4

LEMMA InstrKeptByMerge ==
    ASSUME Instr!InstrInv, NEW c \in Collector, Instr!Merge(c)
    PROVE  Instr!InstrInv'
<1>1. PICK p \in Instr!Due(c) : Instr!Pop(v4[c].seen[p])
  BY DEF Instr!Merge
<1>2. /\ v4[c].at = "merging" /\ p \in Instr!Place /\ v4[c].seen[p] # Nobody
      /\ v2[v4[c].seen[p]].samples # <<>> /\ UNCHANGED <<v1, v3, v4, v5, v6, v9>>
  BY <1>1 DEF Instr!Merge, Instr!Due, Instr!Looked
<1>3. PICK u \in Thread : u = v4[c].seen[p]
  BY <1>2, SeenIsAThread
<1>4. /\ v2' = [v2 EXCEPT ![u] = [v2[u] EXCEPT !.samples = Tail(@)]]
      /\ v8' = Append(v8, Head(v2[u].samples))
  BY <1>1, <1>3 DEF Instr!Pop
<1> QED BY <1>2, <1>3, <1>4, InstrKeptByPop, Zenon

LEMMA InstrKeptByFree ==
    ASSUME Instr!InstrInv, NEW c \in Collector, v4[c].at = "reclaiming", NEW p \in v4[c].retired,
           NEW u \in Thread, u = v4[c].seen[p], v2[u].samples = <<>>,
           v1' = [v1 EXCEPT ![p] = Nobody],
           v2' = [v2 EXCEPT ![u] = [v2[u] EXCEPT !.memory = "freed"]],
           v4' = [v4 EXCEPT ![c] = [v4[c] EXCEPT !.retired = @ \ {p}]],
           UNCHANGED <<v3, v5, v6, v8, v9>>
    PROVE  Instr!InstrInv'
<1>1. /\ Instr!TypeOK /\ v4[c] \in InstrCollectors /\ v5 \in Collector \cup {Nobody}
      /\ v2[u] \in InstrRings /\ v1 \in [Instr!Place -> Thread \cup {Nobody}]
  BY InstrTyped DEF Instr!InstrInv
<1>2. v1[p] = u /\ v2[u].retired /\ v5 = c /\ u # Nobody /\ Len(v4[c].seen) = Places
  BY InstrNumbers DEF Instr!InstrInv, Instr!SeenIs
<1>3. p \in Instr!Place
  BY <1>1 DEF InstrCollectors
<1>4. PICK q \in InstrRings :
         /\ q = [v2[u] EXCEPT !.memory = "freed"] /\ q.memory = "freed" /\ q.samples = <<>>
         /\ q.retired = v2[u].retired
  <2>1. PICK x \in InstrRings : x = v2[u]
    BY <1>1
  <2>2. PICK q : q = [x EXCEPT !.memory = "freed"]
    BY Zenon
  <2>3. q \in InstrRings /\ q.memory = "freed" /\ q.samples = x.samples /\ q.retired = x.retired
    BY <2>1, <2>2 DEF InstrRings
  <2> QED BY <2>1, <2>2, <2>3, Zenon
<1>5. /\ v2' \in [Thread -> InstrRings] /\ v2'[u] = q
      /\ \A t \in Thread : t # u => v2'[t] = v2[t]
  BY <1>1, <1>4, RingsTyped, Zenon
<1>6. PICK k \in InstrCollectors :
         /\ k = [v4[c] EXCEPT !.retired = @ \ {p}] /\ k.retired = v4[c].retired \ {p}
         /\ k.at = v4[c].at /\ k.seen = v4[c].seen /\ k.place = v4[c].place
  <2>1. PICK x \in InstrCollectors : x = v4[c]
    BY <1>1
  <2>2. PICK r \in SUBSET Instr!Place : r = x.retired \ {p}
    BY <2>1, Zenon DEF InstrCollectors
  <2>3. PICK k : k = [x EXCEPT !.retired = r]
    BY Zenon
  <2>4. /\ k \in InstrCollectors /\ k.retired = r /\ k.at = x.at /\ k.seen = x.seen
        /\ k.place = x.place
    BY <2>1, <2>2, <2>3, Zenon DEF InstrCollectors
  <2> QED BY <2>1, <2>2, <2>3, <2>4, Zenon
<1>7. /\ v4' \in [Collector -> InstrCollectors] /\ v4'[c] = k
      /\ \A d \in Collector : d # c => v4'[d] = v4[d]
  BY <1>1, <1>6, CollectorsTyped, Zenon
<1>8. /\ v1' \in [Instr!Place -> Thread \cup {Nobody}] /\ v1'[p] = Nobody
      /\ \A l \in Instr!Place : l # p => v1'[l] = v1[l]
  BY <1>1, <1>3
<1>9. Instr!TypeOK'
  BY <1>1, <1>5, <1>7, <1>8, InstrTyped, InstrTypedNext
<1>10. \* No other place points at the ring that is freed.
       ASSUME NEW l \in Instr!Place, v1'[l] # Nobody
       PROVE  v1'[l] = v1[l] /\ v1[l] \in Thread /\ v1[l] # u /\ l # p
  <2>1. l # p /\ v1'[l] = v1[l]
    BY <1>8, <1>10
  <2>2. v1[l] # u
    BY <1>2, <1>3, <2>1 DEF Instr!InstrInv, Instr!RegistryHolds
  <2> QED BY <1>1, <1>10, <2>1, <2>2
<1>11. Instr!RegistryHolds'
  <2>1. ASSUME NEW l \in Instr!Place, v1'[l] # Nobody PROVE v2'[v1'[l]].memory = "live"
    BY <1>5, <1>10, <2>1 DEF Instr!InstrInv, Instr!RegistryHolds
  <2>2. ASSUME NEW l \in Instr!Place, NEW j \in Instr!Place, v1'[l] # Nobody, v1'[l] = v1'[j]
        PROVE  l = j
    BY <1>10, <2>2 DEF Instr!InstrInv, Instr!RegistryHolds
  <2> QED BY <2>1, <2>2 DEF Instr!RegistryHolds, Instr!Place
<1>12. \A t \in Thread : v2'[t].samples = v2[t].samples /\ v2'[t].retired = v2[t].retired
  BY <1>4, <1>5
<1>13. Instr!SamplesHeld'
  BY <1>12, SamplesStay DEF Instr!InstrInv, Instr!Holds
<1>14. ASSUME NEW t \in Thread PROVE Instr!RingOf(t)'
  <2>1. CASE t # u
    <3>1. \A l \in Instr!Place : v1'[l] = t => v1[l] = t
      BY <1>10, InstrNumbers
    <3> QED BY <1>5, <2>1, <3>1, OwnRingStays DEF Instr!InstrInv
  <2>2. CASE t = u
    <3>1. v3[u].state = "exited" /\ v3[u].at # "retiring" /\ ~v3[u].local /\ v3[u].at # "claiming"
      BY <1>2 DEF Instr!InstrInv, Instr!RingOf
    <3>2. (v3[u].local <=> v3[u].state = "registered")
      BY DEF Instr!InstrInv, Instr!RingOf
    <3> QED BY <1>4, <1>5, <2>2, <3>1, <3>2 DEF Instr!RingOf
  <2> QED BY <2>1, <2>2
<1>15. ASSUME NEW d \in Collector, d # c PROVE Instr!SeenIs(d)'
  <2>1. Instr!SeenIs(d) /\ v5 # d /\ v4'[d] = v4[d]
    BY <1>2, <1>7, <1>15 DEF Instr!InstrInv
  <2>2. v4[d] \in InstrCollectors
    BY <1>1, InstrTyped
  <2>3. v4[d].at \in {"idle", "locking"}
    BY <2>1, <2>2 DEF Instr!SeenIs, InstrCollectors
  <2>4. v4[d].seen = <<>> /\ v4[d].retired = {} /\ v4[d].place = 1
    BY <2>1, <2>3 DEF Instr!SeenIs
  <2> QED BY <2>1, <2>3, <2>4 DEF Instr!SeenIs
<1>16. Instr!SeenIs(c)'
  <2>1. ASSUME NEW l \in v4[c].retired \ {p}
        PROVE  /\ l \in 1 .. Len(v4[c].seen) /\ v4[c].seen[l] # Nobody
               /\ v1'[l] = v4[c].seen[l] /\ v2'[v4[c].seen[l]].retired /\ v4[c].place <= l
    <3>1. /\ l \in 1 .. Len(v4[c].seen) /\ v4[c].seen[l] # Nobody
          /\ v1[l] = v4[c].seen[l] /\ v2[v4[c].seen[l]].retired /\ v4[c].place <= l
      BY DEF Instr!InstrInv, Instr!SeenIs
    <3>2. l \in Instr!Place
      BY <1>1 DEF InstrCollectors
    <3>3. v4[c].seen[l] \in Thread
      BY <3>1, <3>2, SeenIsAThread
    <3> QED BY <1>8, <1>12, <3>1, <3>2, <3>3
  <2> QED BY <1>2, <1>6, <1>7, <2>1 DEF Instr!SeenIs
<1> QED BY <1>9, <1>11, <1>13, <1>14, <1>15, <1>16 DEF Instr!InstrInv

LEMMA InstrKeptByReclaim ==
    ASSUME Instr!InstrInv, NEW c \in Collector, Instr!Reclaim(c)
    PROVE  Instr!InstrInv'
<1>1. PICK p : p = v4[c].place
  OBVIOUS
<1>2. /\ v4[c].at = "reclaiming" /\ p \in v4[c].retired /\ UNCHANGED <<v3, v5, v6, v9>>
      /\ \/ /\ v2[v4[c].seen[p]].samples # <<>> /\ Instr!Pop(v4[c].seen[p])
            /\ v1' = v1 /\ v4' = v4
         \/ /\ v2[v4[c].seen[p]].samples = <<>> /\ v8' = v8
            /\ v1' = [v1 EXCEPT ![p] = Nobody]
            /\ v2' = [v2 EXCEPT ![v4[c].seen[p]] = [v2[v4[c].seen[p]] EXCEPT !.memory = "freed"]]
            /\ v4' = [v4 EXCEPT ![c] = [v4[c] EXCEPT !.retired = @ \ {p}]]
  BY <1>1 DEF Instr!Reclaim, Instr!WasRetired, Instr!Leftover
<1>3. v4[c] \in InstrCollectors
  BY InstrTyped DEF Instr!InstrInv
<1>4. p \in Instr!Place /\ v4[c].seen[p] # Nobody
  BY <1>2, <1>3 DEF Instr!InstrInv, Instr!SeenIs, InstrCollectors
<1>5. PICK u \in Thread : u = v4[c].seen[p]
  BY <1>2, <1>4, SeenIsAThread
<1>6. CASE v2[u].samples # <<>> /\ Instr!Pop(u) /\ v1' = v1 /\ v4' = v4
  BY <1>2, <1>5, <1>6, InstrKeptByPop, Zenon DEF Instr!Pop
<1>7. CASE /\ v2[u].samples = <<>> /\ v8' = v8 /\ v1' = [v1 EXCEPT ![p] = Nobody]
           /\ v2' = [v2 EXCEPT ![u] = [v2[u] EXCEPT !.memory = "freed"]]
           /\ v4' = [v4 EXCEPT ![c] = [v4[c] EXCEPT !.retired = @ \ {p}]]
  BY <1>2, <1>5, <1>7, InstrKeptByFree, Zenon
<1> QED BY <1>2, <1>5, <1>6, <1>7

LEMMA InstrKeptByStepOver ==
    ASSUME Instr!InstrInv, NEW c \in Collector, Instr!StepOver(c)
    PROVE  Instr!InstrInv'
<1>1. PICK p : p = v4[c].place
  OBVIOUS
<1>2. /\ v4[c].at = "reclaiming" /\ p \notin v4[c].retired
      /\ UNCHANGED <<v1, v2, v3, v6, v8, v9>>
      /\ \/ p < Places /\ v5' = v5 /\ v4' = [v4 EXCEPT ![c] = [v4[c] EXCEPT !.place = p + 1]]
         \/ ~(p < Places) /\ v5' = Nobody /\ v4' = [v4 EXCEPT ![c] = Instr!Waiting]
  BY <1>1 DEF Instr!StepOver, Instr!WasRetired
<1>3. Instr!TypeOK /\ v4[c] \in InstrCollectors /\ v5 \in Collector \cup {Nobody}
  BY InstrTyped DEF Instr!InstrInv
<1>4. PICK x \in InstrCollectors : x = v4[c]
  BY <1>3
<1>5. /\ v5 = c /\ Len(x.seen) = Places /\ p \in Instr!Place
      /\ \A l \in x.retired : /\ l \in 1 .. Len(x.seen) /\ x.seen[l] # Nobody
                              /\ v1[l] = x.seen[l] /\ v2[x.seen[l]].retired
                              /\ p <= l
  BY <1>1, <1>2, <1>4 DEF Instr!InstrInv, Instr!SeenIs, InstrCollectors
<1>6. CASE p < Places /\ v5' = v5 /\ v4' = [v4 EXCEPT ![c] = [v4[c] EXCEPT !.place = p + 1]]
  <2>1. PICK l \in Instr!Place : l = p + 1
    BY <1>5, <1>6, InstrNumbers DEF Instr!Place
  <2>2. PICK k : k = [x EXCEPT !.place = l]
    BY Zenon
  <2>3. /\ k \in InstrCollectors /\ k.place = l /\ k.at = x.at /\ k.seen = x.seen
        /\ k.retired = x.retired
    BY <1>4, <2>1, <2>2 DEF InstrCollectors
  <2>4. v4' = [v4 EXCEPT ![c] = k] /\ v4'[c] = k
    BY <1>3, <1>4, <1>6, <2>1, <2>2, <2>3, CollectorsTyped, Zenon
  <2>5. ASSUME NEW j \in x.retired PROVE l <= j
    <3>1. p <= j /\ p # j /\ j \in Int /\ p \in Int
      BY <1>2, <1>4, <1>5 DEF Instr!Place
    <3> QED BY <2>1, <3>1
  <2>6. Instr!SeenIs(c)'
    BY <1>2, <1>4, <1>5, <1>6, <2>3, <2>4, <2>5, Zenon DEF Instr!SeenIs
  <2> QED BY <1>2, <1>3, <1>6, <2>3, <2>4, <2>6, InstrKeptByCollector, Zenon
<1>7. CASE ~(p < Places) /\ v5' = Nobody /\ v4' = [v4 EXCEPT ![c] = Instr!Waiting]
  <2>1. PICK k \in InstrCollectors : /\ k = Instr!Waiting /\ k.at = "idle" /\ k.seen = <<>>
                                     /\ k.retired = {} /\ k.place = 1
    <3>1. <<>> \in Seq(Thread \cup {Nobody}) /\ 1 \in Instr!Place
      BY InstrNumbers DEF Instr!Place
    <3>2. Instr!Waiting \in InstrCollectors
      BY <3>1 DEF Instr!Waiting, InstrCollectors
    <3>3. /\ Instr!Waiting.at = "idle" /\ Instr!Waiting.seen = <<>>
          /\ Instr!Waiting.retired = {} /\ Instr!Waiting.place = 1
      BY DEF Instr!Waiting
    <3> QED BY <3>2, <3>3
  <2>2. v4' = [v4 EXCEPT ![c] = k] /\ v4'[c] = k
    BY <1>3, <1>7, <2>1, CollectorsTyped, Zenon
  <2>3. v5' # c /\ \A d \in Collector : d # c => (v5' = d <=> v5 = d)
    BY <1>5, <1>7, InstrNumbers
  <2>4. Instr!SeenIs(c)'
    BY <2>1, <2>2, <2>3 DEF Instr!SeenIs
  <2>5. v5' \in Collector \cup {Nobody}
    BY <1>7
  <2> QED BY <1>2, <2>1, <2>2, <2>3, <2>4, <2>5, InstrKeptByCollector, Zenon
<1> QED BY <1>2, <1>6, <1>7

LEMMA InstrKept == ASSUME Instr!InstrInv, Instr!Next PROVE Instr!InstrInv'
<1>1. CASE \E t \in Thread :
             \/ Instr!Stamp(t) \/ Instr!Push(t) \/ Instr!Skip(t) \/ Instr!LookForRoom(t)
             \/ Instr!Claim(t) \/ Instr!Exit(t) \/ Instr!Retire(t)
  BY <1>1, InstrKeptByStamp, InstrKeptByPush, InstrKeptByLook, InstrKeptByClaim, InstrKeptByExit,
     InstrKeptByRetire
<1>2. CASE \E c \in Collector :
             \/ Instr!Poll(c) \/ Instr!Lock(c) \/ Instr!LookUp(c) \/ Instr!Merge(c)
             \/ Instr!Merged(c) \/ Instr!Reclaim(c) \/ Instr!StepOver(c)
  BY <1>2, InstrKeptByPoll, InstrKeptByLock, InstrKeptByLookUp, InstrKeptByMerge,
     InstrKeptByMerged, InstrKeptByReclaim, InstrKeptByStepOver
<1> QED BY <1>1, <1>2 DEF Instr!Next

\* The invariant says where every sample is.
LEMMA SamplesCounted == ASSUME Instr!InstrInv PROVE Instr!SamplesAccountedFor
<1>1. /\ Instr!TypeOK /\ v6 \in Nat /\ v8 \in Seq(Nat) /\ Instr!SamplesHeld
  BY InstrTyped DEF Instr!InstrInv
<1>2. /\ \A x \in 1 .. v6 : Instr!Somewhere(x)
      /\ \A t \in Thread : Instr!Holds(t) => v3[t].sample \in 1 .. v6
      /\ \A t \in Thread : \A i \in 1 .. Len(v2[t].samples) : v2[t].samples[i] \in 1 .. v6
      /\ v9 \subseteq 1 .. v6 /\ \A i \in 1 .. Len(v8) : v8[i] \in 1 .. v6
      /\ Instr!OnceEach
  BY <1>1 DEF Instr!SamplesHeld
<1>3. Instr!In(v8) = {v8[i] : i \in 1 .. Len(v8)}
  BY <1>1 DEF Instr!In
<1>4. \A t \in Thread : Instr!In(v2[t].samples) = {v2[t].samples[i] : i \in 1 .. Len(v2[t].samples)}
  BY <1>1, SamplesTyped DEF Instr!In
<1>5. ASSUME NEW t \in Thread PROVE Instr!Holds(t) <=> v3[t].at \notin {"idle", "retiring"}
  <2>1. v3[t] \in InstrThreads
    BY <1>1, InstrTyped
  <2>2. v3[t].at \in {"idle", "stamped", "claiming", "retiring"}
    BY <2>1 DEF InstrThreads
  <2> QED BY <2>2 DEF Instr!Holds
<1>6. ASSUME NEW t \in Thread, NEW i \in 1 .. Len(v2[t].samples) PROVE v2[t].memory = "live"
  <2>1. v2[t].samples # <<>>
    BY <1>6
  <2> QED BY <2>1 DEF Instr!InstrInv, Instr!RingOf
<1>7. ASSUME NEW x PROVE x \in Instr!InHand <=> \E t \in Thread : Instr!Holds(t) /\ v3[t].sample = x
  BY <1>5 DEF Instr!InHand
<1>8. ASSUME NEW x
      PROVE  x \in Instr!Held <=>
             \E t \in Thread : \E i \in 1 .. Len(v2[t].samples) : v2[t].samples[i] = x
  <2>1. ASSUME NEW t \in Thread
        PROVE  x \in Instr!In(v2[t].samples) <=>
               \E i \in 1 .. Len(v2[t].samples) : v2[t].samples[i] = x
    BY <1>4, Zenon
  <2>2. x \in Instr!Held <=>
          \E t \in Thread : v2[t].memory = "live" /\ x \in Instr!In(v2[t].samples)
    BY DEF Instr!Held
  <2>3. ASSUME NEW t \in Thread, x \in Instr!In(v2[t].samples) PROVE v2[t].memory = "live"
    BY <1>6, <2>1, <2>3
  <2> QED BY <2>1, <2>2, <2>3
<1>9. Instr!InHand \cup Instr!Held \cup v9 \cup Instr!In(v8) = 1 .. v6
  <2>1. ASSUME NEW x \in 1 .. v6 PROVE x \in Instr!InHand \cup Instr!Held \cup v9 \cup Instr!In(v8)
    BY <1>2, <1>3, <1>7, <1>8 DEF Instr!Somewhere
  <2>2. ASSUME NEW x \in Instr!InHand \cup Instr!Held \cup v9 \cup Instr!In(v8) PROVE x \in 1 .. v6
    BY <1>2, <1>3, <1>7, <1>8, Zenon
  <2> QED BY <2>1, <2>2
<1>10. \A i, j \in DOMAIN v8 : v8[i] = v8[j] => i = j
  BY <1>1, <1>2 DEF Instr!OnceEach
<1>11. \A t \in Thread : v3[t].local => v2[t].memory = "live"
  BY DEF Instr!InstrInv, Instr!RingOf
<1>12. ASSUME NEW c \in Collector, NEW p \in DOMAIN v4[c].seen, v4[c].at = "merging",
              v4[c].seen[p] # Nobody
       PROVE  v2[v4[c].seen[p]].memory = "live"
  <2>1. v4[c] \in InstrCollectors
    BY <1>1, InstrTyped
  <2>2. v4[c].seen \in Seq(Thread \cup {Nobody})
    BY <2>1 DEF InstrCollectors
  <2>3. p \in 1 .. Len(v4[c].seen) /\ Len(v4[c].seen) = Places
    BY <1>12, <2>2 DEF Instr!InstrInv, Instr!SeenIs
  <2>4. v1[p] = v4[c].seen[p] /\ p \in Instr!Place
    BY <1>12, <2>3 DEF Instr!InstrInv, Instr!SeenIs, Instr!Place
  <2> QED BY <1>12, <2>4 DEF Instr!InstrInv, Instr!RegistryHolds
<1> QED BY <1>9, <1>10, <1>11, <1>12 DEF Instr!SamplesAccountedFor

-----------------------------------------------------------------------------
(* PadSection.  v1 family, v2 frame, v3 restarts, v4 section, v5 writer,   *)
(* v6 bell, v7 reader, v8 shown, v9 settled.                               *)

\* A write works under an odd counter, above the one it found.
LEMMA TurnsOdd ==
    ASSUME NEW base \in Nat
    PROVE  /\ Section!seqlock_start(base) \in Nat
           /\ base <= Section!seqlock_start(base)
           /\ Section!seqlock_start(base) % 2 = 0
           /\ (Section!seqlock_start(base) + 1) % 2 = 1
           /\ (Section!seqlock_start(base) + 2) % 2 = 0
BY DEF Section!seqlock_start

LEMMA AfterEven ==
    ASSUME NEW start \in Nat, start % 2 = 0
    PROVE  (start + 1) % 2 = 1 /\ (start + 2) % 2 = 0
OBVIOUS

LEMMA SectionStart == Section!Init => Section!SectionInv
<1> SUFFICES ASSUME Section!Init PROVE Section!SectionInv
  OBVIOUS
<1>1. Section!Empty \in Section!Report /\ 0 % 2 = 0
  BY DEF Section!Empty, Section!Report
<1> QED BY <1>1 DEF Section!Init, Section!SectionInv, Section!Fresh, Section!Idle, Section!Waiting,
                    Section!NeverTorn

\* The writer's area is not one of those the driver has read under this counter:
\* while the writer is in one, the counter is odd.
LEMMA SectionKeptByWriteArea ==
    ASSUME Section!SectionInv, Section!WriteArea
    PROVE  Section!SectionInv'
<1> DEFINE a == v5.at
<1>1. /\ a \in Section!Area /\ v5 \in [at : Section!Area \cup {"idle", "settle"}, start : Nat]
      /\ v4 \in [seq : Nat, areas : Section!Report]
      /\ v4' = [v4 EXCEPT !.areas[a] = Section!Content(a)]
      /\ v5' = [v5 EXCEPT !.at = Section!After[a]]
      /\ UNCHANGED <<v1, v2, v3, v6, v7, v8, v9>>
  BY DEF Section!WriteArea, Section!SectionInv
<1>2. Section!Content(a) \in Nat
  BY <1>1 DEF Section!Content, Section!SectionInv, Section!Area, Section!Report
<1>3. Section!After[a] \in Section!Area \cup {"settle"} /\ a # "idle"
  BY <1>1 DEF Section!After, Section!Area
<1>4. v4' \in [seq : Nat, areas : Section!Report] /\ v4'.seq = v4.seq
  BY <1>1, <1>2 DEF Section!Report
<1>5. /\ v5' \in [at : Section!Area \cup {"idle", "settle"}, start : Nat]
      /\ v5'.start = v5.start /\ v5'.at # "idle"
  BY <1>1, <1>3 DEF Section!Area
<1>6. v4.seq = v5.start + 1 /\ v5.start % 2 = 0 /\ v4.seq % 2 = 1
  BY <1>1, <1>3, AfterEven DEF Section!SectionInv
<1>7. v1 # "none"
  BY <1>3 DEF Section!SectionInv
<1>8. v7.at # "waiting" => v7.seq # v4.seq
  BY <1>6 DEF Section!SectionInv
<1> QED BY <1>1, <1>4, <1>5, <1>6, <1>7, <1>8 DEF Section!SectionInv, Section!NeverTorn

LEMMA SectionKeptByReadArea ==
    ASSUME Section!SectionInv, Section!ReadArea
    PROVE  Section!SectionInv'
<1> DEFINE a == v7.at
           Reader == [at : Section!Area \cup {"waiting", "settle"}, seq : Nat, areas : Section!Report]
<1>1. /\ a \in Section!Area /\ v7 \in Reader
      /\ v4 \in [seq : Nat, areas : Section!Report]
      /\ v7' = [v7 EXCEPT !.areas[a] = v4.areas[a], !.at = Section!After[a]]
      /\ UNCHANGED <<v1, v2, v3, v4, v5, v6, v8, v9>>
  BY DEF Section!ReadArea, Section!SectionInv
<1>2. v7' \in Reader /\ v7'.seq = v7.seq /\ a # "waiting" /\ v7'.at = Section!After[a]
  <2>1. Section!After[a] \in Section!Area \cup {"settle"} /\ a # "waiting"
    BY <1>1 DEF Section!After, Section!Area
  <2>2. PICK n, at : n = v4.areas[a] /\ at = Section!After[a]
    OBVIOUS
  <2>3. n \in Nat /\ at \in Section!Area \cup {"waiting", "settle"}
    BY <1>1, <2>1, <2>2 DEF Section!Report
  <2>4. v7' = [v7 EXCEPT !.areas[a] = n, !.at = at]
    BY <1>1, <2>2
  <2>5. PICK read : read = [v7.areas EXCEPT ![a] = n]
    BY Zenon
  <2>6. read \in Section!Report
    BY <1>1, <2>3, <2>5 DEF Section!Report
  <2>7. v7' = [at |-> at, seq |-> v7.seq, areas |-> read]
    BY <1>1, <2>4, <2>5, Zenon
  <2>8. v7.seq \in Nat
    BY <1>1
  <2>9. v7' \in Reader
    BY <2>3, <2>6, <2>7, <2>8
  <2>10. v7'.seq = v7.seq /\ v7'.at = at
    BY <2>7
  <2> QED BY <2>1, <2>2, <2>9, <2>10
<1>3. ASSUME v4.seq = v7.seq, NEW b \in Section!ReadSoFar' PROVE v7'.areas[b] = v4.areas[b]
  <2>1. b \in Section!Area /\ (b = a \/ b \in Section!ReadSoFar)
    BY <1>1, <1>2, <1>3 DEF Section!ReadSoFar, Section!Area, Section!After
  <2>2. b # a => v7.areas[b] = v4.areas[b]
    BY <1>2, <1>3, <2>1 DEF Section!SectionInv
  <2> QED BY <1>1, <2>1, <2>2 DEF Section!Report
<1> QED BY <1>1, <1>2, <1>3 DEF Section!SectionInv, Section!NeverTorn

LEMMA SectionKept ==
    ASSUME Section!SectionInv, Section!Next
    PROVE  Section!SectionInv'
<1>1. CASE Section!CreateSections
  <2>1. v5.at = "idle" /\ UNCHANGED <<v2, v5, v8>> /\ v1' # "none"
    BY <1>1 DEF Section!CreateSections, Section!SectionInv
  <2>2. CASE UNCHANGED <<v4, v6, v7, v9>>
    BY <2>1, <2>2 DEF Section!SectionInv, Section!NeverTorn, Section!ReadSoFar
  <2>3. CASE v4' = Section!Fresh /\ v7' = Section!Waiting /\ v9' = v9 \cup {Section!Empty}
    <3>1. Section!Empty \in Section!Report /\ 0 % 2 = 0
      BY DEF Section!Empty, Section!Report
    <3> QED BY <2>1, <2>3, <3>1
            DEF Section!SectionInv, Section!NeverTorn, Section!Fresh, Section!Waiting
  <2> QED BY <1>1, <2>2, <2>3 DEF Section!CreateSections
<1>2. CASE Section!Unplug
  BY <1>2 DEF Section!Unplug, Section!SectionInv, Section!NeverTorn, Section!ReadSoFar
<1>3. CASE Section!Killed
  BY <1>3 DEF Section!Killed, Section!SectionInv, Section!NeverTorn, Section!ReadSoFar, Section!Idle
<1>4. CASE Section!Begin
  <2> DEFINE start == Section!seqlock_start(v4.seq)
  <2>1. /\ v5' = [at |-> "main", start |-> start] /\ v4' = [v4 EXCEPT !.seq = start + 1]
        /\ v2' = v2 + 1 /\ v1 # "none" /\ UNCHANGED <<v1, v3, v6, v7, v8, v9>>
        /\ v4 \in [seq : Nat, areas : Section!Report]
    BY <1>4 DEF Section!Begin, Section!SectionInv
  <2>2. start \in Nat /\ v4.seq <= start /\ start % 2 = 0 /\ (start + 1) % 2 = 1
    BY <2>1, TurnsOdd
  <2> HIDE DEF start
  <2>3. v4' \in [seq : Nat, areas : Section!Report] /\ v4'.seq = start + 1
    BY <2>1, <2>2
  <2>4. v7.at # "waiting" => v7.seq \in Nat /\ v7.seq <= start
    BY <2>1, <2>2 DEF Section!SectionInv
  <2> QED BY <2>1, <2>2, <2>3, <2>4 DEF Section!SectionInv, Section!NeverTorn, Section!Area
<1>5. CASE Section!WriteArea
  BY <1>5, SectionKeptByWriteArea
<1>6. CASE Section!Settle
  <2>1. /\ v4' = [v4 EXCEPT !.seq = v5.start + 2] /\ v9' = v9 \cup {v4.areas} /\ v5' = Section!Idle
        /\ UNCHANGED <<v1, v2, v3, v7, v8>>
        /\ v4 \in [seq : Nat, areas : Section!Report] /\ v5.start \in Nat
        /\ v4.seq = v5.start + 1
    BY <1>6 DEF Section!Settle, Section!SectionInv
  <2>2. /\ v4' \in [seq : Nat, areas : Section!Report] /\ v4'.seq = v5.start + 2
        /\ v4'.areas = v4.areas
    BY <2>1
  <2>3. v7.at # "waiting" => v7.seq \in Nat /\ v7.seq < v4'.seq
    BY <2>1, <2>2 DEF Section!SectionInv
  <2> QED BY <2>1, <2>2, <2>3 DEF Section!SectionInv, Section!NeverTorn, Section!Idle
<1>7. CASE Section!Look
  <2>1. /\ v7' = [at |-> "main", seq |-> v4.seq, areas |-> Section!Empty]
        /\ v4.seq % 2 = 0 /\ UNCHANGED <<v1, v2, v3, v4, v5, v8, v9>>
    BY <1>7 DEF Section!Look
  <2>2. Section!Empty \in Section!Report /\ Section!ReadSoFar' = {}
    BY <2>1 DEF Section!Empty, Section!Report, Section!ReadSoFar
  <2> QED BY <2>1, <2>2 DEF Section!SectionInv, Section!NeverTorn, Section!Area
<1>8. CASE Section!ReadArea
  BY <1>8, SectionKeptByReadArea
<1>9. CASE Section!Accept
  <2>1. /\ v7.at = "settle" /\ v7' = Section!Waiting /\ UNCHANGED <<v1, v2, v3, v4, v5, v6, v9>>
        /\ v8' = IF v4.seq = v7.seq THEN v7.areas ELSE v8
    BY <1>9 DEF Section!Accept
  <2>2. ASSUME v4.seq = v7.seq PROVE v7.areas \in v9
    <3>1. v4.areas \in v9
      BY <2>1, <2>2 DEF Section!SectionInv
    <3>2. \A a \in Section!Area : v7.areas[a] = v4.areas[a]
      BY <2>1, <2>2 DEF Section!SectionInv, Section!ReadSoFar
    <3>3. v7.areas \in Section!Report /\ v4.areas \in Section!Report
      BY DEF Section!SectionInv
    <3>4. v7.areas = v4.areas
      BY <3>2, <3>3 DEF Section!Report
    <3> QED BY <3>1, <3>4
  <2>3. Section!Empty \in Section!Report
    BY DEF Section!Empty, Section!Report
  <2> QED BY <2>1, <2>2, <2>3 DEF Section!SectionInv, Section!NeverTorn, Section!Waiting
<1> QED BY <1>1, <1>2, <1>3, <1>4, <1>5, <1>6, <1>7, <1>8, <1>9 DEF Section!Next

LEMMA SectionStays == ASSUME Section!SectionInv, UNCHANGED vars PROVE Section!SectionInv'
BY DEF vars, Section!SectionInv, Section!NeverTorn, Section!ReadSoFar

-----------------------------------------------------------------------------
(* PadDevice.  v1 staged, v2 slot, v3 making, v4 plugs, v5 failures,       *)
(* v6 restarts, v7 nodes, v8 swd, v9 ctx, v10 kept.                        *)

LEMMA OrderIs ==
    /\ DOMAIN Device!Order = 1 .. 7
    /\ Device!Order[1] = "info" /\ Device!Order[2] = "hardware ids"
    /\ Device!Order[3] = "family ids" /\ Device!Order[4] = "register"
    /\ Device!Order[5] = "index" /\ Device!Order[6] = "bind" /\ Device!Order[7] = "companion"
<1>2. DOMAIN Device!Order = 1 .. 7
  BY DEF Device!Order
<1>3. /\ Device!Order[1] = "info" /\ Device!Order[2] = "hardware ids"
      /\ Device!Order[3] = "family ids" /\ Device!Order[4] = "register"
      /\ Device!Order[5] = "index" /\ Device!Order[6] = "bind" /\ Device!Order[7] = "companion"
  BY DEF Device!Order
<1> QED BY <1>2, <1>3, Zenon

LEMMA StepAfter ==
    ASSUME NEW n \in 1 .. 6
    PROVE  Device!After(Device!Order[n]) = Device!Order[n + 1]
<1>0. PICK D : D = DOMAIN Device!Order
  OBVIOUS
<1>8. D = 1 .. 7
  BY <1>0, OrderIs, Zenon
<1>9. n \in D
  BY <1>8
<1>1. n \in DOMAIN Device!Order
  BY <1>0, <1>9, Zenon
<1>2. ASSUME NEW i \in DOMAIN Device!Order, Device!Order[i] = Device!Order[n] PROVE i = n
  <2>1. i \in 1 .. 7
    BY <1>2, OrderIs, Zenon
  <2>2. i = 1 \/ i = 2 \/ i = 3 \/ i = 4 \/ i = 5 \/ i = 6 \/ i = 7
    BY <2>1
  <2>3. n = 1 \/ n = 2 \/ n = 3 \/ n = 4 \/ n = 5 \/ n = 6
    OBVIOUS
  <2>4. PICK a, b, c, d, e, f, g :
          /\ Device!Order[1] = a /\ Device!Order[2] = b /\ Device!Order[3] = c
          /\ Device!Order[4] = d /\ Device!Order[5] = e /\ Device!Order[6] = f
          /\ Device!Order[7] = g
          /\ a = "info" /\ b = "hardware ids" /\ c = "family ids" /\ d = "register"
          /\ e = "index" /\ f = "bind" /\ g = "companion"
    BY OrderIs, Zenon
  <2>5. /\ i = 1 => Device!Order[i] = a
        /\ i = 2 => Device!Order[i] = b
        /\ i = 3 => Device!Order[i] = c
        /\ i = 4 => Device!Order[i] = d
        /\ i = 5 => Device!Order[i] = e
        /\ i = 6 => Device!Order[i] = f
        /\ i = 7 => Device!Order[i] = g
    BY <2>4, Zenon
  <2>6. /\ n = 1 => Device!Order[n] = a
        /\ n = 2 => Device!Order[n] = b
        /\ n = 3 => Device!Order[n] = c
        /\ n = 4 => Device!Order[n] = d
        /\ n = 5 => Device!Order[n] = e
        /\ n = 6 => Device!Order[n] = f
    BY <2>4, Zenon
  <2>7. PICK x, y : x = Device!Order[i] /\ y = Device!Order[n]
    OBVIOUS
  <2>8. x = y
    BY <1>2, <2>7, Zenon
  <2> QED BY <2>2, <2>3, <2>4, <2>5, <2>6, <2>7, <2>8, Zenon
<1>3. (CHOOSE i \in DOMAIN Device!Order : Device!Order[i] = Device!Order[n]) = n
  BY <1>1, <1>2, Zenon
<1> QED BY <1>3, Zenon DEF Device!After

LEMMA StepsAfter ==
    /\ Device!After("info") = "hardware ids" /\ Device!After("hardware ids") = "family ids"
    /\ Device!After("family ids") = "register" /\ Device!After("register") = "index"
    /\ Device!After("index") = "bind" /\ Device!After("bind") = "companion"
<1>1. \A n \in 1 .. 6 : Device!After(Device!Order[n]) = Device!Order[n + 1]
  BY StepAfter, Zenon
<1>2. ASSUME NEW n \in 1 .. 6, NEW m \in Int, m = n + 1 
      PROVE  Device!After(Device!Order[n]) = Device!Order[m]
  BY <1>1, <1>2
<1>3. /\ Device!After(Device!Order[1]) = Device!Order[2]
      /\ Device!After(Device!Order[2]) = Device!Order[3]
      /\ Device!After(Device!Order[3]) = Device!Order[4]
      /\ Device!After(Device!Order[4]) = Device!Order[5]
      /\ Device!After(Device!Order[5]) = Device!Order[6]
      /\ Device!After(Device!Order[6]) = Device!Order[7]
  BY <1>2
<1> QED BY <1>3, OrderIs, Zenon

LEMMA NeededIs ==
    ASSUME NEW t \in Device!PadType
    PROVE  /\ Device!Needed(t) \subseteq Device!Identifier
           /\ {"hardware ids"} \cup (Device!Needed(t) \ {"hardware ids"}) = Device!Needed(t)
           /\ Device!instance_id(t) \in Device!InstanceIds
BY Zenon DEF Device!Needed, Device!Identifier, Device!InstanceIds

\* A pad's removal: its node is gone or kept, and no other is touched.
LEMMA RemovedOne ==
    ASSUME Device!TypeOK, Device!BoundAsItsFamily, NEW t \in Device!PadType, NEW gone,
           Device!Removed(t, gone)
    PROVE  /\ v7' \in [Device!InstanceIds -> Device!Node \cup {Device!NoNode}]
           /\ Device!BoundAsItsFamily' /\ v8' = v8 \ gone /\ v10 \subseteq v10'
           /\ v7'[Device!instance_id(t)] = Device!NoNode \/ Device!instance_id(t) \in v10'
           /\ \A i \in Device!InstanceIds : v7'[i] # Device!NoNode => v7'[i] = v7[i]
<1>1. v7 \in [Device!InstanceIds -> Device!Node \cup {Device!NoNode}]
  BY DEF Device!TypeOK
<1>2. Device!instance_id(t) \in Device!InstanceIds
  BY NeededIs, Zenon
<1>3. CASE v7' = [v7 EXCEPT ![Device!instance_id(t)] = Device!NoNode] /\ v10' = v10
  <2>1. v8' = v8 \ gone
    BY DEF Device!Removed
  <2> QED BY <1>1, <1>2, <1>3, <2>1 DEF Device!BoundAsItsFamily
<1>4. CASE v7' = v7 /\ v10' = v10 \cup {Device!instance_id(t)}
  <2>1. v8' = v8 \ gone
    BY DEF Device!Removed
  <2> QED BY <1>1, <1>2, <1>4, <2>1 DEF Device!BoundAsItsFamily
<1> QED BY <1>3, <1>4 DEF Device!Removed

LEMMA DeviceStart == Device!Init => Device!DeviceInv
<1> SUFFICES ASSUME Device!Init PROVE Device!DeviceInv
  OBVIOUS
<1>1. /\ v2 = Device!NoPad /\ v3 = Device!NoMaking /\ v4 = 0 /\ v8 = {}
      /\ v7 = [i \in Device!InstanceIds |-> Device!NoNode]
      /\ v9 = [c \in Device!Create |-> Device!NoCtx]
  BY DEF Device!Init
<1>2. Device!TypeOK
  BY <1>1 DEF Device!TypeOK, Device!NoCtx, Device!Context
<1>3. Device!SetSoFar /\ Device!RegisteredSoFar /\ Device!OthersIsInTheSlot
  BY <1>1 DEF Device!SetSoFar, Device!RegisteredSoFar, Device!OthersIsInTheSlot, Device!NoMaking
<1>4. Device!LateCallbackIsHarmless /\ Device!NothingLeftBehind /\ Device!BoundAsItsFamily
  BY <1>1 DEF Device!LateCallbackIsHarmless, Device!NothingLeftBehind, Device!BoundAsItsFamily,
              Device!NoCtx
<1> QED BY <1>1, <1>2, <1>3, <1>4 DEF Device!DeviceInv

\* The pad made takes the slot, and the pad that was there goes.
LEMMA DeviceKeptByPlugged ==
    ASSUME Device!DeviceInv, NEW node \in BOOLEAN, NEW companion \in SUBSET Device!Create,
           Device!Plugged(node, companion), v3 # Device!NoMaking,
           v9' \in [Device!Create -> Device!Context], Device!LateCallbackIsHarmless', v4' = v4,
           v8 \subseteq (IF v2 = Device!NoPad THEN {} ELSE v2.companion) \cup companion,
           ~node => companion = {} /\ v3.at = "no node"
    PROVE  Device!DeviceInv'
<1>1. /\ v2' = [type |-> v3.type, node |-> node, companion |-> companion]
      /\ v3' = Device!NoMaking /\ v3 \in Device!Making /\ v4' \in Nat
  BY Zenon DEF Device!Plugged, Device!DeviceInv, Device!TypeOK
<1>2. v3.type \in Device!PadType /\ v2' \in Device!Pad /\ v2' # Device!NoPad
  BY <1>1, Zenon DEF Device!Making, Device!Pad, Device!NoPad
<1>3. Device!MainId \in Device!InstanceIds /\ Device!MainId = Device!instance_id(v3.type)
  BY <1>2, NeededIs, Zenon DEF Device!MainId
<1>4. /\ v7' \in [Device!InstanceIds -> Device!Node \cup {Device!NoNode}]
      /\ Device!BoundAsItsFamily' /\ v10 \subseteq v10'
      /\ v8' \subseteq companion
      /\ \A i \in Device!InstanceIds : v7'[i] # Device!NoNode => v7'[i] = v7[i]
      /\ v2 # Device!NoPad /\ v2.node =>
           v7'[Device!instance_id(v2.type)] = Device!NoNode \/ Device!instance_id(v2.type) \in v10'
  <2>1. CASE v2 # Device!NoPad /\ v2.node
    <3>1. Device!Removed(v2.type, v2.companion) /\ v2.type \in Device!PadType
      BY <2>1, Zenon DEF Device!Plugged, Device!DeviceInv, Device!TypeOK, Device!Pad
    <3>2. Device!TypeOK /\ Device!BoundAsItsFamily
      BY Zenon DEF Device!DeviceInv
    <3>3. PICK t \in Device!PadType : t = v2.type
      BY <3>1, Zenon
    <3>4. PICK gone : gone = v2.companion
      BY Zenon
    <3>5. Device!Removed(t, gone)
      BY <3>1, <3>3, <3>4, Zenon
    <3>6. /\ v7' \in [Device!InstanceIds -> Device!Node \cup {Device!NoNode}]
          /\ Device!BoundAsItsFamily' /\ v8' = v8 \ gone /\ v10 \subseteq v10'
          /\ v7'[Device!instance_id(t)] = Device!NoNode \/ Device!instance_id(t) \in v10'
          /\ \A i \in Device!InstanceIds : v7'[i] # Device!NoNode => v7'[i] = v7[i]
      BY <3>2, <3>5, RemovedOne, Zenon
    <3>7. v8' \subseteq companion
      BY <2>1, <3>4, <3>6, Zenon
    <3> QED BY <3>3, <3>6, <3>7, Zenon
  <2>2. CASE ~(v2 # Device!NoPad /\ v2.node)
    <3>1. UNCHANGED <<v7, v8, v10>>
      BY <2>2, Zenon DEF Device!Plugged
    <3> QED BY <2>2, <3>1, Zenon
       DEF Device!DeviceInv, Device!TypeOK, Device!BoundAsItsFamily
  <2> QED BY <2>1, <2>2, Zenon
<1>5. ASSUME NEW i \in Device!InstanceIds \ v10', v7'[i] # Device!NoNode
      PROVE  node /\ Device!instance_id(v3.type) = i
  <2>1. i \notin v10 /\ v7[i] # Device!NoNode
    BY <1>4, <1>5, Zenon
  <2>2. ~(v2 # Device!NoPad /\ v2.node /\ Device!instance_id(v2.type) = i)
    BY <1>4, <1>5, Zenon
  <2>3. Device!MainId = i
    BY <2>1, <2>2, Zenon DEF Device!DeviceInv, Device!NothingLeftBehind
  <2>4. v3.at # "no node"
    BY <2>1, <2>2, <2>3, Zenon DEF Device!DeviceInv, Device!OthersIsInTheSlot
  <2> QED BY <1>3, <2>3, <2>4, Zenon
<1>6. Device!NothingLeftBehind'
  BY <1>1, <1>2, <1>4, <1>5, Zenon DEF Device!NothingLeftBehind, Device!NoMaking
<1>7. Device!TypeOK'
  BY <1>1, <1>2, <1>4, Zenon DEF Device!TypeOK
<1>8. Device!SetSoFar' /\ Device!RegisteredSoFar' /\ Device!OthersIsInTheSlot'
  BY <1>1, Zenon
     DEF Device!SetSoFar, Device!RegisteredSoFar, Device!OthersIsInTheSlot, Device!NoMaking
<1> QED BY <1>1, <1>2, <1>4, <1>6, <1>7, <1>8, Zenon DEF Device!DeviceInv

\* A create that begins nothing else than the next of its calls.
LEMMA MovedOn ==
    ASSUME v3 \in Device!Making, NEW s, v3' = [v3 EXCEPT !.at = s],
           s \in {"info", "hardware ids", "family ids", "register", "index", "bind",
                  "companion", "wait", "undo", "refused", "no node"}
    PROVE  /\ v3' \in Device!Making /\ v3'.at = s
           /\ v3'.type = v3.type /\ v3'.props = v3.props /\ v3'.opened = v3.opened
BY Zenon DEF Device!Making

LEMMA MakingIs ==
    ASSUME v3 \in Device!Making
    PROVE  /\ v3 # Device!NoMaking /\ v3.type \in Device!PadType
           /\ Device!MainId = Device!instance_id(v3.type) /\ Device!MainId \in Device!InstanceIds
<1>1. v3.type \in Device!PadType
  BY Zenon DEF Device!Making
<1>2. v3.at # "none"
  BY Zenon DEF Device!Making
<1>3. v3 # Device!NoMaking
  BY <1>2 DEF Device!NoMaking
<1> QED BY <1>1, <1>3, NeededIs, Zenon DEF Device!MainId

LEMMA DeviceByStage ==
    ASSUME Device!DeviceInv, v3 \in Device!Making, v3' \in Device!Making, v3'.type = v3.type,
           v3.at # "wait", UNCHANGED <<v2, v4, v7, v8, v9, v10>>,
           Device!SetSoFar', Device!RegisteredSoFar', Device!OthersIsInTheSlot'
    PROVE  Device!DeviceInv'
<1>1. v3 # Device!NoMaking
  BY MakingIs
<1>2. v3' # Device!NoMaking
  <2>1. v3'.at # "none"
    BY Zenon DEF Device!Making
  <2> QED BY <2>1 DEF Device!NoMaking
<1>3. Device!TypeOK'
  BY <1>1 DEF Device!DeviceInv, Device!TypeOK
<1>4. Device!NothingLeftBehind'
  <2>1. ASSUME NEW i \in Device!InstanceIds \ v10', v7'[i] # Device!NoNode
        PROVE  \/ v2' # Device!NoPad /\ v2'.node /\ Device!instance_id(v2'.type) = i
               \/ v3' # Device!NoMaking /\ Device!MainId' = i
    BY <1>2, <2>1 DEF Device!DeviceInv, Device!NothingLeftBehind, Device!MainId
  <2>2. v8' \subseteq (IF v2' = Device!NoPad THEN {} ELSE v2'.companion)
    BY DEF Device!DeviceInv, Device!NothingLeftBehind
  <2> QED BY <2>1, <2>2 DEF Device!NothingLeftBehind
<1>5. Device!LateCallbackIsHarmless' /\ Device!BoundAsItsFamily'
  BY DEF Device!DeviceInv, Device!LateCallbackIsHarmless, Device!BoundAsItsFamily
<1> QED BY <1>3, <1>4, <1>5 DEF Device!DeviceInv

\* The calls before the node is there.
LEMMA DeviceKeptByFirstCalls ==
    ASSUME Device!DeviceInv, v3 \in Device!Making,
           \/ Device!create_info \/ Device!set_property \/ Device!FailsEarly
           \/ Device!FailsLate \/ Device!refused
    PROVE  Device!DeviceInv'
<1> USE StepsAfter
<1>1. /\ Device!SetSoFar /\ Device!RegisteredSoFar /\ Device!OthersIsInTheSlot
  BY Zenon DEF Device!DeviceInv
<1>2. CASE Device!create_info
  <2>1. PICK s \in {"hardware ids", "refused"}, o \in BOOLEAN :
          /\ v3' = [v3 EXCEPT !.at = s, !.opened = o]
          /\ o => v7[Device!MainId] # Device!NoNode
          /\ s = "refused" => v7[Device!MainId] # Device!NoNode
    <3>1. CASE v3' = [v3 EXCEPT !.at = Device!After("info")]
      <4>1. v3.opened = FALSE
        BY <1>1, <1>2, Zenon DEF Device!create_info, Device!SetSoFar, Device!Making
      <4>2. v3' = [v3 EXCEPT !.at = "hardware ids", !.opened = FALSE]
        BY <3>1, <4>1, Zenon DEF Device!Making
      <4> QED BY <4>2, Zenon
    <3>2. CASE v3' = [v3 EXCEPT !.at = "refused"] /\ v7[Device!MainId] # Device!NoNode
      <4>1. v3.opened = FALSE
        BY <1>1, <1>2, Zenon DEF Device!create_info, Device!SetSoFar, Device!Making
      <4>2. v3' = [v3 EXCEPT !.at = "refused", !.opened = FALSE]
        BY <3>2, <4>1, Zenon DEF Device!Making
      <4> QED BY <3>2, <4>2, Zenon
    <3>3. CASE /\ v3' = [v3 EXCEPT !.at = Device!After("info"), !.opened = TRUE]
               /\ v7[Device!MainId] # Device!NoNode
      BY <3>3, Zenon
    <3> QED BY <1>2, <3>1, <3>2, <3>3, Zenon DEF Device!create_info
  <2>2. v3.at = "info" /\ UNCHANGED <<v2, v4, v7, v8, v9, v10>>
    BY <1>2, Zenon DEF Device!create_info
  <2>3. /\ v3' \in Device!Making /\ v3'.at = s /\ v3'.opened = o
        /\ v3'.type = v3.type /\ v3'.props = v3.props
    BY <2>1, Zenon DEF Device!Making
  <2>4. Device!MainId' = Device!MainId
    BY <2>3, Zenon DEF Device!MainId
  <2>5. Device!SetSoFar'
    BY <1>1, <2>2, <2>3, Zenon DEF Device!SetSoFar
  <2>6. Device!RegisteredSoFar'
    BY <1>1, <2>1, <2>2, <2>3, <2>4, Zenon DEF Device!RegisteredSoFar
  <2>7. Device!OthersIsInTheSlot'
    BY <1>1, <2>1, <2>2, <2>3, <2>4, Zenon DEF Device!OthersIsInTheSlot
  <2> QED BY <2>2, <2>3, <2>5, <2>6, <2>7, DeviceByStage, Zenon
<1>3. CASE Device!set_property
  <2>1. v3.at \in {"hardware ids", "family ids"} /\ UNCHANGED <<v2, v4, v7, v8, v9, v10>>
    BY <1>3, Zenon DEF Device!set_property
  <2>2. PICK s \in {"family ids", "register"}, p \in SUBSET Device!Identifier :
          /\ v3' = [v3 EXCEPT !.at = s, !.props = p]
          /\ s = "family ids" => v3.at = "hardware ids" /\ p = {"hardware ids"}
          /\ s = "register" => v3.at = "family ids" /\ p = Device!Needed(v3.type)
    <3>1. CASE v3.at = "hardware ids"
      <4>1. v3.props = {}
        BY <1>1, <3>1, Zenon DEF Device!SetSoFar
      <4>2. v3' = [v3 EXCEPT !.at = "family ids", !.props = {"hardware ids"}]
        BY <1>3, <3>1, <4>1, Zenon DEF Device!set_property, Device!Making
      <4> QED BY <3>1, <4>2, Zenon DEF Device!Identifier
    <3>2. CASE v3.at = "family ids"
      <4>1. v3.props = {"hardware ids"}
        BY <1>1, <3>2, Zenon DEF Device!SetSoFar
      <4>2. v3' = [v3 EXCEPT !.at = "register",
                     !.props = {"hardware ids"} \cup (Device!Needed(v3.type) \ {"hardware ids"})]
        BY <1>3, <3>2, <4>1, Zenon DEF Device!set_property, Device!Making
      <4>3. PICK p : p = Device!Needed(v3.type)
        BY Zenon
      <4>4. p \subseteq Device!Identifier /\ {"hardware ids"} \cup (p \ {"hardware ids"}) = p
        BY <4>3, MakingIs, NeededIs, Zenon
      <4>5. v3' = [v3 EXCEPT !.at = "register", !.props = p]
        BY <4>2, <4>3, <4>4, Zenon
      <4> QED BY <3>2, <4>3, <4>4, <4>5, Zenon
    <3> QED BY <2>1, <3>1, <3>2, Zenon
  <2>3. /\ v3' \in Device!Making /\ v3'.at = s /\ v3'.props = p
        /\ v3'.type = v3.type /\ v3'.opened = v3.opened
    BY <2>2, Zenon DEF Device!Making
  <2>4. Device!MainId' = Device!MainId
    BY <2>3, Zenon DEF Device!MainId
  <2>5. Device!SetSoFar'
    BY <2>2, <2>3, Zenon DEF Device!SetSoFar
  <2>6. Device!RegisteredSoFar'
    BY <1>1, <2>1, <2>3, <2>4, Zenon DEF Device!RegisteredSoFar
  <2>7. Device!OthersIsInTheSlot'
    BY <2>3, Zenon DEF Device!OthersIsInTheSlot
  <2> QED BY <2>1, <2>3, <2>5, <2>6, <2>7, DeviceByStage, Zenon
<1>4. CASE Device!FailsEarly \/ Device!FailsLate \/ Device!refused
  <2>1. PICK s \in {"refused", "undo", "no node"} :
          /\ v3' = [v3 EXCEPT !.at = s]
          /\ s # "undo" => v3.at \in {"info", "refused"}
    <3>1. CASE Device!FailsEarly
      BY <3>1, Zenon DEF Device!FailsEarly, Device!Making
    <3>2. CASE Device!FailsLate
      BY <3>2, Zenon DEF Device!FailsLate
    <3>3. CASE Device!refused
      BY <3>3, Zenon DEF Device!refused
    <3> QED BY <1>4, <3>1, <3>2, <3>3, Zenon
  <2>2. v3.at # "wait" /\ UNCHANGED <<v2, v4, v7, v8, v9, v10>>
    BY <1>4, Zenon DEF Device!FailsEarly, Device!FailsLate, Device!refused
  <2>3. /\ v3' \in Device!Making /\ v3'.at = s /\ v3'.type = v3.type
    BY <2>1, MovedOn, Zenon
  <2>4. Device!MainId' = Device!MainId
    BY <2>3, Zenon DEF Device!MainId
  <2>5. Device!SetSoFar' /\ Device!RegisteredSoFar'
    BY <2>3, Zenon DEF Device!SetSoFar, Device!RegisteredSoFar
  <2>6. Device!OthersIsInTheSlot'
    BY <1>1, <2>1, <2>2, <2>3, <2>4, Zenon DEF Device!OthersIsInTheSlot
  <2> QED BY <2>2, <2>3, <2>5, <2>6, DeviceByStage, Zenon
<1> QED BY <1>2, <1>3, <1>4, Zenon

\* The calls that write to the node: it is the new pad's from here on.
LEMMA DeviceKeptByNode ==
    ASSUME Device!DeviceInv, v3 \in Device!Making,
           NEW node \in Device!Node, v7' = [v7 EXCEPT ![Device!MainId] = node],
           NEW s \in {"index", "bind", "companion"}, v3' = [v3 EXCEPT !.at = s],
           v3.at \in {"register", "index", "bind"},
           s = "bind" => node.index,
           node.props = Device!Needed(node.type), node.driver # "astray",
           UNCHANGED <<v2, v4, v8, v9, v10>>
    PROVE  Device!DeviceInv'
<1>1. /\ v3' \in Device!Making /\ v3'.at = s /\ v3'.type = v3.type
  BY MovedOn, Zenon
<1>2. Device!MainId' = Device!MainId /\ Device!MainId \in Device!InstanceIds
  BY <1>1, MakingIs DEF Device!MainId
<1>3. v3 # Device!NoMaking /\ v3' # Device!NoMaking
  <2>1. v3'.at # "none"
    BY <1>1
  <2> QED BY <2>1, MakingIs DEF Device!NoMaking
<1>4. node # Device!NoNode
  <2>1. node.at # "none"
    BY DEF Device!Node
  <2> QED BY <2>1 DEF Device!NoNode
<1>5. /\ v7' \in [Device!InstanceIds -> Device!Node \cup {Device!NoNode}]
      /\ v7'[Device!MainId] = node
      /\ \A i \in Device!InstanceIds : i # Device!MainId => v7'[i] = v7[i]
  BY <1>2 DEF Device!DeviceInv, Device!TypeOK
<1>6. Device!TypeOK'
  BY <1>1, <1>3, <1>5 DEF Device!DeviceInv, Device!TypeOK
<1>7. Device!SetSoFar' /\ Device!OthersIsInTheSlot'
  BY <1>1, Zenon DEF Device!SetSoFar, Device!OthersIsInTheSlot
<1>8. Device!RegisteredSoFar'
  BY <1>1, <1>2, <1>4, <1>5, Zenon DEF Device!RegisteredSoFar
<1>9. Device!NothingLeftBehind'
  <2>1. ASSUME NEW i \in Device!InstanceIds \ v10', v7'[i] # Device!NoNode
        PROVE  \/ v2' # Device!NoPad /\ v2'.node /\ Device!instance_id(v2'.type) = i
               \/ v3' # Device!NoMaking /\ Device!MainId' = i
    <3>1. CASE i = Device!MainId
      BY <1>2, <1>3, <3>1
    <3>2. CASE i # Device!MainId
      BY <1>5, <2>1, <3>2 DEF Device!DeviceInv, Device!NothingLeftBehind
    <3> QED BY <3>1, <3>2
  <2>2. v8' \subseteq (IF v2' = Device!NoPad THEN {} ELSE v2'.companion)
    BY DEF Device!DeviceInv, Device!NothingLeftBehind
  <2> QED BY <2>1, <2>2 DEF Device!NothingLeftBehind
<1>10. Device!BoundAsItsFamily'
  <2>1. ASSUME NEW i \in Device!InstanceIds, v7'[i] # Device!NoNode
        PROVE  v7'[i].props = Device!Needed(v7'[i].type) /\ v7'[i].driver # "astray"
    <3>1. CASE i = Device!MainId
      BY <1>5, <3>1
    <3>2. CASE i # Device!MainId
      BY <1>5, <2>1, <3>2 DEF Device!DeviceInv, Device!BoundAsItsFamily
    <3> QED BY <3>1, <3>2
  <2> QED BY <2>1 DEF Device!BoundAsItsFamily
<1>11. Device!LateCallbackIsHarmless' /\ (v2' # Device!NoPad /\ ~v2'.node => v2'.companion = {})
  BY DEF Device!DeviceInv, Device!LateCallbackIsHarmless
<1> QED BY <1>6, <1>7, <1>8, <1>9, <1>10, <1>11 DEF Device!DeviceInv

LEMMA DeviceKeptByCalls ==
    ASSUME Device!DeviceInv, v3 \in Device!Making,
           \/ Device!register \/ Device!write_controller_index \/ Device!bind_driver
    PROVE  Device!DeviceInv'
<1> USE StepsAfter
<1>1. /\ Device!SetSoFar /\ Device!RegisteredSoFar /\ Device!BoundAsItsFamily
      /\ v7 \in [Device!InstanceIds -> Device!Node \cup {Device!NoNode}]
  BY Zenon DEF Device!DeviceInv, Device!TypeOK
<1>2. Device!MainId \in Device!InstanceIds /\ v3.type \in Device!PadType
  BY MakingIs, Zenon
<1>3. ASSUME v7[Device!MainId] # Device!NoNode
      PROVE  /\ v7[Device!MainId] \in Device!Node
             /\ v7[Device!MainId].props = Device!Needed(v7[Device!MainId].type)
             /\ v7[Device!MainId].driver # "astray"
  BY <1>1, <1>2, <1>3, Zenon DEF Device!BoundAsItsFamily
<1>4. CASE Device!register
  <2>1. /\ v3.at = "register" /\ v3' = [v3 EXCEPT !.at = "index"]
        /\ UNCHANGED <<v2, v4, v8, v9, v10>>
    BY <1>4, Zenon DEF Device!register
  <2>2. PICK node \in Device!Node :
          /\ v7' = [v7 EXCEPT ![Device!MainId] = node]
          /\ node.props = Device!Needed(node.type) /\ node.driver # "astray"
    <3>1. CASE v3.opened
      <4>1. v7[Device!MainId] # Device!NoNode
        BY <1>1, <2>1, <3>1, Zenon DEF Device!RegisteredSoFar
      <4>2. v7' = [v7 EXCEPT ![Device!MainId] = v7[Device!MainId]]
        BY <1>4, <3>1, Zenon DEF Device!register
      <4> QED BY <1>3, <4>1, <4>2, Zenon
    <3>2. CASE ~v3.opened
      <4>1. PICK node : node = [at |-> "registered", props |-> v3.props, type |-> v3.type,
                                index |-> FALSE, driver |-> "none"]
        BY Zenon
      <4>2. v7' = [v7 EXCEPT ![Device!MainId] = node]
        BY <1>4, <3>2, <4>1, Zenon DEF Device!register
      <4>3. v3.props = Device!Needed(v3.type) /\ v3.props \subseteq Device!Identifier
        BY <1>1, <1>2, <2>1, NeededIs, Zenon DEF Device!SetSoFar
      <4>4. node \in Device!Node
        BY <1>2, <4>1, <4>3, Zenon DEF Device!Node
      <4>5. node.props = Device!Needed(node.type) /\ node.driver # "astray"
        BY <4>1, <4>3, Zenon
      <4> QED BY <4>2, <4>4, <4>5, Zenon
    <3> QED BY <3>1, <3>2, Zenon
  <2> QED BY <2>1, <2>2, DeviceKeptByNode, Zenon
<1>5. CASE Device!write_controller_index
  <2>1. /\ v3.at = "index" /\ v3' = [v3 EXCEPT !.at = "bind"]
        /\ UNCHANGED <<v2, v4, v8, v9, v10>>
    BY <1>5, Zenon DEF Device!write_controller_index
  <2>2. v7[Device!MainId] # Device!NoNode
    BY <1>1, <2>1, Zenon DEF Device!RegisteredSoFar
  <2>3. PICK old \in Device!Node : old = v7[Device!MainId]
    BY <1>3, <2>2, Zenon
  <2>4. PICK node : node = [old EXCEPT !.index = TRUE]
    BY Zenon
  <2>5. /\ node \in Device!Node /\ node.index /\ node.props = old.props
        /\ node.type = old.type /\ node.driver = old.driver
    BY <2>4, Zenon DEF Device!Node
  <2>6. v7' = [v7 EXCEPT ![Device!MainId] = node]
    BY <1>5, <2>3, <2>4, Zenon DEF Device!write_controller_index
  <2>7. node.props = Device!Needed(node.type) /\ node.driver # "astray"
    BY <1>3, <2>2, <2>3, <2>5, Zenon
  <2> QED BY <2>1, <2>5, <2>6, <2>7, DeviceKeptByNode, Zenon
<1>6. CASE Device!bind_driver
  <2>1. /\ v3.at = "bind" /\ v3' = [v3 EXCEPT !.at = "companion"]
        /\ UNCHANGED <<v2, v4, v8, v9, v10>>
    BY <1>6, Zenon DEF Device!bind_driver
  <2>2. v7[Device!MainId] # Device!NoNode /\ v7[Device!MainId].index
    BY <1>1, <2>1, Zenon DEF Device!RegisteredSoFar
  <2>3. PICK old \in Device!Node : old = v7[Device!MainId]
    BY <1>3, <2>2, Zenon
  <2>4. PICK node : node = [old EXCEPT !.driver = "serving"]
    BY Zenon
  <2>5. /\ node \in Device!Node /\ node.props = old.props
        /\ node.type = old.type /\ node.driver = "serving"
    BY <2>4, Zenon DEF Device!Node
  <2>6. v7' = [v7 EXCEPT ![Device!MainId] = node]
    BY <1>6, <2>2, <2>3, <2>4, Zenon DEF Device!bind_driver
  <2>7. node.props = Device!Needed(node.type) /\ node.driver # "astray"
    BY <1>3, <2>2, <2>3, <2>5, Zenon
  <2> QED BY <2>1, <2>5, <2>6, <2>7, DeviceKeptByNode, Zenon
<1> QED BY <1>4, <1>5, <1>6, Zenon

\* A context freed is one whose callback has run.
LEMMA ContextTouched ==
    ASSUME v9 \in [Device!Create -> Device!Context], Device!LateCallbackIsHarmless,
           NEW c \in Device!Create, NEW b \in Device!Context, v9' = [v9 EXCEPT ![c] = b],
           b.callback = "owed" => b.box = "live"
    PROVE  v9' \in [Device!Create -> Device!Context] /\ Device!LateCallbackIsHarmless'
<1>1. /\ v9' \in [Device!Create -> Device!Context]
      /\ v9'[c] = b /\ \A d \in Device!Create : d # c => v9'[d] = v9[d]
  OBVIOUS
<1>2. ASSUME NEW d \in Device!Create, v9'[d].callback = "owed"
      PROVE  v9'[d].box = "live"
  <2>1. CASE d = c
    BY <1>1, <1>2, <2>1
  <2>2. CASE d # c
    BY <1>1, <1>2, <2>2 DEF Device!LateCallbackIsHarmless
  <2> QED BY <2>1, <2>2
<1> QED BY <1>1, <1>2 DEF Device!LateCallbackIsHarmless

\* The companion is called for, or given up, and the node stays.
LEMMA DeviceKeptByCompanion ==
    ASSUME Device!DeviceInv, v3 \in Device!Making,
           NEW s \in {"wait", "undo"}, v3' = [v3 EXCEPT !.at = s],
           v3.at \in {"companion", "wait"}, UNCHANGED <<v2, v4, v7, v10>>,
           v8' \subseteq (IF v2 = Device!NoPad THEN {} ELSE v2.companion)
                         \cup (IF s = "wait" THEN {v4} ELSE {}),
           v9' \in [Device!Create -> Device!Context], Device!LateCallbackIsHarmless'
    PROVE  Device!DeviceInv'
<1>1. /\ v3' \in Device!Making /\ v3'.at = s /\ v3'.type = v3.type
  BY MovedOn, Zenon
<1>2. Device!MainId' = Device!MainId
  BY <1>1 DEF Device!MainId
<1>3. v3 # Device!NoMaking /\ v3' # Device!NoMaking
  <2>1. v3'.at # "none"
    BY <1>1
  <2> QED BY <2>1, MakingIs DEF Device!NoMaking
<1>4. Device!TypeOK'
  BY <1>1, <1>3 DEF Device!DeviceInv, Device!TypeOK
<1>5. Device!SetSoFar' /\ Device!OthersIsInTheSlot'
  BY <1>1, Zenon DEF Device!SetSoFar, Device!OthersIsInTheSlot
<1>6. Device!RegisteredSoFar'
  BY <1>1, <1>2, Zenon DEF Device!RegisteredSoFar, Device!DeviceInv
<1>7. Device!NothingLeftBehind'
  <2>1. ASSUME NEW i \in Device!InstanceIds \ v10', v7'[i] # Device!NoNode
        PROVE  \/ v2' # Device!NoPad /\ v2'.node /\ Device!instance_id(v2'.type) = i
               \/ v3' # Device!NoMaking /\ Device!MainId' = i
    BY <1>2, <1>3, <2>1 DEF Device!DeviceInv, Device!NothingLeftBehind
  <2>2. v8' \subseteq (IF v2' = Device!NoPad THEN {} ELSE v2'.companion)
                      \cup (IF v3'.at = "wait" THEN {v4'} ELSE {})
    BY <1>1
  <2> QED BY <2>1, <2>2 DEF Device!NothingLeftBehind
<1>8. Device!BoundAsItsFamily' /\ (v2' # Device!NoPad /\ ~v2'.node => v2'.companion = {})
  BY DEF Device!DeviceInv, Device!BoundAsItsFamily
<1> QED BY <1>4, <1>5, <1>6, <1>7, <1>8 DEF Device!DeviceInv

LEMMA DeviceKeptByWait ==
    ASSUME Device!DeviceInv, v3 \in Device!Making, Device!DeviceBounds,
           \/ Device!SwDeviceCreate \/ Device!companion_times_out \/ Device!companion_signalled
    PROVE  Device!DeviceInv'
<1>1. /\ v9 \in [Device!Create -> Device!Context] /\ v4 \in Device!Create
      /\ Device!LateCallbackIsHarmless /\ v3.type \in Device!PadType
      /\ v8 \subseteq (IF v2 = Device!NoPad THEN {} ELSE v2.companion)
                      \cup (IF v3.at = "wait" THEN {v4} ELSE {})
  BY MakingIs DEF Device!DeviceInv, Device!TypeOK, Device!NothingLeftBehind
<1>2. v9[v4] \in Device!Context
  BY <1>1
<1>3. CASE Device!SwDeviceCreate
  <2>1. PICK b : b = [box |-> "live", event |-> "open", callback |-> "owed", type |-> v3.type]
    BY Zenon
  <2>2. b \in Device!Context /\ b.box = "live"
    BY <1>1, <2>1 DEF Device!Context
  <2>3. v9' = [v9 EXCEPT ![v4] = b]
    BY <1>3, <2>1 DEF Device!SwDeviceCreate
  <2>4. v9' \in [Device!Create -> Device!Context] /\ Device!LateCallbackIsHarmless'
    BY <1>1, <2>2, <2>3, ContextTouched, Zenon
  <2>5. /\ v3' = [v3 EXCEPT !.at = "wait"] /\ v3.at = "companion"
        /\ UNCHANGED <<v2, v4, v7, v10>> /\ v8' = v8 \cup {v4}
    BY <1>3 DEF Device!SwDeviceCreate
  <2>6. v8' \subseteq (IF v2 = Device!NoPad THEN {} ELSE v2.companion) \cup {v4}
    BY <1>1, <2>5
  <2> QED BY <2>4, <2>5, <2>6, DeviceKeptByCompanion
<1>4. CASE Device!companion_times_out
  <2>1. PICK b : b = [v9[v4] EXCEPT !.event = "closed"]
    BY Zenon
  <2>2. b \in Device!Context /\ b.callback = v9[v4].callback /\ b.box = v9[v4].box
    BY <1>2, <2>1 DEF Device!Context
  <2>3. v9' = [v9 EXCEPT ![v4] = b]
    BY <1>4, <2>1 DEF Device!companion_times_out, Device!Abandoned
  <2>4. b.callback = "owed" => b.box = "live"
    BY <1>1, <2>2, Zenon DEF Device!LateCallbackIsHarmless
  <2>5. v9' \in [Device!Create -> Device!Context] /\ Device!LateCallbackIsHarmless'
    BY <1>1, <2>2, <2>3, <2>4, ContextTouched, Zenon
  <2>6. /\ v3' = [v3 EXCEPT !.at = "undo"] /\ v3.at = "wait"
        /\ UNCHANGED <<v2, v4, v7, v10>> /\ v8' = v8 \ {v4}
    BY <1>4 DEF Device!companion_times_out
  <2>7. v8' \subseteq (IF v2 = Device!NoPad THEN {} ELSE v2.companion)
    BY <1>1, <2>6
  <2> QED BY <2>5, <2>6, <2>7, DeviceKeptByCompanion
<1>5. CASE Device!companion_signalled
  <2>1. PICK b : b = [v9[v4] EXCEPT !.event = "closed", !.box = "reclaimed"]
    OBVIOUS
  <2>2. b \in Device!Context /\ b.callback = v9[v4].callback
    BY <1>2, <2>1, Zenon DEF Device!Context
  <2>3. /\ v9' = [v9 EXCEPT ![v4] = b] /\ v9[v4].callback \in {"ok", "err"}
        /\ v3.at = "wait" /\ v4' = v4
    BY <1>5, <2>1 DEF Device!companion_signalled, Device!Reclaimed
  <2>4. b.callback # "owed"
    BY <2>2, <2>3
  <2>5. v9' \in [Device!Create -> Device!Context] /\ Device!LateCallbackIsHarmless'
    BY <1>1, <2>2, <2>3, <2>4, ContextTouched, Zenon
  <2>6. CASE v9[v4].callback = "ok"
    <3>1. Device!Plugged(TRUE, {v4})
      BY <1>5, <2>6, Zenon DEF Device!companion_signalled
    <3>2. v8 \subseteq (IF v2 = Device!NoPad THEN {} ELSE v2.companion) \cup {v4}
      BY <1>1, <2>3
    <3>3. v3 # Device!NoMaking /\ {v4} \in SUBSET Device!Create
      BY <1>1, MakingIs
    <3> QED BY <2>3, <2>5, <3>1, <3>2, <3>3, DeviceKeptByPlugged, Zenon
  <2>7. CASE v9[v4].callback = "err"
    <3>1. /\ v3' = [v3 EXCEPT !.at = "undo"]
          /\ UNCHANGED <<v2, v4, v7, v10>> /\ v8' = v8 \ {v4}
      BY <1>5, <2>7 DEF Device!companion_signalled
    <3>2. v8' \subseteq (IF v2 = Device!NoPad THEN {} ELSE v2.companion)
      BY <1>1, <3>1
    <3> QED BY <2>3, <2>5, <3>1, <3>2, DeviceKeptByCompanion
  <2> QED BY <2>3, <2>6, <2>7
<1> QED BY <1>3, <1>4, <1>5

LEMMA DeviceKeptByPlug ==
    ASSUME Device!DeviceInv, v3 \in Device!Making, Device!NoCompanion \/ Device!PluggedBare
    PROVE  Device!DeviceInv'
<1>1. /\ v9' \in [Device!Create -> Device!Context] /\ Device!LateCallbackIsHarmless'
      /\ v4' = v4 /\ v3.at \in {"companion", "no node"}
  BY Zenon DEF Device!DeviceInv, Device!TypeOK, Device!LateCallbackIsHarmless,
         Device!NoCompanion, Device!PluggedBare
<1>2. v8 \subseteq (IF v2 = Device!NoPad THEN {} ELSE v2.companion) \cup {}
  BY <1>1, Zenon DEF Device!DeviceInv, Device!NothingLeftBehind
<1>3. v3 # Device!NoMaking /\ {} \in SUBSET Device!Create
  BY MakingIs
<1>4. CASE Device!NoCompanion
  <2>1. Device!Plugged(TRUE, {})
    BY <1>4, Zenon DEF Device!NoCompanion
  <2> QED BY <1>1, <1>2, <1>3, <2>1, DeviceKeptByPlugged, Zenon
<1>5. CASE Device!PluggedBare
  <2>1. Device!Plugged(FALSE, {}) /\ v3.at = "no node"
    BY <1>5, Zenon DEF Device!PluggedBare
  <2> QED BY <1>1, <1>2, <1>3, <2>1, DeviceKeptByPlugged, Zenon
<1> QED BY <1>4, <1>5

LEMMA DeviceKeptByUndo ==
    ASSUME Device!DeviceInv, v3 \in Device!Making, Device!undo
    PROVE  Device!DeviceInv'
<1>1. /\ Device!Removed(v3.type, {}) /\ v3.at = "undo" /\ v3' = [v3 EXCEPT !.at = "no node"]
      /\ UNCHANGED <<v2, v4, v9>>
  BY Zenon DEF Device!undo, Device!Undone
<1>2. /\ v3' \in Device!Making /\ v3'.at = "no node" /\ v3'.type = v3.type
  BY <1>1, MovedOn, Zenon
<1>3. Device!MainId' = Device!MainId /\ Device!MainId = Device!instance_id(v3.type)
  BY <1>2, MakingIs, Zenon DEF Device!MainId
<1>4. v3 # Device!NoMaking /\ v3' # Device!NoMaking
  <2>1. v3'.at # "none"
    BY <1>2, Zenon
  <2> QED BY <2>1, MakingIs DEF Device!NoMaking
<1>5. PICK t \in Device!PadType : t = v3.type
  BY MakingIs
<1>6. Device!Removed(t, {}) /\ Device!TypeOK /\ Device!BoundAsItsFamily
  BY <1>1, <1>5, Zenon DEF Device!DeviceInv
<1>7. /\ v7' \in [Device!InstanceIds -> Device!Node \cup {Device!NoNode}]
      /\ Device!BoundAsItsFamily' /\ v8' = v8 \ {} /\ v10 \subseteq v10'
      /\ v7'[Device!instance_id(t)] = Device!NoNode \/ Device!instance_id(t) \in v10'
      /\ \A i \in Device!InstanceIds : v7'[i] # Device!NoNode => v7'[i] = v7[i]
  BY <1>6, RemovedOne, Zenon
<1>8. Device!TypeOK'
  BY <1>1, <1>2, <1>4, <1>7, Zenon DEF Device!DeviceInv, Device!TypeOK
<1>9. Device!SetSoFar' /\ Device!RegisteredSoFar'
  BY <1>2, Zenon DEF Device!SetSoFar, Device!RegisteredSoFar
<1>10. Device!OthersIsInTheSlot'
  <2>1. v7'[Device!MainId'] = Device!NoNode \/ Device!MainId' \in v10'
    BY <1>3, <1>5, <1>7
  <2> QED BY <2>1, Zenon DEF Device!OthersIsInTheSlot
<1>11. Device!NothingLeftBehind'
  <2>1. ASSUME NEW i \in Device!InstanceIds \ v10', v7'[i] # Device!NoNode
        PROVE  \/ v2' # Device!NoPad /\ v2'.node /\ Device!instance_id(v2'.type) = i
               \/ v3' # Device!NoMaking /\ Device!MainId' = i
    <3>1. i \in Device!InstanceIds \ v10 /\ v7[i] # Device!NoNode
      BY <1>7, <2>1
    <3> QED BY <1>1, <1>3, <1>4, <3>1, Zenon
       DEF Device!DeviceInv, Device!NothingLeftBehind
  <2>2. v8' \subseteq (IF v2' = Device!NoPad THEN {} ELSE v2'.companion)
    BY <1>1, <1>7, Zenon DEF Device!DeviceInv, Device!NothingLeftBehind
  <2> QED BY <2>1, <2>2 DEF Device!NothingLeftBehind
<1>12. Device!LateCallbackIsHarmless' /\ (v2' # Device!NoPad /\ ~v2'.node => v2'.companion = {})
  BY <1>1, Zenon DEF Device!DeviceInv, Device!LateCallbackIsHarmless
<1> QED BY <1>7, <1>8, <1>9, <1>10, <1>11, <1>12 DEF Device!DeviceInv

LEMMA DeviceKeptByConnect ==
    ASSUME Device!DeviceInv, Device!DeviceBounds, Device!connect_pad
    PROVE  Device!DeviceInv'
<1>1. PICK t \in Device!PadType :
        v3' = [at |-> "info", type |-> t, props |-> {}, opened |-> FALSE]
  BY Zenon DEF Device!connect_pad
<1>2. /\ v3 = Device!NoMaking /\ v4' = v4 + 1 /\ v4 < MaxPlugs
      /\ UNCHANGED <<v2, v7, v8, v9, v10>>
  BY DEF Device!connect_pad
<1>3. v3' \in Device!Making
  BY <1>1 DEF Device!Making, Device!Identifier
<1>4. v3' # Device!NoMaking
  <2>1. v3'.at # "none"
    BY <1>1
  <2> QED BY <2>1 DEF Device!NoMaking
<1>5. v4' \in Nat /\ v4' \in Device!Create
  BY <1>2 DEF Device!DeviceInv, Device!TypeOK, Device!DeviceBounds, Device!Create
<1>6. Device!TypeOK'
  BY <1>2, <1>3, <1>5 DEF Device!DeviceInv, Device!TypeOK
<1>7. Device!SetSoFar' /\ Device!RegisteredSoFar'
  BY <1>1 DEF Device!SetSoFar, Device!RegisteredSoFar
<1>8. Device!MainId' = Device!instance_id(t) /\ Device!instance_id(t) \in Device!InstanceIds
  BY <1>1, NeededIs, Zenon DEF Device!MainId
<1>9. ASSUME NEW i \in Device!InstanceIds \ v10, v7[i] # Device!NoNode
      PROVE  v2 # Device!NoPad /\ v2.node /\ Device!instance_id(v2.type) = i
  BY <1>2, <1>9 DEF Device!DeviceInv, Device!NothingLeftBehind
<1>10. Device!OthersIsInTheSlot'
  <2>1. \/ v7[Device!instance_id(t)] = Device!NoNode \/ Device!instance_id(t) \in v10
        \/ v2 # Device!NoPad /\ v2.node /\ Device!instance_id(v2.type) = Device!instance_id(t)
    BY <1>8, <1>9
  <2> QED BY <1>2, <1>8, <2>1, Zenon DEF Device!OthersIsInTheSlot
<1>11. Device!NothingLeftBehind'
  <2>1. v8' \subseteq (IF v2' = Device!NoPad THEN {} ELSE v2'.companion)
    <3>1. v3.at # "wait"
      BY <1>2 DEF Device!NoMaking
    <3> QED BY <1>2, <3>1 DEF Device!DeviceInv, Device!NothingLeftBehind
  <2> QED BY <1>2, <1>9, <2>1 DEF Device!NothingLeftBehind
<1>12. /\ Device!LateCallbackIsHarmless' /\ (v2' # Device!NoPad /\ ~v2'.node => v2'.companion = {})
       /\ Device!BoundAsItsFamily'
  BY <1>2 DEF Device!DeviceInv, Device!LateCallbackIsHarmless, Device!BoundAsItsFamily
<1> QED BY <1>6, <1>7, <1>10, <1>11, <1>12 DEF Device!DeviceInv

LEMMA DeviceKeptByDisconnect ==
    ASSUME Device!DeviceInv, Device!pad_disconnected
    PROVE  Device!DeviceInv'
<1>1. /\ v3 = Device!NoMaking /\ v3' = Device!NoMaking /\ v2 # Device!NoPad
      /\ v2' = Device!NoPad /\ UNCHANGED <<v4, v9>>
  BY DEF Device!pad_disconnected
<1>2. v3.at = "none" /\ v3'.at = "none"
  BY <1>1 DEF Device!NoMaking
<1>3. v2 \in Device!Pad /\ v8 \subseteq v2.companion
  BY <1>1, <1>2 DEF Device!DeviceInv, Device!TypeOK, Device!NothingLeftBehind
<1>4. /\ v7' \in [Device!InstanceIds -> Device!Node \cup {Device!NoNode}]
      /\ Device!BoundAsItsFamily' /\ v8' = {}
      /\ \A i \in Device!InstanceIds \ v10' : v7'[i] = Device!NoNode
  <2>1. CASE v2.node
    <3>1. PICK t \in Device!PadType : t = v2.type
      BY <1>3 DEF Device!Pad
    <3>7. PICK gone : gone = v2.companion
      OBVIOUS
    <3>2. Device!Removed(t, gone) /\ Device!TypeOK /\ Device!BoundAsItsFamily
      BY <2>1, <3>1, <3>7 DEF Device!pad_disconnected, Device!DeviceInv
    <3>3. /\ v7' \in [Device!InstanceIds -> Device!Node \cup {Device!NoNode}]
          /\ Device!BoundAsItsFamily' /\ v8' = v8 \ gone /\ v10 \subseteq v10'
          /\ v7'[Device!instance_id(t)] = Device!NoNode \/ Device!instance_id(t) \in v10'
          /\ \A i \in Device!InstanceIds : v7'[i] # Device!NoNode => v7'[i] = v7[i]
      BY <3>2, RemovedOne
    <3>4. ASSUME NEW i \in Device!InstanceIds \ v10', v7'[i] # Device!NoNode
          PROVE  FALSE
      <4>1. i \in Device!InstanceIds \ v10 /\ v7[i] # Device!NoNode
        BY <3>3, <3>4
      <4>2. Device!instance_id(v2.type) = i
        BY <1>1, <4>1 DEF Device!DeviceInv, Device!NothingLeftBehind
      <4> QED BY <3>1, <3>3, <3>4, <4>2
    <3>5. v8' = {}
      BY <1>3, <3>7, <3>3
    <3> QED BY <3>3, <3>4, <3>5
  <2>2. CASE ~v2.node
    <3>1. UNCHANGED <<v7, v8, v10>>
      BY <2>2 DEF Device!pad_disconnected
    <3>2. v8 = {}
      BY <1>1, <1>3, <2>2 DEF Device!DeviceInv
    <3>3. Device!BoundAsItsFamily'
      BY <3>1 DEF Device!DeviceInv, Device!BoundAsItsFamily
    <3>4. \A i \in Device!InstanceIds \ v10 : v7[i] = Device!NoNode
      BY <1>1, <2>2 DEF Device!DeviceInv, Device!NothingLeftBehind
    <3> QED BY <3>1, <3>2, <3>3, <3>4 DEF Device!DeviceInv, Device!TypeOK
  <2> QED BY <1>3, <2>1, <2>2 DEF Device!Pad
<1>5. Device!TypeOK'
  BY <1>1, <1>4 DEF Device!DeviceInv, Device!TypeOK
<1>6. Device!SetSoFar' /\ Device!RegisteredSoFar' /\ Device!OthersIsInTheSlot'
  BY <1>2 DEF Device!SetSoFar, Device!RegisteredSoFar, Device!OthersIsInTheSlot
<1>7. Device!NothingLeftBehind'
  BY <1>4 DEF Device!NothingLeftBehind
<1>8. Device!LateCallbackIsHarmless'
  BY <1>1 DEF Device!DeviceInv, Device!LateCallbackIsHarmless
<1> QED BY <1>1, <1>4, <1>5, <1>6, <1>7, <1>8 DEF Device!DeviceInv

LEMMA DeviceKeptByKill ==
    ASSUME Device!DeviceInv, Device!Killed
    PROVE  Device!DeviceInv'
<1>1. /\ v2' = Device!NoPad /\ v3' = Device!NoMaking /\ v8' = {} /\ UNCHANGED <<v4, v7>>
      /\ v9' = [c \in Device!Create |-> Device!NoCtx]
      /\ v10' = {i \in Device!InstanceIds : v7[i] # Device!NoNode}
  BY DEF Device!Killed
<1>2. v3'.at = "none"
  BY <1>1 DEF Device!NoMaking
<1>3. Device!TypeOK'
  BY <1>1 DEF Device!DeviceInv, Device!TypeOK, Device!NoCtx, Device!Context
<1>4. Device!SetSoFar' /\ Device!RegisteredSoFar' /\ Device!OthersIsInTheSlot'
  BY <1>2 DEF Device!SetSoFar, Device!RegisteredSoFar, Device!OthersIsInTheSlot
<1>5. Device!NothingLeftBehind' /\ Device!BoundAsItsFamily'
  BY <1>1 DEF Device!DeviceInv, Device!NothingLeftBehind, Device!BoundAsItsFamily
<1>6. Device!LateCallbackIsHarmless'
  BY <1>1 DEF Device!LateCallbackIsHarmless, Device!NoCtx
<1> QED BY <1>1, <1>3, <1>4, <1>5, <1>6 DEF Device!DeviceInv

LEMMA DeviceKeptByCallback ==
    ASSUME Device!DeviceInv, Device!companion_callback
    PROVE  Device!DeviceInv'
<1>1. PICK c \in Device!Create, r \in {"ok", "err"} :
        /\ v9[c].callback = "owed" /\ v9' = [v9 EXCEPT ![c].callback = r]
        /\ UNCHANGED <<v2, v3, v4, v7, v8, v10>>
  BY DEF Device!companion_callback
<1>2. v9 \in [Device!Create -> Device!Context] /\ Device!LateCallbackIsHarmless
  BY DEF Device!DeviceInv, Device!TypeOK
<1>3. PICK b : b = [v9[c] EXCEPT !.callback = r]
  BY Zenon
<1>4. b \in Device!Context /\ b.callback = r
  BY <1>2, <1>3 DEF Device!Context
<1>5. v9' = [v9 EXCEPT ![c] = b] /\ b.callback # "owed"
  BY <1>1, <1>3, <1>4
<1>6. v9' \in [Device!Create -> Device!Context] /\ Device!LateCallbackIsHarmless'
  BY <1>2, <1>4, <1>5, ContextTouched, Zenon
<1>7. Device!TypeOK'
  BY <1>1, <1>6 DEF Device!DeviceInv, Device!TypeOK
<1>8. Device!SetSoFar' /\ Device!RegisteredSoFar' /\ Device!OthersIsInTheSlot'
  BY <1>1, Zenon
     DEF Device!DeviceInv, Device!SetSoFar, Device!RegisteredSoFar, Device!OthersIsInTheSlot,
              Device!MainId
<1>9. Device!NothingLeftBehind' /\ Device!BoundAsItsFamily'
  BY <1>1 DEF Device!DeviceInv, Device!NothingLeftBehind, Device!BoundAsItsFamily, Device!MainId
<1> QED BY <1>1, <1>6, <1>7, <1>8, <1>9 DEF Device!DeviceInv

LEMMA DeviceKept ==
    ASSUME Device!DeviceInv, Device!Next
    PROVE  Device!DeviceInv'
<1>1. Device!DeviceBounds
  BY DeviceAssumption
<1>2. ASSUME \/ Device!create_info \/ Device!set_property \/ Device!register
             \/ Device!write_controller_index \/ Device!bind_driver \/ Device!NoCompanion
             \/ Device!SwDeviceCreate \/ Device!companion_times_out
             \/ Device!companion_signalled \/ Device!FailsEarly \/ Device!FailsLate
             \/ Device!undo \/ Device!refused \/ Device!PluggedBare
      PROVE  v3 \in Device!Making
  <2>1. v3.at # "none"
    BY <1>2, Zenon DEF Device!create_info, Device!set_property, Device!register,
         Device!write_controller_index, Device!bind_driver, Device!NoCompanion,
         Device!SwDeviceCreate, Device!companion_times_out, Device!companion_signalled,
         Device!FailsEarly, Device!FailsLate, Device!undo, Device!refused, Device!PluggedBare
  <2>2. v3 # Device!NoMaking
    BY <2>1 DEF Device!NoMaking
  <2> QED BY <2>2 DEF Device!DeviceInv, Device!TypeOK
<1>3. CASE \/ Device!create_info \/ Device!set_property \/ Device!FailsEarly
           \/ Device!FailsLate \/ Device!refused
  BY <1>2, <1>3, DeviceKeptByFirstCalls
<1>4. CASE Device!register \/ Device!write_controller_index \/ Device!bind_driver
  BY <1>2, <1>4, DeviceKeptByCalls
<1>5. CASE \/ Device!SwDeviceCreate \/ Device!companion_times_out
           \/ Device!companion_signalled
  BY <1>1, <1>2, <1>5, DeviceKeptByWait
<1>6. CASE Device!NoCompanion \/ Device!PluggedBare
  BY <1>2, <1>6, DeviceKeptByPlug
<1>7. CASE Device!undo
  BY <1>2, <1>7, DeviceKeptByUndo
<1>8. CASE Device!connect_pad
  BY <1>1, <1>8, DeviceKeptByConnect
<1>9. CASE Device!pad_disconnected
  BY <1>9, DeviceKeptByDisconnect
<1>10. CASE Device!Killed
  BY <1>10, DeviceKeptByKill
<1>11. CASE Device!companion_callback
  BY <1>11, DeviceKeptByCallback
<1> QED BY <1>3, <1>4, <1>5, <1>6, <1>7, <1>8, <1>9, <1>10, <1>11 DEF Device!Next

LEMMA DeviceStays ==
    ASSUME Device!DeviceInv, UNCHANGED vars
    PROVE  Device!DeviceInv'
BY Zenon
   DEF vars, Device!DeviceInv, Device!TypeOK, Device!SetSoFar, Device!RegisteredSoFar,
       Device!OthersIsInTheSlot, Device!LateCallbackIsHarmless, Device!NothingLeftBehind,
       Device!BoundAsItsFamily, Device!MainId

-----------------------------------------------------------------------------
(* PadOutput.  v1 written, v2 kind, v3 ring, v4 seen, v5 policy, v6 effect,*)
(* v7 wire, v8 router, v9 motors.                                          *)

LEMMA EffectNumbers ==
    /\ OutRing \in Nat \ {0} /\ EffectWrap \in Nat /\ 2 < EffectWrap
    /\ EffectWrap \div 2 \in Nat /\ (EffectWrap \div 2) + (EffectWrap \div 2) = EffectWrap
<1>1. OutRing \in Nat \ {0} /\ EffectWrap \in Nat /\ EffectWrap % 2 = 0 /\ EffectWrap > 2
  BY EffectAssumption DEF Effect!PadBounds
<1>2. EffectWrap = 2 * (EffectWrap \div 2) + (EffectWrap % 2) /\ EffectWrap \div 2 \in Int
  BY <1>1
<1> QED BY <1>1, <1>2

\* Below twice the modulus a remainder takes no more than one subtraction.
LEMMA OnceRound ==
    ASSUME NEW s \in Nat \ {0}, NEW x \in Nat, x < s + s
    PROVE  x % s = IF x < s THEN x ELSE x - s
<1>1. PICK r, q : r = x % s /\ q = x \div s
  OBVIOUS
<1>2. r \in 0 .. s - 1 /\ q \in Int /\ x = s * q + r
  BY <1>1
<1>3. q = 0 \/ q = 1
  <2>1. CASE q < 0
    <3>1. s * (0 - q) >= s
      BY <1>2, <2>1
    <3>2. s * (0 - q) = 0 - s * q
      BY <1>2
    <3> QED BY <1>2, <3>1, <3>2
  <2>2. CASE q > 1
    <3>1. s * (q - 2) >= 0
      BY <1>2, <2>2
    <3>2. s * (q - 2) = s * q - (s + s)
      BY <1>2
    <3> QED BY <1>2, <3>1, <3>2
  <2> QED BY <1>2, <2>1, <2>2
<1>4. s * 0 = 0 /\ s * 1 = s
  OBVIOUS
<1> QED BY <1>1, <1>2, <1>3, <1>4

LEMMA NextRound ==
    ASSUME NEW s \in Nat \ {0}, NEW n \in Nat
    PROVE  /\ n % s \in 0 .. s - 1
           /\ (n + 1) % s = IF n % s = s - 1 THEN 0 ELSE (n % s) + 1
<1>1. PICK r, q : r = n % s /\ q = n \div s
  OBVIOUS
<1>2. r \in 0 .. s - 1 /\ q \in Int /\ n = s * q + r
  BY <1>1
<1>3. PICK r1, q1 : r1 = (n + 1) % s /\ q1 = (n + 1) \div s
  OBVIOUS
<1>4. r1 \in 0 .. s - 1 /\ q1 \in Int /\ n + 1 = s * q1 + r1
  BY <1>3
<1>5. PICK d : d = q1 - q
  OBVIOUS
<1>6. s * d = s * q1 - s * q /\ d \in Int
  BY <1>2, <1>4, <1>5
<1>7. r + 1 = s * d + r1
  BY <1>2, <1>4, <1>6
<1>8. d = 0 \/ d = 1
  <2>1. CASE d < 0
    <3>1. s * (0 - d) >= s /\ s * (0 - d) = 0 - s * d
      BY <1>6, <2>1
    <3> QED BY <1>2, <1>4, <1>6, <1>7, <3>1
  <2>2. CASE d > 1
    <3>1. s * (d - 2) >= 0 /\ s * (d - 2) = s * d - (s + s)
      BY <1>6, <2>2
    <3> QED BY <1>2, <1>4, <1>6, <1>7, <3>1
  <2> QED BY <1>6, <2>1, <2>2
<1>9. s * 0 = 0 /\ s * 1 = s
  OBVIOUS
<1> QED BY <1>1, <1>2, <1>3, <1>4, <1>7, <1>8, <1>9

\* How far r is behind p, going round.
Behind(p, r) == (p + EffectWrap - r) % EffectWrap

LEMMA BehindIs ==
    ASSUME NEW p \in Effect!Sequence, NEW r \in Effect!Sequence
    PROVE  /\ Behind(p, r) \in Effect!Sequence
           /\ Behind(p, r) = IF p >= r THEN p - r ELSE p - r + EffectWrap
<1>1. PICK x : x = p + EffectWrap - r
  OBVIOUS
<1>2. /\ p \in Nat /\ r \in Nat /\ p < EffectWrap /\ r < EffectWrap /\ EffectWrap \in Nat \ {0}
      /\ x \in Nat /\ x < EffectWrap + EffectWrap
  BY <1>1, EffectNumbers DEF Effect!Sequence
<1>3. x % EffectWrap = IF x < EffectWrap THEN x ELSE x - EffectWrap
  BY <1>2, OnceRound, Zenon
<1> QED BY <1>1, <1>2, <1>3 DEF Behind, Effect!Sequence

LEMMA BehindTheNext ==
    ASSUME NEW p \in Effect!Sequence, NEW r \in Effect!Sequence
    PROVE  /\ (p + 1) % EffectWrap \in Effect!Sequence
           /\ Behind((p + 1) % EffectWrap, r)
                = IF Behind(p, r) = EffectWrap - 1 THEN 0 ELSE Behind(p, r) + 1
<1> DEFINE more == p + 1
<1>1. more \in Nat /\ more < EffectWrap + EffectWrap /\ EffectWrap \in Nat \ {0}
  BY EffectNumbers DEF Effect!Sequence
<1>2. more % EffectWrap = IF more < EffectWrap THEN more ELSE more - EffectWrap
  <2> HIDE DEF more
  <2> QED BY <1>1, OnceRound, Zenon
<1>3. PICK next : next = (p + 1) % EffectWrap
  OBVIOUS
<1>4. next \in Effect!Sequence
  BY <1>1, <1>2, <1>3 DEF Effect!Sequence
<1>5. /\ Behind(next, r) = IF next >= r THEN next - r ELSE next - r + EffectWrap
      /\ Behind(p, r) = IF p >= r THEN p - r ELSE p - r + EffectWrap
  BY <1>4, BehindIs
<1> QED BY <1>1, <1>2, <1>3, <1>4, <1>5 DEF Effect!Sequence

\* A datagram passes for newer than the one applied only if it is behind the newest
\* by less, as long as it is less than half the space behind.
LEMMA ForwardIsNewer ==
    ASSUME NEW p \in Effect!Sequence, NEW d \in Effect!Sequence, NEW r \in Effect!Sequence,
           NEW n \in Nat, Behind(p, r) = n % EffectWrap,
           Behind(p, d) < EffectWrap \div 2,
           Behind(d, r) \in 1 .. (EffectWrap \div 2) - 1
    PROVE  Behind(p, d) <= n
<1>1. SUFFICES ASSUME n < Behind(p, d) PROVE FALSE
  BY BehindIs DEF Effect!Sequence
<1>2. PICK h : h = EffectWrap \div 2
  OBVIOUS
<1>3. h \in Nat /\ h + h = EffectWrap /\ EffectWrap \in Nat \ {0}
  BY <1>2, EffectNumbers
<1>4. /\ Behind(p, d) = IF p >= d THEN p - d ELSE p - d + EffectWrap
      /\ Behind(p, r) = IF p >= r THEN p - r ELSE p - r + EffectWrap
      /\ Behind(d, r) = IF d >= r THEN d - r ELSE d - r + EffectWrap
  BY BehindIs
<1>5. n < EffectWrap
  BY <1>1, <1>2, <1>3, <1>4 DEF Effect!Sequence
<1>6. n % EffectWrap = n
  <2>1. n < EffectWrap + EffectWrap
    BY <1>3, <1>5
  <2> QED BY <1>3, <1>5, <2>1, OnceRound, Zenon
<1> QED BY <1>1, <1>2, <1>3, <1>4, <1>5, <1>6 DEF Effect!Sequence

\* The largest of some numbers below a bound is one of them.
LEMMA LargestOf ==
    ASSUME NEW k \in Nat, NEW T, T \subseteq 0 .. k, T # {}
    PROVE  Effect!Max(T) \in T /\ \A y \in T : Effect!Max(T) >= y
<1> DEFINE short == {k - x : x \in T}
<1>1. short \subseteq Nat /\ short # {}
  <2>1. ASSUME NEW x \in T PROVE k - x \in Nat
    BY <2>1
  <2> QED BY <2>1, Zenon
<1>2. PICK m \in short : \A y \in short : m <= y
  BY <1>1, LeastNumber, Zenon
<1>3. PICK x \in T : m = k - x
  BY <1>2
<1>4. ASSUME NEW y \in T PROVE x >= y
  <2>1. PICK other : other = k - y
    OBVIOUS
  <2>2. m <= other
    BY <1>2, <2>1
  <2>3. x \in 0 .. k /\ y \in 0 .. k
    BY Zenon
  <2> QED BY <1>3, <2>1, <2>2, <2>3
<1> QED BY <1>3, <1>4, Zenon DEF Effect!Max

\* The invariant's two halves, of a policy at p, a newest effect e, datagrams w and a
\* router at r.
Fits(p, e, d) ==
    /\ Behind(p, d.seq) < EffectWrap \div 2 /\ Behind(p, d.seq) <= e
    /\ Behind(p, d.seq) = 0 <=> d.report = e
WireFits(p, e, w) ==
    \A d \in w : /\ Fits(p, e, d)
                 /\ \A f \in w : Behind(p, d.seq) < Behind(p, f.seq) <=> d.report > f.report
RouterFitsAt(n, p, e, w, r) ==
    /\ Behind(p, r.seq) = n % EffectWrap /\ (n = 0 <=> r.report = e)
    /\ \A d \in w : /\ Behind(p, d.seq) < n <=> d.report > r.report
                    /\ Behind(p, d.seq) > n <=> d.report < r.report
RouterFits(p, e, w, r) == \E n \in 0 .. e : RouterFitsAt(n, p, e, w, r)

Datagram(e) == [seq : Effect!Sequence, report : 0 .. e]

LEMMA InvariantAsFits ==
    ASSUME Effect!EffectInv
    PROVE  /\ v4 \in Nat /\ v6 \in 0 .. v4 /\ v6 \in Nat
           /\ v5.seq \in Effect!Sequence /\ v7 \subseteq Datagram(v6)
           /\ v8.seq \in Effect!Sequence /\ v8.report \in 0 .. v6
           /\ WireFits(v5.seq, v6, v7)
           /\ v8.heard => RouterFits(v5.seq, v6, v7, v8)
<1>1. /\ v4 \in Nat /\ v6 \in 0 .. v4 /\ v6 \in Nat
      /\ v5.seq \in Effect!Sequence /\ v7 \subseteq Datagram(v6)
      /\ v8.seq \in Effect!Sequence /\ v8.report \in 0 .. v6
  BY DEF Effect!EffectInv, Datagram
<1>2. WireFits(v5.seq, v6, v7)
  BY DEF Effect!EffectInv, Effect!WireAgesWithReports, Effect!Age, Effect!IsBehind, Behind,
         WireFits, Fits
<1>3. v8.heard => RouterFits(v5.seq, v6, v7, v8)
  BY DEF Effect!EffectInv, Effect!RouterAgesWithReports, Effect!Age, Effect!IsBehind, Behind,
         RouterFits, RouterFitsAt
<1> QED BY <1>1, <1>2, <1>3

LEMMA FitsAsInvariant ==
    ASSUME v1' \in Nat, v3' \in [Effect!Position -> 0 .. v1'], v4' \in Nat, v6' \in 0 .. v4',
           v5' \in [seq : Effect!Sequence, active : BOOLEAN], v7' \subseteq Datagram(v6'),
           v8' \in [heard : BOOLEAN, seq : Effect!Sequence, report : 0 .. v6'],
           ~v8'.heard => v8'.report = 0,
           WireFits(v5'.seq, v6', v7'),
           v8'.heard => RouterFits(v5'.seq, v6', v7', v8')
    PROVE  Effect!EffectInv'
<1>1. Effect!WireAgesWithReports'
  <2>1. ASSUME NEW d \in v7'
        PROVE  /\ Behind(v5'.seq, d.seq) \in 0 .. v6' /\ Fits(v5'.seq, v6', d)
               /\ \A e \in v7' : Behind(v5'.seq, d.seq) < Behind(v5'.seq, e.seq) <=> d.report > e.report
    BY <2>1, BehindIs DEF Datagram, WireFits, Fits, Effect!Sequence
  <2> QED BY <2>1 DEF Effect!WireAgesWithReports, Effect!Age, Effect!IsBehind, Behind, Fits
<1>2. v8'.heard => Effect!RouterAgesWithReports'
  BY DEF Effect!RouterAgesWithReports, Effect!Age, Effect!IsBehind, Behind, RouterFits, RouterFitsAt
<1> QED BY <1>1, <1>2 DEF Effect!EffectInv, Datagram

\* Fewer datagrams.
LEMMA FewerFit ==
    ASSUME NEW p, NEW e, NEW w, NEW r, NEW fewer, fewer \subseteq w
    PROVE  /\ WireFits(p, e, w) => WireFits(p, e, fewer)
           /\ RouterFits(p, e, w, r) => RouterFits(p, e, fewer, r)
BY DEF WireFits, RouterFits, RouterFitsAt

\* The newest effect once more.
LEMMA RepeatFits ==
    ASSUME NEW p \in Effect!Sequence, NEW e \in Nat, NEW w, w \subseteq Datagram(e),
           NEW r, r.report \in 0 .. e, NEW s, s = [seq |-> p, report |-> e]
    PROVE  /\ WireFits(p, e, w) => WireFits(p, e, w \cup {s})
           /\ RouterFits(p, e, w, r) => RouterFits(p, e, w \cup {s}, r)
<1>1. Behind(p, s.seq) = 0 /\ s.report = e
  BY BehindIs DEF Effect!Sequence
<1>2. ASSUME NEW d \in w
      PROVE  /\ Behind(p, d.seq) \in Nat /\ d.report \in 0 .. e
  <2>1. d.seq \in Effect!Sequence /\ d.report \in 0 .. e
    BY DEF Datagram
  <2>2. Behind(p, d.seq) \in Effect!Sequence
    BY <2>1, BehindIs
  <2> QED BY <2>1, <2>2 DEF Effect!Sequence
<1>3. ASSUME WireFits(p, e, w) PROVE WireFits(p, e, w \cup {s})
  <2>1. Fits(p, e, s)
    BY <1>1, EffectNumbers DEF Fits
  <2>2. ASSUME NEW d \in w \cup {s}, NEW f \in w \cup {s}
        PROVE  Behind(p, d.seq) < Behind(p, f.seq) <=> d.report > f.report
    <3>1. CASE d \in w /\ f \in w
      BY <1>3, <3>1 DEF WireFits
    <3>2. CASE d = s /\ f = s
      BY <1>1, <3>2
    <3>3. CASE d \in w /\ f = s
      BY <1>1, <1>2, <3>3
    <3>4. CASE d = s /\ f \in w
      <4>1. Fits(p, e, f)
        BY <1>3, <3>4 DEF WireFits
      <4> QED BY <1>1, <1>2, <3>4, <4>1 DEF Fits
    <3> QED BY <3>1, <3>2, <3>3, <3>4
  <2> QED BY <1>3, <2>1, <2>2 DEF WireFits
<1>4. ASSUME RouterFits(p, e, w, r) PROVE RouterFits(p, e, w \cup {s}, r)
  <2>1. PICK n \in 0 .. e : RouterFitsAt(n, p, e, w, r)
    BY <1>4 DEF RouterFits
  <2>2. /\ Behind(p, s.seq) < n <=> s.report > r.report
        /\ Behind(p, s.seq) > n <=> s.report < r.report
    BY <1>1, <2>1 DEF RouterFitsAt
  <2>3. RouterFitsAt(n, p, e, w \cup {s}, r)
    BY <2>1, <2>2 DEF RouterFitsAt
  <2> QED BY <2>3 DEF RouterFits
<1> QED BY <1>3, <1>4

\* A new effect, under the next number.
LEMMA AllOlder ==
    ASSUME NEW p \in Effect!Sequence, NEW e \in Nat, NEW w, w \subseteq Datagram(e),
           WireFits(p, e, w), NEW next, next = (p + 1) % EffectWrap, NEW d \in w
    PROVE  /\ next \in Effect!Sequence /\ Behind(next, d.seq) = Behind(p, d.seq) + 1
           /\ Behind(p, d.seq) \in Nat /\ d.report \in 0 .. e
<1>1. d.seq \in Effect!Sequence /\ d.report \in 0 .. e
  BY DEF Datagram
<1>2. Behind(p, d.seq) \in Nat /\ Behind(p, d.seq) < EffectWrap \div 2
  BY <1>1, BehindIs DEF WireFits, Fits, Effect!Sequence
<1>3. Behind(p, d.seq) # EffectWrap - 1
  BY <1>2, EffectNumbers
<1> QED BY <1>1, <1>2, <1>3, BehindTheNext

LEMMA NewStampFits ==
    ASSUME NEW p \in Effect!Sequence, NEW e \in Nat, NEW w, w \subseteq Datagram(e),
           WireFits(p, e, w), NEW next, next = (p + 1) % EffectWrap,
           NEW more \in Nat, e < more, NEW s, s = [seq |-> next, report |-> more],
           NEW left, left = {d \in w \cup {s} : Behind(next, d.seq) < EffectWrap \div 2}
    PROVE  WireFits(next, more, left)
<1>0. next \in Effect!Sequence
  BY BehindTheNext
<1>1. Behind(next, s.seq) = 0 /\ s.report = more
  BY <1>0, BehindIs DEF Effect!Sequence
<1>2. ASSUME NEW d \in left
      PROVE  /\ Behind(next, d.seq) < EffectWrap \div 2
             /\ \/ d = s
                \/ /\ d \in w /\ Behind(next, d.seq) = Behind(p, d.seq) + 1
                   /\ Behind(p, d.seq) \in Nat /\ Behind(p, d.seq) <= e
                   /\ d.report \in Nat /\ d.report < more
  <2>1. CASE d \in w
    <3>1. Fits(p, e, d)
      BY <2>1 DEF WireFits
    <3> QED BY <1>2, <2>1, <3>1, AllOlder DEF Fits
  <2> QED BY <1>2, <2>1
<1>3. ASSUME NEW d \in left PROVE Fits(next, more, d)
  BY <1>1, <1>2 DEF Fits
<1>4. ASSUME NEW d \in left, NEW f \in left
      PROVE  Behind(next, d.seq) < Behind(next, f.seq) <=> d.report > f.report
  <2>1. CASE d \in w /\ f \in w /\ d # s /\ f # s
    <3>1. Behind(p, d.seq) < Behind(p, f.seq) <=> d.report > f.report
      BY <2>1 DEF WireFits
    <3> QED BY <1>2, <2>1, <3>1
  <2>2. CASE d = s \/ f = s
    BY <1>1, <1>2, <2>2
  <2> QED BY <1>2, <2>1, <2>2
<1> QED BY <1>3, <1>4 DEF WireFits

LEMMA NewStampFitsRouter ==
    ASSUME NEW p \in Effect!Sequence, NEW e \in Nat, NEW w, w \subseteq Datagram(e),
           WireFits(p, e, w), NEW next, next = (p + 1) % EffectWrap,
           NEW more \in Nat, e < more, NEW s, s = [seq |-> next, report |-> more],
           NEW left, left \subseteq w \cup {s},
           NEW r, r.seq \in Effect!Sequence, r.report \in 0 .. e, RouterFits(p, e, w, r)
    PROVE  RouterFits(next, more, left, r)
<1>0. next \in Effect!Sequence
  BY BehindTheNext
<1>1. PICK n \in 0 .. e : RouterFitsAt(n, p, e, w, r)
  BY DEF RouterFits
<1>2. PICK later : later = n + 1
  OBVIOUS
<1>3. later \in 0 .. more /\ later # 0
  BY <1>2
<1>4. Behind(next, r.seq) = later % EffectWrap
  <2>1. Behind(p, r.seq) = n % EffectWrap
    BY <1>1 DEF RouterFitsAt
  <2>2. Behind(next, r.seq) = IF n % EffectWrap = EffectWrap - 1 THEN 0 ELSE (n % EffectWrap) + 1
    BY <2>1, BehindTheNext
  <2>3. n \in Nat /\ EffectWrap \in Nat \ {0}
    BY EffectNumbers
  <2>4. (n + 1) % EffectWrap = IF n % EffectWrap = EffectWrap - 1 THEN 0 ELSE (n % EffectWrap) + 1
    BY <2>3, NextRound, Zenon
  <2> QED BY <1>2, <2>2, <2>4
<1>5. Behind(next, s.seq) = 0 /\ s.report = more
  BY <1>0, BehindIs DEF Effect!Sequence
<1>6. ASSUME NEW d \in left
      PROVE  /\ Behind(next, d.seq) < later <=> d.report > r.report
             /\ Behind(next, d.seq) > later <=> d.report < r.report
  <2>1. CASE d = s
    BY <1>3, <1>5, <2>1
  <2>2. CASE d \in w
    <3>1. /\ Behind(p, d.seq) < n <=> d.report > r.report
          /\ Behind(p, d.seq) > n <=> d.report < r.report
      BY <1>1, <2>2 DEF RouterFitsAt
    <3>2. Behind(next, d.seq) = Behind(p, d.seq) + 1 /\ Behind(p, d.seq) \in Nat
      BY <2>2, AllOlder
    <3> QED BY <1>2, <3>1, <3>2
  <2> QED BY <1>6, <2>1, <2>2
<1>7. RouterFitsAt(later, next, more, left, r)
  BY <1>3, <1>4, <1>6 DEF RouterFitsAt
<1> QED BY <1>3, <1>7 DEF RouterFits

\* The router follows a datagram.
LEMMA AppliedFits ==
    ASSUME NEW p \in Effect!Sequence, NEW e \in Nat, NEW w, w \subseteq Datagram(e),
           WireFits(p, e, w), NEW d \in w,
           NEW r, r.seq = d.seq, r.report = d.report
    PROVE  RouterFits(p, e, w, r)
<1>1. PICK n : n = Behind(p, d.seq)
  OBVIOUS
<1>2. Fits(p, e, d) /\ d.seq \in Effect!Sequence
  BY DEF WireFits, Datagram
<1>3. n \in Nat /\ n < EffectWrap \div 2 /\ n <= e
  BY <1>1, <1>2, BehindIs DEF Fits, Effect!Sequence
<1>4. n % EffectWrap = n
  <2>1. n < EffectWrap /\ n < EffectWrap + EffectWrap /\ EffectWrap \in Nat \ {0}
    BY <1>3, EffectNumbers
  <2> QED BY <1>3, <2>1, OnceRound
<1>5. n = 0 <=> r.report = e
  BY <1>1, <1>2 DEF Fits
<1>6. ASSUME NEW f \in w
      PROVE  /\ Behind(p, f.seq) < n <=> f.report > r.report
             /\ Behind(p, f.seq) > n <=> f.report < r.report
  <2>1. /\ Behind(p, f.seq) < n <=> f.report > r.report
        /\ n < Behind(p, f.seq) <=> d.report > f.report
    BY <1>1 DEF WireFits
  <2>2. f.seq \in Effect!Sequence /\ f.report \in Nat /\ d.report \in Nat
    BY DEF Datagram
  <2>3. Behind(p, f.seq) \in Effect!Sequence
    BY <2>2, BehindIs
  <2> QED BY <1>3, <2>1, <2>2, <2>3 DEF Effect!Sequence
<1>7. RouterFitsAt(n, p, e, w, r)
  BY <1>1, <1>4, <1>5, <1>6 DEF RouterFitsAt
<1> QED BY <1>3, <1>7 DEF RouterFits

LEMMA EffectStart == Effect!Init => Effect!EffectInv
<1> SUFFICES ASSUME Effect!Init PROVE Effect!EffectInv
  OBVIOUS
<1>1. 0 \in Effect!Sequence
  BY EffectNumbers DEF Effect!Sequence
<1> QED BY <1>1 DEF Effect!Init, Effect!EffectInv, Effect!WireAgesWithReports

\* The report drained last is a new one, and the highest drained is no less.
LEMMA DrainedIsNew ==
    ASSUME Effect!EffectInv, Effect!New # {}, NEW top,
           top = Effect!Max({v3[p] : p \in Effect!New})
    PROVE  /\ top \in Nat /\ v4 < top
           /\ Effect!LastDrained \in Nat /\ v4 < Effect!LastDrained /\ Effect!LastDrained <= top
<1> DEFINE Drained == {v3[p] : p \in Effect!New}
           last == Effect!Max(Effect!New)
<1>1. /\ v1 \in Nat /\ v3 \in [Effect!Position -> 0 .. v1] /\ v4 \in Nat
  BY DEF Effect!EffectInv
<1>2. OutRing - 1 \in Nat /\ Effect!New \subseteq 0 .. OutRing - 1
  BY EffectNumbers DEF Effect!New, Effect!Position
<1>3. last \in Effect!New
  BY <1>2, LargestOf, Zenon
<1>4. Drained \subseteq 0 .. v1 /\ Drained # {}
  BY <1>1 DEF Effect!New
<1>5. top \in Drained /\ \A y \in Drained : top >= y
  BY <1>1, <1>4, LargestOf, Zenon
<1>6. Effect!LastDrained = v3[last] /\ v3[last] \in Drained
  BY <1>3 DEF Effect!LastDrained
<1> QED BY <1>1, <1>4, <1>5, <1>6, <1>3 DEF Effect!New

LEMMA EffectKept ==
    ASSUME Effect!EffectInv, Effect!Next
    PROVE  Effect!EffectInv' /\ Effect!GoesForward
<1> DEFINE p == v5.seq
<1>0. /\ v1 \in Nat /\ v3 \in [Effect!Position -> 0 .. v1] /\ v4 \in Nat /\ v6 \in 0 .. v4
      /\ v5 \in [seq : Effect!Sequence, active : BOOLEAN] /\ v7 \subseteq Datagram(v6)
      /\ v8 \in [heard : BOOLEAN, seq : Effect!Sequence, report : 0 .. v6]
      /\ ~v8.heard => v8.report = 0
      /\ p \in Effect!Sequence /\ v6 \in Nat
      /\ WireFits(p, v6, v7)
      /\ v8.heard => RouterFits(p, v6, v7, v8)
  BY InvariantAsFits DEF Effect!EffectInv, Datagram
<1>1. CASE Effect!Write
  <2>1. /\ v1' = v1 + 1 /\ v3' = [v3 EXCEPT ![v1 % OutRing] = v1']
        /\ UNCHANGED <<v4, v5, v6, v7, v8>>
    BY <1>1 DEF Effect!Write
  <2>2. v1' \in Nat /\ v3' \in [Effect!Position -> 0 .. v1']
    <3>1. PICK more, at : more = v1' /\ at = v1 % OutRing
      OBVIOUS
    <3>2. more \in Nat /\ v1 <= more /\ v3' = [v3 EXCEPT ![at] = more]
      BY <1>0, <2>1, <3>1
    <3>3. v3 \in [Effect!Position -> 0 .. more]
      <4>1. 0 .. v1 \subseteq 0 .. more
        BY <1>0, <3>2
      <4> QED BY <1>0, <4>1
    <3>4. v3' \in [Effect!Position -> 0 .. more]
      <4>1. PICK reports : reports = 0 .. more
        OBVIOUS
      <4>2. more \in reports /\ v3 \in [Effect!Position -> reports]
        BY <3>2, <3>3, <4>1
      <4>3. v3' \in [Effect!Position -> reports]
        BY <3>2, <4>2, Zenon
      <4> QED BY <4>1, <4>3
    <3> QED BY <3>1, <3>2, <3>4
  <2>3. Effect!EffectInv'
    BY <1>0, <2>1, <2>2, FitsAsInvariant
  <2> QED BY <1>0, <2>1, <2>3 DEF Effect!GoesForward
<1>2. CASE Effect!DrainNew
  <2> DEFINE last == Effect!LastDrained
             next == (p + 1) % EffectWrap
             s == [seq |-> next, report |-> last]
             left == {d \in v7 \cup {s} : Behind(next, d.seq) < EffectWrap \div 2}
  <2>1. /\ v4' \in Nat /\ v4 < v4' /\ last \in Nat /\ v4 < last /\ last <= v4'
        /\ UNCHANGED <<v1, v3, v8>>
    BY <1>2, DrainedIsNew DEF Effect!DrainNew
  <2>2. Effect!GoesForward
    BY <1>0, <2>1 DEF Effect!GoesForward
  <2>3. CASE UNCHANGED <<v5, v6, v7>>
    <3>1. v6' \in 0 .. v4'
      BY <1>0, <2>1, <2>3
    <3>2. Effect!EffectInv'
      BY <1>0, <2>1, <2>3, <3>1, FitsAsInvariant
    <3> QED BY <2>2, <3>2
  <2>4. CASE ~UNCHANGED <<v5, v6, v7>>
    <3>1. /\ v5' = [seq |-> next, active |-> v2[last] = "on"] /\ v6' = last
          /\ v7' = left
      BY <1>2, <2>4 DEF Effect!DrainNew, Effect!NotTooOld, Effect!Stamp, Behind
    <3>2. next \in Effect!Sequence /\ v6 < last /\ v6' \in 0 .. v4'
      BY <1>0, <2>1, <3>1, BehindTheNext
    <3> HIDE DEF last, next
    <3>3. v5' \in [seq : Effect!Sequence, active : BOOLEAN] /\ v5'.seq = next
      BY <3>1, <3>2
    <3>4. v7' \subseteq Datagram(v6')
      BY <1>0, <2>1, <3>1, <3>2 DEF Datagram
    <3>5. v8' \in [heard : BOOLEAN, seq : Effect!Sequence, report : 0 .. v6']
      BY <1>0, <2>1, <3>1, <3>2
    <3>6. WireFits(next, last, left)
      BY <1>0, <2>1, <3>2, NewStampFits, Zenon DEF next
    <3>7. ASSUME v8.heard PROVE RouterFits(next, last, left, v8)
      <4>1. v8.seq \in Effect!Sequence /\ v8.report \in 0 .. v6 /\ left \subseteq v7 \cup {s}
        BY <1>0
      <4>2. next = (p + 1) % EffectWrap /\ RouterFits(p, v6, v7, v8)
        BY <1>0, <3>7 DEF next
      <4> HIDE DEF left, s
      <4>3. s = [seq |-> next, report |-> last]
        BY DEF s
      <4>4. /\ p \in Effect!Sequence /\ v6 \in Nat /\ v7 \subseteq Datagram(v6)
            /\ WireFits(p, v6, v7) /\ last \in Nat /\ v6 < last
        BY <1>0, <2>1, <3>2
      <4> HIDE DEF p
      <4> QED BY <4>1, <4>2, <4>3, <4>4, NewStampFitsRouter
    <3> HIDE DEF left, s
    <3>8. Effect!EffectInv'
      BY <1>0, <2>1, <3>1, <3>2, <3>3, <3>4, <3>5, <3>6, <3>7, FitsAsInvariant
    <3> QED BY <2>2, <3>8
  <2> QED BY <2>3, <2>4
<1>3. CASE Effect!RepeatEffect
  <2> DEFINE s == [seq |-> p, report |-> v6]
  <2>1. v7' = v7 \cup {s} /\ UNCHANGED <<v1, v3, v4, v5, v6, v8>>
    BY <1>3 DEF Effect!RepeatEffect, Effect!Stamp
  <2>2. v7' \subseteq Datagram(v6)
    BY <1>0, <2>1 DEF Datagram
  <2>3. v8.report \in 0 .. v6
    BY <1>0
  <2>4. /\ WireFits(p, v6, v7')
        /\ v8.heard => RouterFits(p, v6, v7', v8)
    BY <1>0, <2>1, <2>3, RepeatFits, Zenon
  <2>5. Effect!EffectInv'
    BY <1>0, <2>1, <2>2, <2>4, FitsAsInvariant
  <2> QED BY <1>0, <2>1, <2>5 DEF Effect!GoesForward
<1>4. CASE Effect!Lose
  <2>1. v7' \subseteq v7 /\ UNCHANGED <<v1, v3, v4, v5, v6, v8>>
    BY <1>4 DEF Effect!Lose
  <2>2. /\ WireFits(p, v6, v7')
        /\ v8.heard => RouterFits(p, v6, v7', v8)
    BY <1>0, <2>1, FewerFit
  <2>3. Effect!EffectInv'
    BY <1>0, <2>1, <2>2, FitsAsInvariant
  <2> QED BY <1>0, <2>1, <2>3 DEF Effect!GoesForward
<1>5. CASE Effect!Receive
  <2>1. PICK d \in v7 : /\ v7' = v7 \ {d} /\ UNCHANGED <<v1, v3, v4, v5, v6>>
                        /\ IF Effect!Forward(d.seq)
                           THEN v8' = [heard |-> TRUE, seq |-> d.seq, report |-> d.report]
                           ELSE v8' = v8
    BY <1>5 DEF Effect!Receive
  <2>2. v7' \subseteq v7 /\ d.seq \in Effect!Sequence /\ d.report \in 0 .. v6
    BY <1>0, <2>1 DEF Datagram
  <2>3. WireFits(p, v6, v7')
    BY <1>0, <2>2, FewerFit
  <2>4. CASE Effect!Forward(d.seq)
    <3>1. v8' = [heard |-> TRUE, seq |-> d.seq, report |-> d.report]
      BY <2>1, <2>4
    <3>2. RouterFits(p, v6, v7, v8')
      BY <1>0, <3>1, AppliedFits
    <3>3. RouterFits(p, v6, v7', v8')
      BY <2>2, <3>2, FewerFit
    <3>4. Effect!EffectInv'
      BY <1>0, <2>1, <2>2, <2>3, <3>1, <3>3, FitsAsInvariant
    <3>5. ASSUME v8.heard PROVE v8.report <= d.report
      <4>1. PICK n \in 0 .. v6 : RouterFitsAt(n, p, v6, v7, v8)
        BY <1>0, <3>5 DEF RouterFits
      <4>2. Behind(d.seq, v8.seq) \in 1 .. (EffectWrap \div 2) - 1
        BY <2>4, <3>5 DEF Effect!Forward, Behind
      <4>3. Behind(p, d.seq) < EffectWrap \div 2 /\ v8.seq \in Effect!Sequence
        BY <1>0 DEF WireFits, Fits
      <4>4. Behind(p, d.seq) <= n
        BY <1>0, <2>2, <4>1, <4>2, <4>3, ForwardIsNewer DEF RouterFitsAt
      <4>5. Behind(p, d.seq) \in Nat
        <5>1. Behind(p, d.seq) \in Effect!Sequence
          BY <1>0, <2>2, BehindIs
        <5> QED BY <5>1 DEF Effect!Sequence
      <4>6. Behind(p, d.seq) > n <=> d.report < v8.report
        BY <4>1 DEF RouterFitsAt
      <4> QED BY <1>0, <2>2, <4>4, <4>5, <4>6
    <3> QED BY <1>0, <2>2, <3>1, <3>4, <3>5 DEF Effect!GoesForward
  <2>5. CASE ~Effect!Forward(d.seq)
    <3>1. v8' = v8
      BY <2>1, <2>5
    <3>2. v8.heard => RouterFits(p, v6, v7', v8)
      BY <1>0, <2>2, FewerFit
    <3>3. Effect!EffectInv'
      BY <1>0, <2>1, <2>2, <2>3, <3>1, <3>2, FitsAsInvariant
    <3> QED BY <1>0, <3>1, <3>3 DEF Effect!GoesForward
  <2> QED BY <2>4, <2>5
<1> QED BY <1>1, <1>2, <1>3, <1>4, <1>5 DEF Effect!Next

LEMMA EffectStays == ASSUME Effect!EffectInv, UNCHANGED vars PROVE Effect!EffectInv'
<1>1. UNCHANGED <<v1, v3, v4, v5, v6, v7, v8>>
  BY DEF vars
<1> QED BY <1>1, InvariantAsFits, FitsAsInvariant DEF Effect!EffectInv, Datagram

-----------------------------------------------------------------------------
(* PadBridge.  v1 bridge, v2 attached, v3 held, v4 headset, v5 on,         *)
(* v6 queue, v7 told, v8 latest, v9 gate, v10 active, v11 framers,         *)
(* v12 opened, v13 call, v14 streams, v15 changes.                         *)

LEMMA SameCountOfPads ==
    /\ \A S : Bridge!Cardinality(S) = Cardinality(S)
    /\ \A S : Bridge!IsFiniteSet(S) = IsFiniteSet(S)
BY Zenon DEF Bridge!Cardinality, Cardinality, Bridge!IsFiniteSet, IsFiniteSet

LEMMA BridgeNumbers ==
    /\ IsFiniteSet(Pads) /\ Pads \subseteq Nat /\ Pads # {} /\ 0 \in Pads
    /\ MaxHeadsets \in Nat /\ 0 < MaxHeadsets /\ MaxQueued \in Nat \ {0}
<1>1. /\ IsFiniteSet(Pads) /\ Pads # {} /\ Pads = 0..(Cardinality(Pads) - 1)
      /\ MaxHeadsets \in 1..Cardinality(Pads) /\ MaxQueued \in Nat \ {0}
  BY BridgeAssumption, SameCountOfPads DEF Bridge!BridgeBounds
<1>2. PICK n : n = Cardinality(Pads)
  OBVIOUS
<1>3. n \in Nat
  BY <1>1, <1>2, FS_CardinalityType
<1> QED BY <1>1, <1>2, <1>3

LEMMA LowestFree ==
    ASSUME Bridge!Free # {}
    PROVE  (CHOOSE q \in Bridge!Free : \A r \in Bridge!Free : q <= r) \in Bridge!Free
<1>1. Bridge!Free \subseteq Nat
  BY BridgeNumbers, Zenon DEF Bridge!Free
<1>2. \E q \in Bridge!Free : \A r \in Bridge!Free : q <= r
  BY <1>1, LeastNumber, Zenon
<1> QED BY <1>2, Zenon

\* The newest event is never the one a full queue drops.
LEMMA NewestStays ==
    ASSUME NEW q \in Seq(Bridge!Event), NEW e \in Bridge!Event,
           NEW all, all = Bridge!Pushed(q, e)
    PROVE  all \in Seq(Bridge!Event) /\ all # <<>> /\ all[Len(all)] = e
<1> DEFINE long == Append(q, e)
<1>1. long \in Seq(Bridge!Event) /\ Len(long) = Len(q) + 1 /\ long[Len(q) + 1] = e
  OBVIOUS
<1>2. CASE ~(Len(long) > MaxQueued)
  BY <1>1, <1>2 DEF Bridge!Pushed
<1>3. CASE Len(long) > MaxQueued
  <2>1. all = Tail(long) /\ Len(q) \in Nat /\ 1 <= Len(q)
    BY <1>1, <1>3, BridgeNumbers DEF Bridge!Pushed
  <2>2. /\ all \in Seq(Bridge!Event) /\ Len(all) = Len(q)
        /\ \A i \in 1 .. Len(q) : all[i] = long[i + 1]
    BY <1>1, <2>1
  <2> QED BY <1>1, <2>1, <2>2
<1> QED BY <1>2, <1>3

LEMMA BridgeStart == Bridge!Init => Bridge!BridgeInv
<1> SUFFICES ASSUME Bridge!Init PROVE Bridge!BridgeInv
  OBVIOUS
<1>1. Bridge!GateCountsTheOpen
  BY BridgeNumbers, SameCountOfPads, FS_EmptySet DEF Bridge!Init, Bridge!GateCountsTheOpen, Bridge!NoCall
<1>2. Bridge!NewestIsQueued /\ Bridge!LastWordIsTold
  BY DEF Bridge!Init, Bridge!NewestIsQueued, Bridge!LastWordIsTold, Bridge!None
<1>3. Bridge!FirstEnabledAll
  BY DEF Bridge!Init, Bridge!FirstEnabledAll
<1> QED BY <1>1, <1>2, <1>3 DEF Bridge!Init, Bridge!BridgeInv, Bridge!None, Bridge!NoPad, Bridge!Absent

\* What a step of the pads leaves alone.
LEMMA PadsAlone ==
    ASSUME Bridge!Changing PROVE UNCHANGED <<v1, v2, v7, v9, v10, v11, v13, v14>> /\ v1 # 0
BY DEF Bridge!Changing, Bridge!None

LEMMA BridgeTypesKept ==
    ASSUME Bridge!BridgeInv, Bridge!Next
    PROVE  /\ v2' \in Nat /\ v1' \in 0..v2'
           /\ v13' = Bridge!NoCall \/
              v13' \in [what : {Bridge!Plays, Bridge!Captures}, of : 1..v2', pad : Pads]
           /\ v3' \in [Pads -> {Bridge!Absent, Bridge!Idle, Bridge!Down}]
           /\ v4' \in [Pads -> SUBSET Bridge!Sides]
           /\ v7' \in [Pads -> BOOLEAN] /\ v8' \in Pads \cup {Bridge!NoPad}
           /\ v6' \in Seq(Bridge!Event)
<1> DEFINE Types == /\ v2' \in Nat /\ v1' \in 0..v2'
                    /\ v13' = Bridge!NoCall \/
                       v13' \in [what : {Bridge!Plays, Bridge!Captures}, of : 1..v2', pad : Pads]
                    /\ v3' \in [Pads -> {Bridge!Absent, Bridge!Idle, Bridge!Down}]
                    /\ v4' \in [Pads -> SUBSET Bridge!Sides]
                    /\ v7' \in [Pads -> BOOLEAN] /\ v8' \in Pads \cup {Bridge!NoPad}
                    /\ v6' \in Seq(Bridge!Event)
<1>0. /\ v2 \in Nat /\ v1 \in 0..v2
      /\ v13 = Bridge!NoCall \/
         v13 \in [what : {Bridge!Plays, Bridge!Captures}, of : 1..v2, pad : Pads]
      /\ v3 \in [Pads -> {Bridge!Absent, Bridge!Idle, Bridge!Down}]
      /\ v4 \in [Pads -> SUBSET Bridge!Sides]
      /\ v7 \in [Pads -> BOOLEAN] /\ v8 \in Pads \cup {Bridge!NoPad}
      /\ v6 \in Seq(Bridge!Event)
  BY DEF Bridge!BridgeInv
<1>1. CASE Bridge!Attach
  BY <1>0, <1>1 DEF Bridge!Attach, Bridge!hardware, Bridge!client
<1>2. CASE Bridge!Detach
  BY <1>0, <1>2 DEF Bridge!Detach, Bridge!None
<1>3. CASE Bridge!PadComes
  <2>1. PICK p \in Bridge!Free : /\ v3' = [v3 EXCEPT ![p] = Bridge!Idle]
                                 /\ v6' = Bridge!Pushed(v6, [pad |-> p, held |-> Bridge!Absent])
    BY <1>3, BridgeNumbers, LowestFree, Zenon DEF Bridge!PadComes
  <2>2. [pad |-> p, held |-> Bridge!Absent] \in Bridge!Event
    BY <2>1 DEF Bridge!Event, Bridge!Free
  <2>3. v6' \in Seq(Bridge!Event)
    BY <1>0, <2>1, <2>2, NewestStays
  <2> QED BY <1>0, <1>3, <2>1, <2>3, PadsAlone, Zenon DEF Bridge!PadComes, Bridge!Free
<1>4. ASSUME NEW p \in Pads, Bridge!PadGoes(p) PROVE Types
  <2>1. [pad |-> p, held |-> Bridge!Idle] \in Bridge!Event
    BY DEF Bridge!Event
  <2>2. v6' \in Seq(Bridge!Event)
    BY <1>0, <1>4, <2>1, NewestStays DEF Bridge!PadGoes
  <2> QED BY <1>0, <1>4, <2>2, PadsAlone DEF Bridge!PadGoes
<1>5. ASSUME NEW p \in Pads, NEW h \in {Bridge!Idle, Bridge!Down}, Bridge!PadReports(p, h)
      PROVE  Types
  <2>1. [pad |-> p, held |-> h] \in Bridge!Event
    BY DEF Bridge!Event
  <2>2. v6' \in Seq(Bridge!Event)
    BY <1>0, <1>5, <2>1, NewestStays DEF Bridge!PadReports
  <2> QED BY <1>0, <1>5, <2>2, PadsAlone DEF Bridge!PadReports
<1>6. ASSUME NEW p \in Pads, NEW sides \in (SUBSET Bridge!Sides) \ {{}}, Bridge!HeadsetComes(p, sides)
      PROVE  Types
  BY <1>0, <1>6, PadsAlone DEF Bridge!HeadsetComes
<1>7. CASE Bridge!Poll
  <2>1. /\ v6 # <<>> /\ v6' = Tail(v6) /\ v7' \in {v7, [v7 EXCEPT ![Head(v6).pad] = (Head(v6).held = Bridge!Down)]}
        /\ UNCHANGED <<v1, v2, v3, v4, v8, v13>>
    BY <1>7 DEF Bridge!Poll, Bridge!hardware, Bridge!client
  <2>2. Tail(v6) \in Seq(Bridge!Event)
    BY <1>0, <2>1
  <2>3. PICK b \in BOOLEAN : b = (Head(v6).held = Bridge!Down)
    BY Zenon
  <2>4. v7' \in [Pads -> BOOLEAN]
    BY <1>0, <2>1, <2>3, Zenon
  <2> QED BY <1>0, <2>1, <2>2, <2>4
<1>8. ASSUME NEW what \in {Bridge!Plays, Bridge!Captures}, Bridge!Begin(what) PROVE Types
  <2>1. /\ v13' = [what |-> what, of |-> v1, pad |-> 0] /\ v1 # 0
        /\ UNCHANGED <<v1, v2, v3, v4, v6, v7, v8>>
    BY <1>8 DEF Bridge!Begin, Bridge!hardware, Bridge!None
  <2> QED BY <1>0, <2>1, BridgeNumbers
<1>9. ASSUME NEW what, NEW takes, Bridge!Step(what, takes) PROVE Types
  <2>1. /\ v13 # Bridge!NoCall /\ UNCHANGED <<v1, v2, v3, v4, v6, v7, v8>>
        /\ v13' = IF v13.pad + 1 \in Pads THEN [v13 EXCEPT !.pad = @ + 1] ELSE Bridge!NoCall
    BY <1>9 DEF Bridge!Step, Bridge!Advance
  <2> QED BY <1>0, <2>1
<1>10. CASE Bridge!NewStream
  BY <1>0, <1>10 DEF Bridge!NewStream, Bridge!hardware
<1> QED BY <1>1, <1>2, <1>3, <1>4, <1>5, <1>6, <1>7, <1>8, <1>9, <1>10 DEF Bridge!Next

\* A pad given back or reserved: the count follows the set.
LEMMA GateCounts ==
    ASSUME Bridge!GateCountsTheOpen, NEW p
    PROVE  /\ Bridge!GivenBack(p) = Cardinality(v9 \ {p}) /\ Bridge!GivenBack(p) <= MaxHeadsets
           /\ p \notin v9 /\ Bridge!HasRoom =>
                v10 + 1 = Cardinality(v9 \cup {p}) /\ v10 + 1 <= MaxHeadsets
<1>1. IsFiniteSet(v9) /\ v10 = Cardinality(v9) /\ v10 <= MaxHeadsets
  BY FS_Subset, BridgeNumbers, SameCountOfPads, Zenon DEF Bridge!GateCountsTheOpen
<1>2. v10 \in Nat
  BY <1>1, FS_CardinalityType
<1>3. Cardinality(v9 \ {p}) = IF p \in v9 THEN v10 - 1 ELSE v10
  BY <1>1, FS_RemoveElement
<1>4. Cardinality(v9 \cup {p}) = IF p \in v9 THEN v10 ELSE v10 + 1
  BY <1>1, FS_AddElement
<1> QED BY <1>1, <1>2, <1>3, <1>4, BridgeNumbers DEF Bridge!GivenBack, Bridge!HasRoom

LEMMA GateKeptByStep ==
    ASSUME Bridge!BridgeInv, NEW what, NEW takes, Bridge!Step(what, takes)
    PROVE  Bridge!GateCountsTheOpen'
<1> DEFINE p == v13.pad
           enabled == what = "with" /\ p \notin v9 /\ Bridge!HasRoom /\ takes
<1>1. /\ v13 # Bridge!NoCall /\ Bridge!Advance /\ Bridge!Shows(p, what)
      /\ IF what = "gone" THEN Bridge!Forget(p)
         ELSE IF enabled THEN Bridge!Reserve(p) ELSE UNCHANGED <<v9, v10>>
      /\ IF enabled /\ v13.of = v1 THEN v12' = v12 \cup {p} ELSE v12' = v12
      /\ UNCHANGED <<v1, v4>>
  BY DEF Bridge!Step
<1>2. /\ v13 \in [what : {Bridge!Plays, Bridge!Captures}, of : 1..v2, pad : Pads]
      /\ Bridge!GateCountsTheOpen
  BY <1>1 DEF Bridge!BridgeInv
<1>3. /\ p \in Pads
      /\ v13' # Bridge!NoCall => v13'.of = v13.of
  BY <1>1, <1>2 DEF Bridge!Advance
<1>4. v13.of # v1 => v12 = {}
  BY <1>1, <1>2 DEF Bridge!GateCountsTheOpen
<1> HIDE DEF p
<1>5. CASE what = "gone"
  <2>1. v9' = v9 \ {p} /\ v10' = Bridge!GivenBack(p) /\ v12' = v12
    BY <1>1, <1>5 DEF Bridge!Forget
  <2>2. p \notin v12
    BY <1>1, <1>2, <1>4, <1>5 DEF Bridge!Shows, Bridge!GateCountsTheOpen
  <2> QED BY <1>1, <1>2, <1>3, <1>4, <2>1, <2>2, GateCounts, SameCountOfPads, Zenon
     DEF Bridge!GateCountsTheOpen
<1>6. CASE enabled
  <2>1. v9' = v9 \cup {p} /\ v10' = v10 + 1 /\ what = "with"
    BY <1>1, <1>6 DEF Bridge!Reserve
  <2>2. v10' = Cardinality(v9') /\ v10' <= MaxHeadsets
    BY <1>2, <1>6, <2>1, GateCounts, Zenon
  <2>3. CASE v13.of = v1
    <3>1. v12' = v12 \cup {p} /\ v4[p] # {} /\ v1 # Bridge!None
      BY <1>1, <1>2, <1>6, <2>1, <2>3 DEF Bridge!Shows, Bridge!None
    <3> QED BY <1>1, <1>2, <1>3, <2>1, <2>2, <2>3, <3>1, SameCountOfPads
            DEF Bridge!GateCountsTheOpen
  <2>4. CASE v13.of # v1
    BY <1>1, <1>2, <1>3, <1>4, <2>1, <2>2, <2>4, SameCountOfPads DEF Bridge!GateCountsTheOpen
  <2> QED BY <2>3, <2>4
<1>7. CASE what # "gone" /\ ~enabled
  BY <1>1, <1>2, <1>3, <1>4, <1>7, SameCountOfPads DEF Bridge!GateCountsTheOpen
<1> QED BY <1>5, <1>6, <1>7

LEMMA GateKept ==
    ASSUME Bridge!BridgeInv, Bridge!Next
    PROVE  Bridge!GateCountsTheOpen'
<1>0. /\ Bridge!GateCountsTheOpen /\ v2 \in Nat /\ v1 \in 0..v2
      /\ v13 = Bridge!NoCall \/
         v13 \in [what : {Bridge!Plays, Bridge!Captures}, of : 1..v2, pad : Pads]
      /\ v4 \in [Pads -> SUBSET Bridge!Sides]
  BY DEF Bridge!BridgeInv
<1>1. CASE Bridge!Attach
  BY <1>0, <1>1, SameCountOfPads
  DEF Bridge!Attach, Bridge!hardware, Bridge!client, Bridge!GateCountsTheOpen, Bridge!None
<1>2. CASE Bridge!Detach
  BY <1>0, <1>2, SameCountOfPads DEF Bridge!Detach, Bridge!GateCountsTheOpen
<1>3. CASE Bridge!PadComes
  BY <1>0, <1>3, PadsAlone, SameCountOfPads DEF Bridge!PadComes, Bridge!GateCountsTheOpen
<1>4. ASSUME NEW p \in Pads, Bridge!PadGoes(p) PROVE Bridge!GateCountsTheOpen'
  BY <1>0, <1>4, PadsAlone, SameCountOfPads DEF Bridge!PadGoes, Bridge!GateCountsTheOpen
<1>5. ASSUME NEW p \in Pads, NEW h, Bridge!PadReports(p, h)
      PROVE  Bridge!GateCountsTheOpen'
  BY <1>0, <1>5, PadsAlone, SameCountOfPads DEF Bridge!PadReports, Bridge!GateCountsTheOpen
<1>6. ASSUME NEW p \in Pads, NEW sides \in (SUBSET Bridge!Sides) \ {{}}, Bridge!HeadsetComes(p, sides)
      PROVE  Bridge!GateCountsTheOpen'
  BY <1>0, <1>6, PadsAlone, SameCountOfPads DEF Bridge!HeadsetComes, Bridge!GateCountsTheOpen
<1>7. CASE Bridge!Poll
  BY <1>0, <1>7, SameCountOfPads
  DEF Bridge!Poll, Bridge!hardware, Bridge!client, Bridge!GateCountsTheOpen
<1>8. ASSUME NEW what, Bridge!Begin(what) PROVE Bridge!GateCountsTheOpen'
  BY <1>0, <1>8, SameCountOfPads DEF Bridge!Begin, Bridge!hardware, Bridge!GateCountsTheOpen
<1>9. ASSUME NEW what, NEW takes, Bridge!Step(what, takes) PROVE Bridge!GateCountsTheOpen'
  BY <1>9, GateKeptByStep
<1>10. CASE Bridge!NewStream
  BY <1>0, <1>10, SameCountOfPads, FS_EmptySet, BridgeNumbers
  DEF Bridge!NewStream, Bridge!hardware, Bridge!GateCountsTheOpen
<1> QED BY <1>1, <1>2, <1>3, <1>4, <1>5, <1>6, <1>7, <1>8, <1>9, <1>10 DEF Bridge!Next

LEMMA NewestKept ==
    ASSUME Bridge!BridgeInv, Bridge!Next
    PROVE  Bridge!NewestIsQueued' /\ Bridge!LastWordIsTold'
<1> DEFINE Kept == Bridge!NewestIsQueued' /\ Bridge!LastWordIsTold'
<1>0. /\ Bridge!NewestIsQueued /\ Bridge!LastWordIsTold
      /\ v1 # 0 \/ v8 = Bridge!NoPad
      /\ v3 \in [Pads -> {Bridge!Absent, Bridge!Idle, Bridge!Down}]
      /\ v7 \in [Pads -> BOOLEAN] /\ v8 \in Pads \cup {Bridge!NoPad}
      /\ v6 \in Seq(Bridge!Event)
  BY DEF Bridge!BridgeInv, Bridge!NewestIsQueued, Bridge!None
<1>1. CASE Bridge!Attach
  BY <1>0, <1>1 DEF Bridge!Attach, Bridge!hardware, Bridge!NewestIsQueued, Bridge!LastWordIsTold,
                    Bridge!None
<1>2. CASE Bridge!Detach
  BY <1>2 DEF Bridge!Detach, Bridge!NewestIsQueued, Bridge!LastWordIsTold
<1>3. CASE Bridge!PadComes
  BY <1>3, PadsAlone DEF Bridge!PadComes, Bridge!NewestIsQueued, Bridge!LastWordIsTold
<1>4. ASSUME NEW p \in Pads, Bridge!PadGoes(p) PROVE Kept
  <2>1. PICK e : e = [pad |-> p, held |-> Bridge!Idle]
    BY Zenon
  <2>2. e \in Bridge!Event /\ e.pad = p /\ e.held # Bridge!Absent /\ e.held # Bridge!Down
    BY <2>1 DEF Bridge!Event, Bridge!Idle, Bridge!Absent, Bridge!Down
  <2>3. /\ v6' = Bridge!Pushed(v6, e) /\ v8' = p /\ v3' = [v3 EXCEPT ![p] = Bridge!Absent]
        /\ v1' = v1 /\ v1 # 0
    BY <1>4, <2>1, PadsAlone DEF Bridge!PadGoes
  <2>4. v6' # <<>> /\ v6'[Len(v6')] = e
    BY <1>0, <2>2, <2>3, NewestStays, Zenon
  <2>5. v3'[p] # Bridge!Down
    BY <1>0, <2>3 DEF Bridge!Absent, Bridge!Down
  <2> QED BY <2>2, <2>3, <2>4, <2>5 DEF Bridge!NewestIsQueued, Bridge!LastWordIsTold, Bridge!None
<1>5. ASSUME NEW p \in Pads, NEW h \in {Bridge!Idle, Bridge!Down}, Bridge!PadReports(p, h)
      PROVE  Kept
  <2>1. PICK e : e = [pad |-> p, held |-> h]
    BY Zenon
  <2>2. e \in Bridge!Event /\ e.pad = p /\ e.held = h /\ h # Bridge!Absent
    BY <2>1 DEF Bridge!Event, Bridge!Idle, Bridge!Absent, Bridge!Down
  <2>3. /\ v6' = Bridge!Pushed(v6, e) /\ v8' = p /\ v3' = [v3 EXCEPT ![p] = h]
        /\ v1' = v1 /\ v1 # 0
    BY <1>5, <2>1, PadsAlone DEF Bridge!PadReports
  <2>4. v6' # <<>> /\ v6'[Len(v6')] = e
    BY <1>0, <2>2, <2>3, NewestStays, Zenon
  <2>5. v3'[p] = h
    BY <1>0, <2>3
  <2> QED BY <2>2, <2>3, <2>4, <2>5 DEF Bridge!NewestIsQueued, Bridge!LastWordIsTold, Bridge!None
<1>6. ASSUME NEW p \in Pads, NEW sides \in (SUBSET Bridge!Sides) \ {{}}, Bridge!HeadsetComes(p, sides)
      PROVE  Kept
  BY <1>0, <1>6, PadsAlone
  DEF Bridge!HeadsetComes, Bridge!NewestIsQueued, Bridge!LastWordIsTold
<1>7. CASE Bridge!Poll
  <2>1. /\ v1 # 0 /\ v6 # <<>> /\ v6' = Tail(v6)
        /\ v7' = IF Head(v6).held = Bridge!Absent THEN v7
                 ELSE [v7 EXCEPT ![Head(v6).pad] = (Head(v6).held = Bridge!Down)]
        /\ UNCHANGED <<v1, v3, v8>>
    BY <1>7 DEF Bridge!Poll, Bridge!hardware, Bridge!client, Bridge!None
  <2>2. CASE Len(v6) = 1
    <3>1. Tail(v6) = <<>> /\ Head(v6) = v6[Len(v6)]
      BY <1>0, <2>1, <2>2
    <3>2. ASSUME v8 # Bridge!NoPad PROVE v7'[v8] = (v3[v8] = Bridge!Down)
      <4>1. PICK e : e = v6[Len(v6)]
        OBVIOUS
      <4>2. /\ e.pad = v8 /\ e.held # Bridge!Absent
            /\ e.held = Bridge!Down <=> v3[v8] = Bridge!Down
        BY <1>0, <2>1, <3>2, <4>1 DEF Bridge!NewestIsQueued
      <4>3. v7' = [v7 EXCEPT ![v8] = (e.held = Bridge!Down)]
        BY <2>1, <3>1, <4>1, <4>2, Zenon
      <4>4. v7'[v8] = (e.held = Bridge!Down)
        BY <1>0, <3>2, <4>3
      <4> QED BY <4>2, <4>4
    <3> QED BY <1>0, <2>1, <3>1, <3>2 DEF Bridge!NewestIsQueued, Bridge!LastWordIsTold, Bridge!None
  <2>3. CASE Len(v6) # 1
    <3>1. PICK n : n = Len(v6)
      BY Zenon
    <3>2. n \in Nat /\ n # 0
      BY <1>0, <2>1, <3>1
    <3>3. n >= 2
      BY <2>3, <3>1, <3>2
    <3>4. Len(Tail(v6)) = n - 1 /\ Tail(v6)[n - 1] = v6[n]
      BY <1>0, <3>1, <3>3
    <3>5. Tail(v6) # <<>>
      BY <3>2, <3>3, <3>4
    <3> QED BY <1>0, <2>1, <3>1, <3>4, <3>5 DEF Bridge!NewestIsQueued, Bridge!LastWordIsTold, Bridge!None
  <2> QED BY <2>2, <2>3
<1>8. ASSUME NEW what, Bridge!Begin(what) PROVE Kept
  BY <1>0, <1>8 DEF Bridge!Begin, Bridge!hardware, Bridge!NewestIsQueued, Bridge!LastWordIsTold
<1>9. ASSUME NEW what, NEW takes, Bridge!Step(what, takes) PROVE Kept
  BY <1>0, <1>9 DEF Bridge!Step, Bridge!NewestIsQueued, Bridge!LastWordIsTold
<1>10. CASE Bridge!NewStream
  BY <1>0, <1>10 DEF Bridge!NewStream, Bridge!hardware, Bridge!NewestIsQueued, Bridge!LastWordIsTold
<1> QED BY <1>1, <1>2, <1>3, <1>4, <1>5, <1>6, <1>7, <1>8, <1>9, <1>10 DEF Bridge!Next

\* The stream's own and what is on change together, but for a new stream.
LEMMA FirstKept ==
    ASSUME Bridge!BridgeInv, Bridge!Next
    PROVE  Bridge!FirstEnabledAll'
<1>0. v14 \in Nat \ {0} /\ (v14 = 1 => v5 = v12)
  BY DEF Bridge!BridgeInv, Bridge!FirstEnabledAll
<1>1. CASE Bridge!Attach \/ Bridge!Poll \/ \E what \in {Bridge!Plays, Bridge!Captures} : Bridge!Begin(what)
  BY <1>0, <1>1
  DEF Bridge!Attach, Bridge!Poll, Bridge!Begin, Bridge!hardware, Bridge!client, Bridge!FirstEnabledAll
<1>2. CASE Bridge!Detach
  BY <1>0, <1>2 DEF Bridge!Detach, Bridge!FirstEnabledAll
<1>3. ASSUME NEW p \in Pads, Bridge!PadGoes(p) PROVE Bridge!FirstEnabledAll'
  BY <1>0, <1>3, PadsAlone DEF Bridge!PadGoes, Bridge!FirstEnabledAll
<1>4. CASE \/ Bridge!PadComes
           \/ \E p \in Pads, h \in {Bridge!Idle, Bridge!Down} : Bridge!PadReports(p, h)
           \/ \E p \in Pads, sides \in (SUBSET Bridge!Sides) \ {{}} : Bridge!HeadsetComes(p, sides)
  <2>1. UNCHANGED <<v5, v12>> /\ Bridge!Changing
    BY <1>4 DEF Bridge!PadComes, Bridge!PadReports, Bridge!HeadsetComes
  <2> QED BY <1>0, <2>1, PadsAlone DEF Bridge!FirstEnabledAll
<1>5. ASSUME NEW what, NEW takes, Bridge!Step(what, takes) PROVE Bridge!FirstEnabledAll'
  <2>1. /\ v14' = v14
        /\ \/ v5' = v5 \cup {v13.pad} /\ v12' = v12 \cup {v13.pad}
           \/ v5' = v5 /\ v12' = v12
    BY <1>5 DEF Bridge!Step
  <2> QED BY <1>0, <2>1 DEF Bridge!FirstEnabledAll
<1>6. CASE Bridge!NewStream
  BY <1>0, <1>6 DEF Bridge!NewStream, Bridge!FirstEnabledAll
<1> QED BY <1>1, <1>2, <1>3, <1>4, <1>5, <1>6 DEF Bridge!Next

LEMMA BridgeKept == ASSUME Bridge!BridgeInv, Bridge!Next PROVE Bridge!BridgeInv'
BY BridgeTypesKept, GateKept, FirstKept, NewestKept DEF Bridge!BridgeInv

LEMMA BridgeSafe == Bridge!BridgeInv => Bridge!HeadsetsAreCapped /\ Bridge!LastWordIsTold
<1> SUFFICES ASSUME Bridge!BridgeInv PROVE Bridge!HeadsetsAreCapped /\ Bridge!LastWordIsTold
  OBVIOUS
<1>1. v9 \subseteq Pads /\ v12 \subseteq v9 /\ Cardinality(v9) <= MaxHeadsets
  BY SameCountOfPads DEF Bridge!BridgeInv, Bridge!GateCountsTheOpen
<1>2. IsFiniteSet(v9)
  BY <1>1, BridgeNumbers, FS_Subset, Zenon
<1>3. IsFiniteSet(v12) /\ Cardinality(v12) <= Cardinality(v9)
  BY <1>1, <1>2, FS_Subset
<1>4. Cardinality(v12) \in Nat /\ Cardinality(v9) \in Nat
  BY <1>2, <1>3, FS_CardinalityType
<1>5. v14 = 1 => v5 = v12
  BY DEF Bridge!BridgeInv, Bridge!FirstEnabledAll
<1> QED BY <1>1, <1>3, <1>4, <1>5, BridgeNumbers, SameCountOfPads
        DEF Bridge!BridgeInv, Bridge!HeadsetsAreCapped

LEMMA BridgeStays == ASSUME Bridge!BridgeInv, UNCHANGED vars PROVE Bridge!BridgeInv'
BY SameCountOfPads DEF vars, Bridge!BridgeInv, Bridge!GateCountsTheOpen, Bridge!FirstEnabledAll,
   Bridge!NewestIsQueued, Bridge!LastWordIsTold

-----------------------------------------------------------------------------
(* All of them.                                                            *)

ServicesInv ==
    /\ part = "pairing" => Pair!PairingInv
    /\ part = "catalogue" => Cat!CatalogueInv
    /\ part = "web" => Api!WebInv
    /\ part = "host" => Host!HostInv
    /\ part = "sessions" => Stream!DesktopInv
    /\ part = "grid" => Grid!CacheIsTrue
    /\ part = "effects" => Effect!EffectInv
    /\ part = "section" => Section!SectionInv
    /\ part = "device" => Device!DeviceInv
    /\ part = "bridge" => Bridge!BridgeInv
    /\ part = "samples" => Instr!InstrInv

\* A step of none of them.
LEMMA PairingStays == ASSUME Pair!PairingInv, UNCHANGED vars PROVE Pair!PairingInv'
BY Zenon
   DEF vars, Pair!PairingInv, Pair!TypeOK, Pair!SpentOnce, Pair!FileIsWhole, Pair!PromisesAreKept,
   Pair!OneClientPerArming, Pair!AcceptedIsSaved, Pair!KnownIsSaved, Pair!RevokedStaysRevoked,
   Pair!IdsAreUnique, Pair!EndsAreTold, Pair!Waiting, Pair!RequestId, Pair!Outcome, Pair!Final,
   Pair!Client, Pair!Secret, Pair!Nonce, Pair!Unkeyed, Pair!Message, Pair!Television, Pair!NoId

LEMMA CatalogueStays == ASSUME Cat!CatalogueInv, UNCHANGED vars PROVE Cat!CatalogueInv'
<1>1. UNCHANGED <<v1, v2, v3, v4, v5, v6, v7, v8>>
  BY DEF vars
<1>2. Cat!TypeOK'
  BY <1>1, Zenon
     DEF Cat!CatalogueInv, Cat!TypeOK, Cat!Listing, Cat!Index, Cat!App, Cat!AppId, Cat!Request
<1>3. Cat!ConfigIsSaved' /\ Cat!ArtIsOfItsApp'
  BY <1>1 DEF Cat!CatalogueInv, Cat!ConfigIsSaved, Cat!ArtIsOfItsApp
<1>4. Cat!IdsAreSpent' /\ Cat!UploadsAreOfTheirApp'
  BY <1>1 DEF Cat!CatalogueInv, Cat!IdsAreSpent, Cat!UploadsAreOfTheirApp, Cat!Uploads
<1> QED BY <1>2, <1>3, <1>4 DEF Cat!CatalogueInv

LEMMA WebStays == ASSUME Api!WebInv, UNCHANGED vars PROVE Api!WebInv'
BY DEF vars, Api!WebInv, Api!ActsOnWhatIsSaved, Api!HelloIsOfItsTime, Api!LaunchesAreValid,
   Api!ConfigIsWhole

LEMMA AppHostStays == ASSUME Host!HostInv, UNCHANGED vars PROVE Host!HostInv'
<1>1. UNCHANGED <<v1, v2, v3, v4, v5, v6, v7, v8>>
  BY DEF vars
<1>2. Host!TypeOK'
  BY <1>1, HostFacts DEF Host!TypeOK
<1>3. Host!LockOK'
  BY <1>1, Zenon
     DEF Host!HostInv, Host!LockOK, Host!Free, Host!Nothing, Host!PrepHeld, Host!UndoHeld,
              Host!Tracked, Host!JobLives
<1>4. Host!PreparedSoFar'
  BY <1>1 DEF Host!HostInv, Host!PreparedSoFar, Host!InPlace, Host!Preparing
<1>5. Host!Owner' = Host!Owner /\ Host!HowMany' = Host!HowMany
  BY <1>1 DEF Host!Owner, Host!HowMany, Host!Nothing, Host!Preparing
<1>6. Host!SoMany' /\ Host!PrepIsAStack'
  BY <1>1, <1>5 DEF Host!HostInv, Host!SoMany, Host!PrepIsAStack
<1>7. Host!PrepOutlivesTheLauncher'
  BY <1>1 DEF Host!HostInv, Host!PrepOutlivesTheLauncher, Host!JobLives, Host!Steps, Host!InPlace
<1> QED BY <1>2, <1>3, <1>4, <1>6, <1>7 DEF Host!HostInv

LEMMA GridStays == ASSUME Grid!CacheIsTrue, UNCHANGED vars PROVE Grid!CacheIsTrue'
BY DEF vars, Grid!CacheIsTrue

LEMMA ServicesStart == MCInit => ServicesInv
BY PairingStarts, CatalogueStarts, WebStarts, HostStarts, StreamStarts, GridStarts,
   EffectStart, SectionStart, DeviceStart, BridgeStart, InstrStart
DEF MCInit, ServicesInv

LEMMA ServicesStep == ServicesInv /\ [MCNext]_vars => ServicesInv'
<1>1. ASSUME ServicesInv, MCNext PROVE ServicesInv'
  BY <1>1, PairingStep, CatalogueStep, WebStep, HostStep, StreamStep, GridStep,
     EffectKept, SectionKept, DeviceKept, BridgeKept, InstrKept
  DEF MCNext, ServicesInv
<1>2. ASSUME ServicesInv, UNCHANGED vars PROVE ServicesInv'
  <2>1. part' = part /\ UNCHANGED <<v1, v2, v3, v6, v9, v10>>
    BY <1>2 DEF vars
  <2> QED BY <1>2, <2>1, PairingStays, CatalogueStays, WebStays, AppHostStays, DesktopStays,
             GridStays, EffectStays, SectionStays, DeviceStays, BridgeStays, InstrStays
          DEF ServicesInv
<1> QED BY <1>1, <1>2

\* Whichever machine it is, its inductive invariant holds for ever.
THEOREM ServicesInvariance == MCSpec => []ServicesInv
BY ServicesStart, ServicesStep, PTL DEF MCSpec

\* Of the TVs that type a PIN against one arming at most one becomes a client; no two
\* clients share an identifier; and a TV whose attempt the server ends is told so.
THEOREM TVsArePairedOnceAndTold == MCSpec => []PairedOnceAndTold
<1>1. ServicesInv => PairedOnceAndTold
  BY DEF ServicesInv, Pair!PairingInv, PairedOnceAndTold
<1> QED BY <1>1, ServicesInvariance, PTL

\* A TV that was told it is paired is on disk, so is a client that may connect, and
\* one that was revoked is not let in again.
THEOREM ClientsStayAsSaved == MCSpec => []ClientsAreAsSaved
<1>1. ServicesInv => ClientsAreAsSaved
  BY DEF ServicesInv, Pair!PairingInv, ClientsAreAsSaved
<1> QED BY <1>1, ServicesInvariance, PTL

\* Art belongs to the app it was uploaded for, the catalogue is the saved one, and
\* what the server does it does by settings that are saved.
THEOREM SavedSettingsAreActedOn == MCSpec => []ActsOnWhatIsSaved
<1>1. ServicesInv => ActsOnWhatIsSaved
  BY DEF ServicesInv, Cat!CatalogueInv, Api!WebInv, ActsOnWhatIsSaved
<1> QED BY <1>1, ServicesInvariance, PTL

\* An app's prep outlives its launcher and is undone in order; a stream leaves the
\* desktop as it was found.
THEOREM HostIsLeftAsFound == MCSpec => []HostIsAsFound
<1>1. ServicesInv => HostIsAsFound
  BY DEF ServicesInv, Host!HostInv, Stream!DesktopInv, HostIsAsFound
<1> QED BY <1>1, ServicesInvariance, PTL

\* The art the launcher shows for an app is the app's.
THEOREM ArtShownIsTrue == MCSpec => []CacheIsTrue
<1>1. ServicesInv => CacheIsTrue
  BY DEF ServicesInv, CacheIsTrue
<1> QED BY <1>1, ServicesInvariance, PTL

\* A pad's driver never reads half of one report and half of another, whoever writes and
\* whoever restarts; Windows never calls back into freed memory, keeps no controller
\* that nobody plugged, and no node is bound without what its family's driver reads.
THEOREM DevicesStayWhole == MCSpec => []DevicesAreWhole
<1>1. ServicesInv => DevicesAreWhole
  BY DEF ServicesInv, DevicesAreWhole, Section!SectionInv, Device!DeviceInv
<1> QED BY <1>1, ServicesInvariance, PTL

\* No more pads have their headset on than the cap allows, through attaches, losses and
\* settings changed while they stream; and the last word of a pad outlives a full queue.
THEOREM HeadsetsStayCapped == MCSpec => []HeadsetsAreCapped
<1>1. ServicesInv => HeadsetsAreCapped
  BY BridgeSafe DEF ServicesInv, HeadsetsAreCapped
<1> QED BY <1>1, ServicesInvariance, PTL

\* Every sample stamped is held, dropped or collected once, whichever threads come and
\* go and whoever drains, and none of them holds a ring that is freed.
THEOREM MeasuresStayTrue == MCSpec => []MeasuresAreTrue
<1>1. ServicesInv => MeasuresAreTrue
  BY SamplesCounted DEF ServicesInv, MeasuresAreTrue
<1> QED BY <1>1, ServicesInvariance, PTL

\* No step takes the pad in the hand back to an effect the game had moved past, whatever
\* the network loses, repeats and reorders and however often the stamp wraps.
THEOREM EffectsOnlyGoForward == MCSpec => EffectsGoForward
<1> DEFINE Forward == part = "effects" => Effect!GoesForward
<1>1. ServicesInv /\ MCNext => Forward
  BY EffectKept DEF ServicesInv, MCNext
<1>2. ServicesInv /\ [MCNext]_vars => [Forward]_vars
  BY <1>1
<1>3. MCSpec => [][Forward]_vars
  <2> HIDE DEF Forward
  <2> QED BY <1>2, ServicesInvariance, PTL DEF MCSpec
<1> QED BY <1>3 DEF EffectsGoForward
=============================================================================
