------------------------------ MODULE AhubRelay -----------------------------
(***************************************************************************)
(* The live relay of an Ahub: durable reservations (ahub.py AhubStore) and *)
(* the in-memory pairing of an owner's WebSocket with that of the one peer *)
(* the reservation admits (ahub_relay.py RelayCoordinator).                *)
(*                                                                         *)
(* One asyncio loop serves all connections.  A step is what happens        *)
(* between two awaits, or under the coordinator's lock; whatever a         *)
(* connection read before an await may be stale after it.                  *)
(*                                                                         *)
(* A reservation belongs to a pair <<owner, peer>>.  It keeps its id when  *)
(* it is refreshed and gets a new one, here the next number of the pair,   *)
(* once it has expired.  Frames and byte counters are left out: they only  *)
(* decide when a session ends, which here it may at any moment.            *)
(***************************************************************************)
EXTENDS Integers, FiniteSets

CONSTANTS
    RelayNodes,
    Pairs,          \* <<owner, peer>> for which reservations are made
    Conns,          \* connections each side of a pair may open
    MaxConnections, \* max_relay_connections_per_node
    MaxReservations,\* max_relay_reservations_per_node
    MaxGen,         \* bound on reservation ids of one pair
    MaxRestarts,    \* bound on restarts of the Ahub
    NoConn

ASSUME RelayAssumption ==
    /\ Pairs \subseteq {q \in RelayNodes \X RelayNodes : q[1] # q[2]}
    /\ NoConn \notin Conns
    /\ MaxConnections \in Nat /\ MaxReservations \in Nat
    /\ MaxGen \in Nat /\ MaxRestarts \in Nat

Ids == Pairs \X (1..MaxGen)
Sides == Pairs \X Conns

VARIABLES
    row,      \* ahub_relay_reservations: id of the pair's reservation, 0 if none
    lastId,   \* the last id issued for the pair
    waiting,  \* _waiting: the owner's connection per reservation id
    active,   \* _active_reservations
    load,     \* _active_by_node
    owner,    \* control state of the owner's connections, in _wait_as_owner
    ownerId,  \* the reservation they were authorized for
    paired,   \* owner connections whose paired event is set
    done,     \* owner connections whose done future is set
    peer,     \* control state of the peer's connections, in _join_as_peer
    peerId,   \* the reservation they were authorized for
    mate,     \* the owner connection they are paired with
    restarts

durable == <<row, lastId>>
tables == <<waiting, active, load>>
owners == <<owner, ownerId, paired, done>>
peers == <<peer, peerId, mate>>
relayVars == <<durable, tables, owners, peers, restarts>>

\* The variables stay within the values the code can store.
RelayTypeOK ==
    /\ row \in [Pairs -> 0..MaxGen]
    /\ lastId \in [Pairs -> 0..MaxGen]
    /\ waiting \in [Ids -> Conns \cup {NoConn}]
    /\ active \subseteq Ids
    /\ load \in [RelayNodes -> 0..(2 * Cardinality(Ids))]
    /\ owner \in [Sides -> {"idle", "authorized", "registered", "waiting",
                            "served", "leaving", "gone"}]
    /\ ownerId \in [Sides -> 0..MaxGen]
    /\ paired \subseteq Sides
    /\ done \subseteq paired
    /\ peer \in [Sides -> {"idle", "authorized", "session", "closing", "gone"}]
    /\ peerId \in [Sides -> 0..MaxGen]
    /\ mate \in [Sides -> Conns \cup {NoConn}]
    /\ restarts \in 0..MaxRestarts

RelayInit ==
    /\ row = [q \in Pairs |-> 0]
    /\ lastId = [q \in Pairs |-> 0]
    /\ waiting = [i \in Ids |-> NoConn]
    /\ active = {}
    /\ load = [n \in RelayNodes |-> 0]
    /\ owner = [s \in Sides |-> "idle"]
    /\ ownerId = [s \in Sides |-> 0]
    /\ paired = {}
    /\ done = {}
    /\ peer = [s \in Sides |-> "idle"]
    /\ peerId = [s \in Sides |-> 0]
    /\ mate = [s \in Sides |-> NoConn]
    /\ restarts = 0

-----------------------------------------------------------------------------
(* Reservations.                                                           *)

Owned(n) == {q \in Pairs : q[1] = n /\ row[q] # 0}

\* reserve_relay without a reservation for the pair.
Reserve(q) ==
    /\ row[q] = 0 /\ lastId[q] < MaxGen
    /\ Cardinality(Owned(q[1])) < MaxReservations
    /\ lastId' = [lastId EXCEPT ![q] = @ + 1]
    /\ row' = [row EXCEPT ![q] = lastId'[q]]
    /\ UNCHANGED <<tables, owners, peers, restarts>>

\* _purge takes the expired row.  Connections that were authorized before
\* keep their copy of it.  A refresh in time is the absence of this step.
ExpireReservation(q) ==
    /\ row[q] # 0
    /\ row' = [row EXCEPT ![q] = 0]
    /\ UNCHANGED <<lastId, tables, owners, peers, restarts>>

\* authorize_relay for a new WebSocket of the owner, of the peer; the peer has
\* learnt the id from find_relay_reservation.
AuthorizeOwner(s) ==
    /\ owner[s] = "idle" /\ row[s[1]] # 0
    /\ owner' = [owner EXCEPT ![s] = "authorized"]
    /\ ownerId' = [ownerId EXCEPT ![s] = row[s[1]]]
    /\ UNCHANGED <<durable, tables, paired, done, peers, restarts>>

AuthorizePeer(s) ==
    /\ peer[s] = "idle" /\ row[s[1]] # 0
    /\ peer' = [peer EXCEPT ![s] = "authorized"]
    /\ peerId' = [peerId EXCEPT ![s] = row[s[1]]]
    /\ UNCHANGED <<durable, tables, owners, mate, restarts>>

-----------------------------------------------------------------------------
(* The owner's connection.                                                 *)

OwnerRes(s) == <<s[1], ownerId[s]>>
PeerRes(s) == <<s[1], peerId[s]>>

\* The reservation is in use.
NeverBusy(i) == FALSE                                        \* mutant
Busy(i) == i \in active

NodeHasCapacity(n) == load[n] < MaxConnections

OwnerMayWait(s) ==
    /\ waiting[OwnerRes(s)] = NoConn /\ ~Busy(OwnerRes(s))
    /\ NodeHasCapacity(s[1][1])

\* _wait_as_owner, under the lock.
RegisterOwner(s) ==
    /\ owner[s] = "authorized"
    /\ \/ /\ OwnerMayWait(s)
          /\ waiting' = [waiting EXCEPT ![OwnerRes(s)] = s[2]]
          /\ owner' = [owner EXCEPT ![s] = "registered"]
       \/ /\ ~OwnerMayWait(s)
          /\ owner' = [owner EXCEPT ![s] = "gone"]
          /\ UNCHANGED waiting
    /\ UNCHANGED <<durable, active, load, ownerId, paired, done, peers, restarts>>

\* relay.waiting is sent.  The send stands before the try block: when it
\* fails, the handler ends without touching _waiting.
AnnounceWaiting(s) ==
    /\ owner[s] = "registered"
    /\ owner' = [owner EXCEPT ![s] = "waiting"]
    /\ UNCHANGED <<durable, tables, ownerId, paired, done, peers, restarts>>

AnnounceFails(s) ==
    /\ owner[s] = "registered"
    /\ owner' = [owner EXCEPT ![s] = "gone"]
    /\ UNCHANGED <<durable, tables, ownerId, paired, done, peers, restarts>>

\* The wait ends: the paired event, or the client, or the reservation's
\* expiry.  The last two may win although a peer has just paired.
SeePaired(s) ==
    /\ owner[s] = "waiting" /\ s \in paired
    /\ owner' = [owner EXCEPT ![s] = "served"]
    /\ UNCHANGED <<durable, tables, ownerId, paired, done, peers, restarts>>

StopWaiting(s) ==
    /\ owner[s] = "waiting"
    /\ owner' = [owner EXCEPT ![s] = "leaving"]
    /\ UNCHANGED <<durable, tables, ownerId, paired, done, peers, restarts>>

SessionOver(s) ==
    /\ owner[s] = "served" /\ s \in done
    /\ owner' = [owner EXCEPT ![s] = "leaving"]
    /\ UNCHANGED <<durable, tables, ownerId, paired, done, peers, restarts>>

\* The finally block takes back the entry, unless a peer or a later
\* connection has replaced it.
Deregistered(s) ==
    [waiting EXCEPT ![OwnerRes(s)] = IF @ = s[2] THEN NoConn ELSE @]

LeaveOwner(s) ==
    /\ owner[s] = "leaving"
    /\ waiting' = Deregistered(s)
    /\ owner' = [owner EXCEPT ![s] = "gone"]
    /\ UNCHANGED <<durable, active, load, ownerId, paired, done, peers, restarts>>

-----------------------------------------------------------------------------
(* The peer's connection.                                                  *)

PeerMayJoin(s) ==
    /\ waiting[PeerRes(s)] # NoConn /\ ~Busy(PeerRes(s))
    /\ NodeHasCapacity(s[1][2])

Loaded(q) == [n \in RelayNodes |-> IF n \in {q[1], q[2]} THEN load[n] + 1 ELSE load[n]]

\* _join_as_peer, under the lock: only the peer's capacity is checked.
JoinAsPeer(s) ==
    /\ peer[s] = "authorized"
    /\ \/ /\ PeerMayJoin(s)
          /\ mate' = [mate EXCEPT ![s] = waiting[PeerRes(s)]]
          /\ waiting' = [waiting EXCEPT ![PeerRes(s)] = NoConn]
          /\ active' = active \cup {PeerRes(s)}
          /\ load' = Loaded(s[1])
          /\ paired' = paired \cup {<<s[1], mate'[s]>>}
          /\ peer' = [peer EXCEPT ![s] = "session"]
       \/ /\ ~PeerMayJoin(s)
          /\ peer' = [peer EXCEPT ![s] = "gone"]
          /\ UNCHANGED <<tables, mate, paired>>
    /\ UNCHANGED <<durable, owner, ownerId, done, peerId, restarts>>

\* relay.ready and the two pumps, until an end disconnects, a send fails or a
\* limit is reached.
EndSession(s) ==
    /\ peer[s] = "session"
    /\ peer' = [peer EXCEPT ![s] = "closing"]
    /\ UNCHANGED <<durable, tables, owners, peerId, mate, restarts>>

\* _decrement_node of both ends.
Unloaded(q) == [n \in RelayNodes |-> IF n \in {q[1], q[2]} THEN load[n] - 1 ELSE load[n]]

\* The finally block sets the owner's done future.
OwnerForgotten(s) == done                                    \* mutant
OwnerDone(s) == done \cup {<<s[1], mate[s]>>}

LeavePeer(s) ==
    /\ peer[s] = "closing"
    /\ active' = active \ {PeerRes(s)}
    /\ load' = Unloaded(s[1])
    /\ done' = OwnerDone(s)
    /\ peer' = [peer EXCEPT ![s] = "gone"]
    /\ UNCHANGED <<durable, waiting, owner, ownerId, paired, peerId, mate, restarts>>

-----------------------------------------------------------------------------
\* The Ahub restarts: reservations stay, every connection and table is gone.
Dropped(f) == [s \in Sides |-> IF f[s] = "idle" THEN "idle" ELSE "gone"]

Restart ==
    /\ restarts < MaxRestarts
    /\ restarts' = restarts + 1
    /\ waiting' = [i \in Ids |-> NoConn]
    /\ active' = {}
    /\ load' = [n \in RelayNodes |-> 0]
    /\ owner' = Dropped(owner)
    /\ peer' = Dropped(peer)
    /\ UNCHANGED <<durable, ownerId, paired, done, peerId, mate>>

OwnerStep(s) ==
    \/ RegisterOwner(s) \/ AnnounceWaiting(s) \/ AnnounceFails(s)
    \/ SeePaired(s) \/ StopWaiting(s) \/ SessionOver(s) \/ LeaveOwner(s)

PeerStep(s) == EndSession(s) \/ LeavePeer(s)

RelayNext ==
    \/ \E q \in Pairs : Reserve(q) \/ ExpireReservation(q)
    \/ \E s \in Sides : \/ AuthorizeOwner(s) \/ OwnerStep(s)
                        \/ AuthorizePeer(s) \/ JoinAsPeer(s) \/ PeerStep(s)
    \/ Restart

RelaySpec == RelayInit /\ [][RelayNext]_relayVars

\* The loop runs every ready coroutine, and timeouts end every wait and every
\* session.  Nothing makes a peer come.
RelayFairness ==
    \A s \in Sides : WF_relayVars(OwnerStep(s)) /\ WF_relayVars(PeerStep(s))

-----------------------------------------------------------------------------
(* Properties.                                                             *)

\* However often the two ends of a reservation reconnect, give up or die, at
\* most one pair of connections uses it, and the tables tell the truth: the
\* set of active reservations names the sessions, and the load of a node is the
\* number of sessions it is an end of (no slot is leaked or given back twice).
SessionsAreExact ==
    LET sessions == {s \in Sides : peer[s] \in {"session", "closing"}} IN
    /\ \A s, t \in sessions : PeerRes(s) = PeerRes(t) => s = t
    /\ active = {PeerRes(s) : s \in sessions}
    /\ \A n \in RelayNodes :
          load[n] = Cardinality({s \in sessions : n \in {s[1][1], s[1][2]}})

\* An owner's connection that has found its peer ends once the session does,
\* unless the Ahub restarts: no connection waits for ever on its done future.
OwnerReleased == \A s \in Sides : owner[s] = "served" ~> owner[s] = "gone"
=============================================================================
