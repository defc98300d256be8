-------------------------------- MODULE Mesh --------------------------------
(***************************************************************************)
(* Store-and-forward of one sealed packet over the trusted links of a      *)
(* small mesh (store.py add_packet, pending_for_peer, mark_attempt,        *)
(* mark_acked, record_receipt, export_packets, purge and the reconciliation*)
(* in _init_schema; node.py _sync_stream, _handle_connection,              *)
(* _receive_items; bundle.py; the pull/push pass of carriers/directory.py).*)
(*                                                                         *)
(* Packets do not interact in the store, so one packet is enough.  A TLS   *)
(* sync and a carrier pass both consist of offers and acknowledgements     *)
(* between two neighbours: an offer carries the depth read when it was     *)
(* written, and either may be lost with its connection.                    *)
(***************************************************************************)
EXTENDS Naturals, FiniteSets, FiniteSetsExt

CONSTANTS
    Nodes,
    Links,      \* set of two-element sets of nodes that pinned each other
    Source,     \* node that queued the packet
    Dest,       \* destination_id
    MaxHops,    \* max_hops of the packet
    Nobody,     \* received_from of a locally queued or imported packet
    Offline,    \* nodes whose operators exchange bundle files
    MaxFlight,  \* bound on messages in flight
    MaxFaults   \* bound on restarts and failed intakes

ASSUME MeshAssumption ==
    /\ Links \subseteq SUBSET Nodes
    /\ {Source, Dest} \subseteq Nodes /\ Source # Dest
    /\ Nobody \notin Nodes
    /\ MaxHops \in Nat \ {0}
    /\ Offline \subseteq Nodes
    /\ MaxFlight \in Nat \ {0}
    /\ MaxFaults \in Nat

VARIABLES
    row,        \* packets table of each node: absent, pending, delivered
    depth,      \* packets.depth
    from,       \* packets.received_from
    acked,      \* acked[n]: peers with deliveries.state = 'acked' at n
    half,       \* nodes inside mark_acked, before its last statement
    net,        \* offers and acknowledgements in flight
    bundle,     \* a bundle file holds the packet
    expired,    \* expires_ms has passed
    faults,     \* number of faults so far
    settled     \* history: the destination accepted or rejected the packet

rows == <<row, depth, from>>
vars == <<rows, acked, half, net, bundle, expired, faults, settled>>

Depths == 0..MaxHops
Offers == [type : {"offer"}, src : Nodes, dst : Nodes, depth : Depths]
Acks == [type : {"ack"}, src : Nodes, dst : Nodes]

\* The tables and local variables hold only values the code can put there.
TypeOK ==
    /\ row \in [Nodes -> {"absent", "pending", "delivered"}]
    /\ depth \in [Nodes -> Depths]
    /\ from \in [Nodes -> Nodes \cup {Nobody}]
    /\ acked \in [Nodes -> SUBSET Nodes]
    /\ half \in SUBSET Nodes
    /\ net \in SUBSET (Offers \cup Acks)
    /\ bundle \in BOOLEAN
    /\ expired \in BOOLEAN
    /\ faults \in Nat
    /\ settled \in BOOLEAN

\* The source has sealed and queued the packet (store.add_packet, depth 0).
Queued ==
    /\ row = [n \in Nodes |-> IF n = Source THEN "pending" ELSE "absent"]
    /\ depth = [n \in Nodes |-> 0]
    /\ from = [n \in Nodes |-> Nobody]
    /\ acked = [n \in Nodes |-> {}]
    /\ half = {}
    /\ net = {}
    /\ bundle = FALSE
    /\ faults = 0
    /\ settled = FALSE

Init == Queued /\ expired = FALSE

-----------------------------------------------------------------------------
(* The packets table.                                                      *)

\* add_packet: a new row, or the smaller depth for a known packet id.
AddPacket(n, d, s) ==
    /\ depth' = [depth EXCEPT ![n] = IF row[n] = "absent" THEN d ELSE Min({@, d})]
    /\ from' = [from EXCEPT ![n] = IF row[n] = "absent" THEN s ELSE @]

\* INSERT OR IGNORE leaves the delivered flag of a known packet alone.
Stored(n) == IF row[n] = "absent" THEN "pending" ELSE row[n]

\* pending_for_peer: unexpired, not delivered, below the hop limit, not where
\* it came from, not yet acknowledged by that peer.
OfferShort(n, m) ==                                           \* mutant
    ~expired /\ row[n] = "pending" /\ depth[n] + 1 < MaxHops /\ from[n] # m /\ m \notin acked[n]
PendingForPeer(n, m) ==
    /\ ~expired
    /\ row[n] = "pending"
    /\ depth[n] < MaxHops
    /\ from[n] # m
    /\ m \notin acked[n]

\* UPDATE packets SET delivered = 1 WHERE ... destination_id = peer.
CompleteAnyway(n, m) == TRUE                                  \* mutant
CompletesDelivery(n, m) == m = Dest

\* The reconciliation of _init_schema: a packet its destination acknowledged
\* is delivered.
NoReconcile(n) == row                                         \* mutant
Reconcile(n) ==
    [row EXCEPT ![n] = IF @ = "pending" /\ Dest \in acked[n] THEN "delivered" ELSE @]

-----------------------------------------------------------------------------
(* Exchanges between neighbours.                                           *)

\* The sender's half: pending_for_peer, mark_attempt, write the frame.
Offer(n, m) ==
    /\ {n, m} \in Links
    /\ PendingForPeer(n, m)
    /\ Cardinality(net) < MaxFlight
    /\ net' = net \cup {[type |-> "offer", src |-> n, dst |-> m,
                         depth |-> depth[n] + 1]}
    /\ UNCHANGED <<rows, acked, half, bundle, expired, faults, settled>>

\* accept_carrier_packet at a relay or at the destination: refused when
\* expired or deeper than max_hops, stored, processed at the destination, and
\* acknowledged.
Accept(msg) ==
    LET n == msg.dst IN
    /\ msg \in net /\ msg.type = "offer"
    /\ ~expired
    /\ msg.depth \in 1..MaxHops
    /\ AddPacket(n, msg.depth, msg.src)
    /\ row' = [row EXCEPT ![n] = IF n = Dest THEN "delivered" ELSE Stored(n)]
    /\ settled' = (settled \/ n = Dest)
    /\ net' = (net \ {msg}) \cup {[type |-> "ack", src |-> n, dst |-> msg.src]}
    /\ UNCHANGED <<acked, half, bundle, expired, faults>>

\* The destination stores the packet, and a transient error ends its
\* processing: the row stays pending and nothing is acknowledged.
AcceptFails(msg) ==
    /\ msg \in net /\ msg.type = "offer" /\ msg.dst = Dest
    /\ ~expired /\ row[Dest] # "delivered"
    /\ faults < MaxFaults
    /\ faults' = faults + 1
    /\ AddPacket(Dest, msg.depth, msg.src)
    /\ row' = [row EXCEPT ![Dest] = Stored(Dest)]
    /\ net' = net \ {msg}
    /\ UNCHANGED <<acked, half, bundle, expired, settled>>

\* process_local_spool at the destination.
ProcessLocalSpool ==
    /\ row[Dest] = "pending" /\ ~expired
    /\ row' = [row EXCEPT ![Dest] = "delivered"]
    /\ settled' = TRUE
    /\ UNCHANGED <<depth, from, acked, half, net, bundle, expired, faults>>

\* mark_acked: the delivery rows are written first; a destination's
\* acknowledgement completes the packet in a later statement.
MarkAcked(msg) ==
    LET n == msg.dst IN
    /\ msg \in net /\ msg.type = "ack"
    /\ acked' = [acked EXCEPT ![n] = @ \cup {msg.src}]
    /\ half' = IF CompletesDelivery(n, msg.src) THEN half \cup {n} ELSE half
    /\ net' = net \ {msg}
    /\ UNCHANGED <<rows, bundle, expired, faults, settled>>

MarkAckedDone(n) ==
    /\ n \in half
    /\ half' = half \ {n}
    /\ row' = [row EXCEPT ![n] = IF @ = "pending" THEN "delivered" ELSE @]
    /\ UNCHANGED <<depth, from, acked, net, bundle, expired, faults, settled>>

\* The process dies, mark_acked half done, and opens the store again.
Restart(n) ==
    /\ faults < MaxFaults
    /\ faults' = faults + 1
    /\ half' = half \ {n}
    /\ row' = Reconcile(n)
    /\ UNCHANGED <<depth, from, acked, net, bundle, expired, settled>>

\* A connection breaks, a carrier frame is quarantined or lost.
Lose(msg) ==
    /\ msg \in net
    /\ net' = net \ {msg}
    /\ UNCHANGED <<rows, acked, half, bundle, expired, faults, settled>>

\* The end-to-end receipt, itself a packet, reaches the source.
RecordReceipt ==
    /\ settled
    /\ row[Source] = "pending"
    /\ row' = [row EXCEPT ![Source] = "delivered"]
    /\ UNCHANGED <<depth, from, acked, half, net, bundle, expired, faults, settled>>

-----------------------------------------------------------------------------
(* Bundles, expiry and purge.                                              *)

\* create_bundle exports every undelivered, unexpired packet.
CreateBundle(n) ==
    /\ ~bundle
    /\ row[n] = "pending" /\ ~expired
    /\ bundle' = TRUE
    /\ UNCHANGED <<rows, acked, half, net, expired, faults, settled>>

\* import_bundle adds the packet with the default depth 0.
ImportBundle(n) ==
    /\ bundle /\ ~expired
    /\ AddPacket(n, 0, Nobody)
    /\ row' = [row EXCEPT ![n] = Stored(n)]
    /\ UNCHANGED <<acked, half, net, bundle, expired, faults, settled>>

Expire ==
    /\ ~expired
    /\ expired' = TRUE
    /\ UNCHANGED <<rows, acked, half, net, bundle, faults, settled>>

\* purge: the expired row and the deliveries it leaves orphaned.
Purge(n) ==
    /\ expired /\ row[n] # "absent"
    /\ row' = [row EXCEPT ![n] = "absent"]
    /\ acked' = [acked EXCEPT ![n] = {}]
    /\ UNCHANGED <<depth, from, half, net, bundle, expired, faults, settled>>

Next ==
    \/ \E n, m \in Nodes : Offer(n, m)
    \/ \E msg \in net : Accept(msg) \/ AcceptFails(msg) \/ MarkAcked(msg) \/ Lose(msg)
    \/ ProcessLocalSpool
    \/ \E n \in Nodes : MarkAckedDone(n) \/ Restart(n) \/ Purge(n)
    \/ \E n \in Offline : CreateBundle(n) \/ ImportBundle(n)
    \/ RecordReceipt
    \/ Expire

Spec == Init /\ [][Next]_vars

\* Neighbours sync again and again (sync_loop, carrier polling), whatever
\* else is in flight, and an offer that keeps being sent gets through; every
\* connection ends, with or without its acknowledgement; the destination goes
\* through its spool.
Directions == {e \in Nodes \X Nodes : {e[1], e[2]} \in Links /\ e[1] # Dest /\ e[2] # Source}
Fairness ==
    /\ \A e \in Directions :
          /\ SF_vars(Offer(e[1], e[2]))
          /\ SF_vars(\E msg \in net : msg.src = e[1] /\ msg.dst = e[2] /\ Accept(msg))
    /\ WF_vars(ProcessLocalSpool)
    /\ WF_vars(\E msg \in net : Accept(msg) \/ MarkAcked(msg) \/ Lose(msg))

FairSpec == Spec /\ Fairness

-----------------------------------------------------------------------------
(* Properties.                                                             *)

\* No node, and the source least of all, counts the packet as delivered
\* before its destination has taken it: acknowledgements of relays, restarts
\* and receipts never complete it early (mark_acked, _init_schema).
\* Custody is never given up on the strength of a copy that does not exist:
\* a peer whose acknowledgement is on record still stores the packet.
CustodyIsReal ==
    /\ \A n \in Nodes : row[n] = "delivered" => settled
    /\ \A n, m \in Nodes : m \in acked[n] /\ ~expired => row[m] # "absent"

\* A destination's acknowledgement is never half recorded for good: outside
\* mark_acked the delivery row and the packet row agree, crash or not.
AckIsAtomic ==
    \A n \in Nodes : Dest \in acked[n] /\ n \notin half => row[n] # "pending"

\* A packet reaches its destination or expires, whatever frames, frames'
\* acknowledgements and handlers are lost on the way (at-least-once
\* delivery, PROTOCOL.md section 6).
EventuallySettled == <>(settled \/ expired)
=============================================================================
