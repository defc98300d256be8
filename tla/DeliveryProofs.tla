--------------------------- MODULE DeliveryProofs ---------------------------
(***************************************************************************)
(* Proofs about what leaves a node.  The mesh, for every topology, every   *)
(* number of nodes, of messages in flight and of faults; the outbox of the *)
(* A2A gateway, for any messages, keys and drainers; the records that a    *)
(* node publishes at an Ahub, for any number of workers and events.        *)
(***************************************************************************)
EXTENDS Mesh, Publication, A2AGateway, FiniteSetTheorems, TLAPS

-----------------------------------------------------------------------------
(* The mesh.                                                               *)

\* Messages in flight speak of rows that exist until the packet expires, and
\* an acknowledgement of the destination of a packet that it has taken.
FlightIsReal ==
    \A msg \in net :
        /\ ~expired => row[msg.src] # "absent"
        /\ msg.type = "ack" /\ ~expired => row[msg.dst] # "absent"
        /\ msg.type = "ack" /\ msg.src = Dest => settled

\* So do the delivery rows that acknowledgements leave behind, also while
\* mark_acked is half done.
RecordsAreReal ==
    \A n \in Nodes :
        /\ acked[n] # {} /\ ~expired => row[n] # "absent"
        /\ Dest \in acked[n] => settled
        /\ n \in half => settled

MeshInv == TypeOK /\ FlightIsReal /\ RecordsAreReal /\ CustodyIsReal /\ AckIsAtomic

\* The smaller of two depths is one of them (add_packet).
LEMMA MinOfTwo == \A a, b \in Nat : Min({a, b}) \in {a, b}
<1> SUFFICES ASSUME NEW a \in Nat, NEW b \in Nat PROVE Min({a, b}) \in {a, b}
  OBVIOUS
<1>1. \E x \in {a, b} : \A y \in {a, b} : x <= y
  <2>1. CASE a <= b  BY <2>1
  <2>2. CASE b <= a  BY <2>2
  <2>. QED  BY <2>1, <2>2
<1>. QED  BY <1>1 DEF Min

\* add_packet keeps depth and received_from in their domains.
LEMMA AddPacketTypes ==
    ASSUME TypeOK, NEW n \in Nodes, NEW d \in Depths, NEW s \in Nodes \cup {Nobody},
           AddPacket(n, d, s)
    PROVE  depth' \in [Nodes -> Depths] /\ from' \in [Nodes -> Nodes \cup {Nobody}]
<1>1. depth[n] \in Depths /\ Depths \subseteq Nat
  BY MeshAssumption DEF TypeOK, Depths
<1>2. Min({depth[n], d}) \in Depths
  BY <1>1, MinOfTwo
<1>. QED  BY <1>1, <1>2 DEF AddPacket, TypeOK

\* What a message in flight is.
LEMMA FlightTypes ==
    ASSUME TypeOK, NEW msg \in net
    PROVE  /\ msg.src \in Nodes /\ msg.dst \in Nodes
           /\ msg.type = "offer" => msg.depth \in Depths
  BY DEF TypeOK, Offers, Acks

\* Every step of the mesh keeps the invariant.
LEMMA MeshStep == MeshInv /\ [Next]_vars => MeshInv'
<1> SUFFICES ASSUME MeshInv, [Next]_vars PROVE MeshInv'
  OBVIOUS
<1> USE MeshAssumption
<1> USE DEF MeshInv
<1>1. ASSUME NEW n \in Nodes, NEW m \in Nodes, Offer(n, m) PROVE MeshInv'
  <2>1. depth[n] + 1 \in Depths
    BY <1>1 DEF Offer, PendingForPeer, TypeOK, Depths
  <2>2. TypeOK'
    BY <1>1, <2>1 DEF Offer, TypeOK, Offers, rows
  <2>. QED
    BY <1>1, <2>2 DEF Offer, PendingForPeer, TypeOK, FlightIsReal, RecordsAreReal, CustodyIsReal, AckIsAtomic, rows
<1>2. ASSUME NEW msg \in net, Accept(msg) PROVE MeshInv'
  <2>1. msg.src \in Nodes /\ msg.dst \in Nodes /\ msg.depth \in Depths
    BY <1>2, FlightTypes DEF Accept
  <2>2. TypeOK'
    <3>1. depth' \in [Nodes -> Depths] /\ from' \in [Nodes -> Nodes \cup {Nobody}]
      <4>1. AddPacket(msg.dst, msg.depth, msg.src)
        BY <1>2 DEF Accept
      <4>. QED  BY <2>1, <4>1, AddPacketTypes
    <3>2. row' \in [Nodes -> {"absent", "pending", "delivered"}]
      BY <1>2, <2>1 DEF Accept, Stored, TypeOK
    <3>3. net' \in SUBSET (Offers \cup Acks)
      BY <1>2, <2>1 DEF Accept, TypeOK, Acks
    <3>. QED  BY <1>2, <3>1, <3>2, <3>3 DEF Accept, TypeOK
  <2>3. \A n \in Nodes : row[n] # "absent" => row'[n] # "absent"
    BY <1>2, <2>1 DEF Accept, Stored, TypeOK
  <2>4. row'[msg.dst] # "absent"
    BY <1>2, <2>1 DEF Accept, Stored, TypeOK
  <2>5. FlightIsReal'
    <3> DEFINE ack == [type |-> "ack", src |-> msg.dst, dst |-> msg.src]
    <3>1. /\ net' \subseteq net \cup {ack} /\ expired' = expired /\ ~expired
          /\ settled => settled'
          /\ msg.dst = Dest => settled'
      BY <1>2 DEF Accept
    <3>2. \A x \in net : /\ row'[x.src] # "absent"
                         /\ x.type = "ack" => row'[x.dst] # "absent"
                         /\ x.type = "ack" /\ x.src = Dest => settled'
      BY <2>3, <3>1, FlightTypes DEF FlightIsReal
    <3>3. /\ row'[ack.src] # "absent" /\ row'[ack.dst] # "absent"
          /\ ack.src = Dest => settled'
      BY <2>4, <3>1, <3>2
    <3> HIDE DEF ack
    <3>. QED  BY <3>1, <3>2, <3>3 DEF FlightIsReal
  <2>6. RecordsAreReal'
    BY <1>2, <2>1, <2>3 DEF Accept, RecordsAreReal, TypeOK
  <2>7. CustodyIsReal'
    BY <1>2, <2>1, <2>3 DEF Accept, Stored, CustodyIsReal, TypeOK
  <2>8. AckIsAtomic'
    BY <1>2, <2>1, <2>3 DEF Accept, Stored, AckIsAtomic, RecordsAreReal, TypeOK
  <2>. QED  BY <2>2, <2>5, <2>6, <2>7, <2>8
<1>3. ASSUME NEW msg \in net, AcceptFails(msg) PROVE MeshInv'
  <2>1. msg.src \in Nodes /\ msg.dst \in Nodes /\ msg.depth \in Depths
    BY <1>3, FlightTypes DEF AcceptFails
  <2>2. TypeOK'
    BY <1>3, <2>1, AddPacketTypes DEF AcceptFails, Stored, TypeOK
  <2>3. \A n \in Nodes : row[n] # "absent" => row'[n] = row[n]
    BY <1>3, <2>1 DEF AcceptFails, Stored, TypeOK
  <2>. QED
    BY <1>3, <2>1, <2>2, <2>3, FlightTypes
       DEF AcceptFails, Stored, TypeOK, FlightIsReal, RecordsAreReal, CustodyIsReal, AckIsAtomic
<1>4. CASE ProcessLocalSpool
  BY <1>4, FlightTypes
     DEF ProcessLocalSpool, TypeOK, FlightIsReal, RecordsAreReal, CustodyIsReal, AckIsAtomic
<1>5. ASSUME NEW msg \in net, MarkAcked(msg) PROVE MeshInv'
  <2>1. msg.src \in Nodes /\ msg.dst \in Nodes
    BY FlightTypes
  <2>2. TypeOK'
    BY <1>5, <2>1 DEF MarkAcked, TypeOK, rows
  <2>. QED
    BY <1>5, <2>1, <2>2
       DEF MarkAcked, CompletesDelivery, TypeOK, FlightIsReal, RecordsAreReal, CustodyIsReal, AckIsAtomic, rows
<1>6. ASSUME NEW n \in Nodes, MarkAckedDone(n) PROVE MeshInv'
  BY <1>6, FlightTypes
     DEF MarkAckedDone, TypeOK, FlightIsReal, RecordsAreReal, CustodyIsReal, AckIsAtomic
<1>7. ASSUME NEW n \in Nodes, Restart(n) PROVE MeshInv'
  BY <1>7, FlightTypes
     DEF Restart, Reconcile, TypeOK, FlightIsReal, RecordsAreReal, CustodyIsReal, AckIsAtomic
<1>8. ASSUME NEW msg \in net, Lose(msg) PROVE MeshInv'
  BY <1>8 DEF Lose, TypeOK, FlightIsReal, RecordsAreReal, CustodyIsReal, AckIsAtomic, rows
<1>9. CASE RecordReceipt
  BY <1>9, FlightTypes
     DEF RecordReceipt, TypeOK, FlightIsReal, RecordsAreReal, CustodyIsReal, AckIsAtomic
<1>10. ASSUME NEW n \in Nodes, CreateBundle(n) PROVE MeshInv'
  BY <1>10 DEF CreateBundle, TypeOK, FlightIsReal, RecordsAreReal, CustodyIsReal, AckIsAtomic, rows
<1>11. ASSUME NEW n \in Nodes, ImportBundle(n) PROVE MeshInv'
  <2>1. 0 \in Depths
    BY DEF Depths
  <2>2. TypeOK'
    <3>1. AddPacket(n, 0, Nobody)
      BY <1>11 DEF ImportBundle
    <3>2. depth' \in [Nodes -> Depths] /\ from' \in [Nodes -> Nodes \cup {Nobody}]
      BY <2>1, <3>1, AddPacketTypes
    <3>. QED  BY <1>11, <3>2 DEF ImportBundle, Stored, TypeOK
  <2>3. \A m \in Nodes : row[m] # "absent" => row'[m] = row[m]
    BY <1>11 DEF ImportBundle, Stored, TypeOK
  <2>. QED
    BY <1>11, <2>2, <2>3, FlightTypes
       DEF ImportBundle, Stored, TypeOK, FlightIsReal, RecordsAreReal, CustodyIsReal, AckIsAtomic
<1>12. CASE Expire
  BY <1>12 DEF Expire, TypeOK, FlightIsReal, RecordsAreReal, CustodyIsReal, AckIsAtomic, rows
<1>13. ASSUME NEW n \in Nodes, Purge(n) PROVE MeshInv'
  BY <1>13, FlightTypes
     DEF Purge, TypeOK, FlightIsReal, RecordsAreReal, CustodyIsReal, AckIsAtomic
<1>14. CASE UNCHANGED vars
  BY <1>14 DEF vars, rows, TypeOK, FlightIsReal, RecordsAreReal, CustodyIsReal, AckIsAtomic
<1>. QED
  BY <1>1, <1>2, <1>3, <1>4, <1>5, <1>6, <1>7, <1>8, <1>9, <1>10, <1>11, <1>12, <1>13, <1>14 DEF Next

\* The invariant holds in every reachable state of the mesh.
LEMMA MeshInvariant == Spec => []MeshInv
<1>1. Init => MeshInv
  <2>1. 0 \in Depths /\ 0 \in Nat
    BY MeshAssumption DEF Depths
  <2>2. Init => TypeOK
    BY <2>1 DEF Init, Queued, TypeOK
  <2>3. Init => FlightIsReal /\ RecordsAreReal /\ CustodyIsReal /\ AckIsAtomic
    BY MeshAssumption DEF Init, Queued, FlightIsReal, RecordsAreReal, CustodyIsReal, AckIsAtomic
  <2>. QED  BY <2>2, <2>3 DEF MeshInv
<1>. QED  BY <1>1, MeshStep, PTL DEF Spec

\* Nobody counts the packet as delivered before its destination has taken it,
\* and whoever acknowledged it still has it, until it expires (mark_acked,
\* accept_carrier_packet).
THEOREM MeshCustody == Spec => []CustodyIsReal
  BY MeshInvariant, PTL DEF MeshInv

\* The statements of mark_acked commit one by one; a death between them is
\* repaired by _init_schema before the node does anything else.
THEOREM MeshAcksAtomic == Spec => []AckIsAtomic
  BY MeshInvariant, PTL DEF MeshInv

-----------------------------------------------------------------------------
(* The outbox of the A2A gateway.                                          *)

GatewayStates == {"none", "submitted", "working"} \cup WaitingStates \cup TerminalStates

\* The part of GatewayTypeOK that the argument needs.
GatewayTypes ==
    /\ dispatch \in [Intents -> {"none", "pending", "retry", "leased", "dispatched"}]
    /\ tries \in [Intents -> Nat] /\ resv \in [Intents -> Nat]
    /\ keyState \in [Keys -> {"available", "reserved", "used", "burned"}]
    /\ batch \in [Drainers -> SUBSET Claims]
    /\ sealedWith \in [Drainers -> Keys \cup {NoKey}]
    /\ task \in GatewayStates
    /\ cancel \in {"none", "requested", "dispatched", "confirmed", "too_late"}

\* Packets and dispatched intents correspond one to one.
PacketsMatch ==
    /\ \A x \in sent : x.intent \in Intents /\ dispatch[x.intent] = "dispatched"
    /\ \A x, y \in sent : x.intent = y.intent => x = y
    /\ \A i \in Intents : dispatch[i] = "dispatched" => \E x \in sent : x.intent = i

\* The key of a packet is used up, so that no other packet gets it.
KeysMatch ==
    /\ \A x \in sent : x.key = NoKey \/ (x.key \in Keys /\ keyState[x.key] = "used")
    /\ \A x, y \in sent : x # y => x.key # y.key \/ x.key = NoKey

\* A task with a message has a row, and cancellations are asked for first.
TaskExists ==
    /\ Asked # {} => task # "none"
    /\ cancel = "none" => \A m \in Messages : dispatch[Cancel(m)] = "none"

GatewayInv == GatewayTypes /\ PacketsMatch /\ KeysMatch /\ TaskExists /\ CancelSound

\* The two intents of a message differ.
LEMMA IntentFacts ==
    ASSUME NEW m \in Messages
    PROVE  /\ Request(m) \in Intents /\ Cancel(m) \in Intents
           /\ \A k \in Messages : Request(m) # Cancel(k)
           /\ \A k \in Messages : k # m => Request(m) # Request(k) /\ Cancel(m) # Cancel(k)
  BY DEF Request, Cancel, Intents

\* Every step of the gateway keeps the invariant.
LEMMA GatewayStep == GatewayInv /\ [GatewayNext]_gatewayVars => GatewayInv'
<1> SUFFICES ASSUME GatewayInv, [GatewayNext]_gatewayVars PROVE GatewayInv'
  OBVIOUS
<1> USE DEF GatewayInv
<1>1. ASSUME NEW m \in Messages, RegisterMessage(m) PROVE GatewayInv'
  <2>1. Request(m) \in Intents /\ dispatch[Request(m)] = "none"
    BY <1>1, IntentFacts DEF RegisterMessage, Asked
  <2>2. GatewayTypes' /\ TaskExists'
    BY <1>1, <2>1, IntentFacts DEF RegisterMessage, GatewayTypes, GatewayStates, TaskExists, keyVars, drainVars
  <2>3. PacketsMatch' /\ KeysMatch'
    BY <1>1, <2>1 DEF RegisterMessage, GatewayTypes, PacketsMatch, KeysMatch, keyVars
  <2>4. CancelSound'
    BY <1>1, <2>1
       DEF RegisterMessage, AcceptsMessage, CancelSound, TerminalStates
  <2>. QED  BY <2>2, <2>3, <2>4
<1>2. CASE RequestCancellation
  <2>1. \A i \in Intents : dispatch'[i] = "dispatched" <=> dispatch[i] = "dispatched"
    BY <1>2, IntentFacts DEF RequestCancellation, TaskExists, Asked, GatewayTypes
  <2>2. GatewayTypes' /\ TaskExists'
    BY <1>2 DEF RequestCancellation, GatewayTypes, TaskExists, keyVars, drainVars
  <2>3. PacketsMatch' /\ KeysMatch'
    BY <1>2, <2>1 DEF RequestCancellation, PacketsMatch, KeysMatch, keyVars
  <2>4. \A m \in Messages : dispatch'[Request(m)] = dispatch[Request(m)]
    BY <1>2, IntentFacts DEF RequestCancellation, Asked, GatewayTypes
  <2>5. \A m \in Asked : dispatch'[Cancel(m)] = "pending"
    BY <1>2, IntentFacts DEF RequestCancellation, Asked, GatewayTypes
  <2>6. Asked' = Asked
    BY <2>4 DEF Asked
  <2>7. CancelSound'
    BY <1>2, <2>5, <2>6 DEF RequestCancellation, CancelSound, TerminalStates
  <2>. QED  BY <2>2, <2>3, <2>7
<1>3. ASSUME NEW m \in Messages, NEW s \in Reports, AppendEvent(m, s) PROVE GatewayInv'
  <2>1. m \in Asked /\ task # "none"
    BY <1>3, IntentFacts DEF AppendEvent, Asked, TaskExists
  <2>2. task \notin TerminalStates /\ s \in GatewayStates \ {"none"}
    BY <1>3, <2>1
       DEF AppendEvent, Transitions, GatewayTypes, GatewayStates, WaitingStates, TerminalStates
  <2>3. GatewayTypes' /\ PacketsMatch' /\ KeysMatch' /\ TaskExists'
    BY <1>3, <2>2
       DEF AppendEvent, VerdictOnCancel, GatewayTypes, PacketsMatch, KeysMatch, TaskExists, Asked, rowVars,
           keyVars, drainVars
  <2>4. CancelSound'
    BY <1>3, <2>2 DEF AppendEvent, VerdictOnCancel, CancelSound, Asked, TerminalStates, rowVars
  <2>. QED  BY <2>3, <2>4
<1>4. ASSUME NEW w \in Drainers, NEW last \in Intents, ClaimDispatches(w, last) PROVE GatewayInv'
  <2> DEFINE got == {i \in Intents : Eligible(i) /\ place[i] <= place[last]}
  <2>1. \A i \in got : i \in Intents /\ dispatch[i] \in {"pending", "retry", "leased"}
    BY DEF Eligible
  <2>2. /\ dispatch' = [i \in Intents |-> IF i \in got THEN "leased" ELSE dispatch[i]]
        /\ tries' = [i \in Intents |-> IF i \in got THEN tries[i] + 1 ELSE tries[i]]
        /\ batch' = [batch EXCEPT ![w] =
              {[intent |-> i, token |-> tries[i] + 1, resv |-> resv[i]] : i \in got}]
        /\ UNCHANGED <<resv, keyState, sealedWith, sent, task, cancel>>
    BY <1>4 DEF ClaimDispatches, keyVars, taskVars
  <2> HIDE DEF got
  <2>3. \A i \in Intents : /\ dispatch'[i] = "dispatched" <=> dispatch[i] = "dispatched"
                           /\ dispatch'[i] = "none" <=> dispatch[i] = "none"
    BY <2>1, <2>2 DEF GatewayTypes
  <2>4. GatewayTypes'
    BY <2>1, <2>2 DEF GatewayTypes, Claims
  <2>5. PacketsMatch' /\ KeysMatch'
    BY <2>2, <2>3 DEF PacketsMatch, KeysMatch
  <2>6. Asked' = Asked
    BY <2>3, IntentFacts DEF Asked
  <2>7. TaskExists' /\ CancelSound'
    BY <2>2, <2>3, <2>6, IntentFacts DEF TaskExists, CancelSound, Asked
  <2>. QED  BY <2>4, <2>5, <2>7
<1>5. ASSUME NEW w \in Drainers, NEW c \in batch[w], ReserveAndSeal(w, c) PROVE GatewayInv'
  <2>1. /\ \A k \in Keys : keyState[k] = "used" => keyState'[k] = "used"
        /\ keyState' \in [Keys -> {"available", "reserved", "used", "burned"}]
        /\ sealedWith' \in [Drainers -> Keys \cup {NoKey}]
    <3> DEFINE fresh == {k \in Keys : keyState[k] = "available"}
    <3>1. fresh # {} => (CHOOSE k \in fresh : TRUE) \in fresh
      OBVIOUS
    <3>2. \/ UNCHANGED keyState
          \/ \E k \in fresh : keyState' = [keyState EXCEPT ![k] = "reserved"]
      BY <1>5, <3>1 DEF ReserveAndSeal, keyVars
    <3>3. \E k \in Keys \cup {NoKey} : sealedWith' = [sealedWith EXCEPT ![w] = k]
      BY <1>5, <3>1 DEF ReserveAndSeal, ReservedFor
    <3>. QED  BY <3>2, <3>3 DEF GatewayTypes
  <2>2. GatewayTypes' /\ KeysMatch'
    BY <1>5, <2>1 DEF ReserveAndSeal, GatewayTypes, KeysMatch, rowVars, taskVars
  <2>3. PacketsMatch' /\ TaskExists' /\ CancelSound'
    BY <1>5 DEF ReserveAndSeal, PacketsMatch, TaskExists, CancelSound, Asked, rowVars, taskVars
  <2>. QED  BY <2>2, <2>3
<1>6. ASSUME NEW w \in Drainers, NEW c \in batch[w], CommitPacket(w, c) PROVE GatewayInv'
  <2> DEFINE i == c.intent
             x == [intent |-> i, claim |-> tries[i], key |-> sealedWith[w]]
  <2>1. /\ i \in Intents /\ dispatch[i] = "leased" /\ sealedWith[w] \in Keys \cup {NoKey}
        /\ sealedWith[w] # NoKey => sealedWith[w] \in Keys /\ keyState[sealedWith[w]] = "reserved"
    BY <1>6 DEF CommitPacket, MayCommit, ClaimIsCurrent, ReservedFor, GatewayTypes, Claims
  <2>2. /\ keyState' = [k \in Keys |-> IF k = sealedWith[w] THEN "used" ELSE keyState[k]]
        /\ sent' = sent \cup {x}
        /\ dispatch' = [dispatch EXCEPT ![i] = "dispatched"]
        /\ cancel' = CancelAfter(i)
        /\ batch' = [batch EXCEPT ![w] = @ \ {c}]
        /\ sealedWith' = [sealedWith EXCEPT ![w] = NoKey]
        /\ UNCHANGED <<tries, resv, task>>
    BY <1>6 DEF CommitPacket, NextClaim
  <2>3. x.intent = i /\ x.key = sealedWith[w]
    OBVIOUS
  <2> HIDE DEF i, x
  <2>4. GatewayTypes'
    BY <2>1, <2>2 DEF GatewayTypes, CancelAfter
  <2>5. PacketsMatch'
    BY <2>1, <2>2, <2>3 DEF PacketsMatch, GatewayTypes
  <2>6. KeysMatch'
    <3>1. \A y \in sent : y.key = NoKey \/ (y.key \in Keys /\ keyState[y.key] = "used" /\ keyState'[y.key] = "used")
      BY <2>2 DEF KeysMatch
    <3>2. \A y \in sent : y.key = NoKey \/ y.key # x.key
      BY <2>1, <2>3, <3>1
    <3>3. x.key = NoKey \/ (x.key \in Keys /\ keyState'[x.key] = "used")
      BY <2>1, <2>2, <2>3
    <3>. QED  BY <2>2, <3>1, <3>2, <3>3 DEF KeysMatch
  <2>7. Asked' = Asked
    BY <2>1, <2>2, IntentFacts DEF Asked, GatewayTypes
  <2>8. TaskExists'
    BY <2>1, <2>2, <2>7, IntentFacts DEF TaskExists, CancelAfter, GatewayTypes
  <2>9. CancelSound'
    <3>1. ASSUME NEW m \in Asked, cancel # "none" PROVE dispatch'[Cancel(m)] # "none"
      BY <2>1, <2>2, <3>1, IntentFacts DEF CancelSound, GatewayTypes, Asked
    <3>2. ASSUME NEW m \in Asked, cancel' = "dispatched" PROVE dispatch'[Cancel(m)] = "dispatched"
      <4>1. Cancel(m) \in Intents /\ Cancel(m) \in Cancels
        BY IntentFacts DEF Asked, Cancels
      <4>2. CASE cancel = "dispatched"
        BY <2>1, <2>2, <4>1, <4>2 DEF CancelSound, GatewayTypes
      <4>3. CASE cancel # "dispatched"
        <5>1. cancel = "requested" /\ \A j \in Cancels \ {i} : dispatch[j] \in {"none", "dispatched"}
          BY <2>2, <3>2, <4>3 DEF CancelAfter
        <5>2. dispatch[Cancel(m)] # "none"
          BY <5>1 DEF CancelSound
        <5>. QED  BY <2>1, <2>2, <4>1, <5>1, <5>2 DEF GatewayTypes
      <4>. QED  BY <4>2, <4>3
    <3>3. cancel' # cancel => cancel = "requested" /\ cancel' = "dispatched"
      BY <2>2 DEF CancelAfter
    <3>4. /\ cancel' = "confirmed" <=> cancel' # "none" /\ task' = "canceled"
          /\ cancel' = "too_late" <=> cancel' # "none" /\ task' \in TerminalStates \ {"canceled"}
      BY <2>2, <3>3 DEF CancelSound
    <3>. QED  BY <2>7, <3>1, <3>2, <3>3, <3>4 DEF CancelSound
  <2>. QED  BY <2>4, <2>5, <2>6, <2>8, <2>9
<1>7. ASSUME NEW w \in Drainers, NEW c \in batch[w], RetryDispatch(w, c) PROVE GatewayInv'
  <2>1. c.intent \in Intents
    BY DEF GatewayTypes, Claims
  <2>2. /\ \A i \in Intents : /\ dispatch'[i] = "dispatched" <=> dispatch[i] = "dispatched"
                              /\ dispatch'[i] = "none" <=> dispatch[i] = "none"
        /\ \A k \in Keys : keyState[k] = "used" => keyState'[k] = "used"
    BY <1>7, <2>1 DEF RetryDispatch, ClaimIsCurrent, ReservedFor, GatewayTypes
  <2>3. GatewayTypes'
    BY <1>7, <2>1 DEF RetryDispatch, NextClaim, GatewayTypes, taskVars
  <2>4. PacketsMatch' /\ KeysMatch'
    BY <1>7, <2>2 DEF RetryDispatch, PacketsMatch, KeysMatch
  <2>5. Asked' = Asked
    BY <2>2, IntentFacts DEF Asked
  <2>6. TaskExists' /\ CancelSound'
    BY <1>7, <2>2, <2>5, IntentFacts DEF RetryDispatch, TaskExists, CancelSound, Asked, taskVars
  <2>. QED  BY <2>3, <2>4, <2>6
<1>8. ASSUME NEW w \in Drainers, NEW c \in batch[w], DispatchFails(w, c) PROVE GatewayInv'
  BY <1>8
     DEF DispatchFails, GatewayTypes, PacketsMatch, KeysMatch, TaskExists, CancelSound, Asked, rowVars,
         keyVars, taskVars
<1>9. ASSUME NEW w \in Drainers, DrainerDies(w) PROVE GatewayInv'
  BY <1>9
     DEF DrainerDies, GatewayTypes, PacketsMatch, KeysMatch, TaskExists, CancelSound, Asked, rowVars,
         keyVars, taskVars
<1>10. ASSUME NEW i \in Intents, LeaseEnds(i) PROVE GatewayInv'
  BY <1>10
     DEF LeaseEnds, GatewayTypes, PacketsMatch, KeysMatch, TaskExists, CancelSound, Asked, keyVars, taskVars
<1>11. CASE UNCHANGED gatewayVars
  BY <1>11
     DEF gatewayVars, GatewayTypes, PacketsMatch, KeysMatch, TaskExists, CancelSound, Asked, rowVars,
         keyVars, drainVars, taskVars
<1>. QED
  BY <1>1, <1>2, <1>3, <1>4, <1>5, <1>6, <1>7, <1>8, <1>9, <1>10, <1>11 DEF GatewayNext

\* The invariant holds in every reachable state of the gateway.
LEMMA GatewayInvariant == GatewaySpec => []GatewayInv
<1>1. GatewayInit => GatewayInv
  <2> SUFFICES ASSUME GatewayInit PROVE GatewayInv
    OBVIOUS
  <2>1. GatewayTypes
    BY DEF GatewayInit, GatewayTypes, GatewayStates
  <2>2. Asked = {} /\ \A m \in Messages : dispatch[Cancel(m)] = "none"
    BY IntentFacts DEF GatewayInit, Asked
  <2>3. PacketsMatch /\ KeysMatch /\ TaskExists /\ CancelSound
    BY <2>2 DEF GatewayInit, PacketsMatch, KeysMatch, TaskExists, CancelSound, TerminalStates
  <2>. QED  BY <2>1, <2>3 DEF GatewayInv
<1>. QED  BY <1>1, GatewayStep, PTL DEF GatewaySpec

\* Every intent is sent in exactly the one packet that its dispatched state
\* stands for, under a key of its own (commit_a2a_dispatch_packet,
\* retry_a2a_dispatch).
THEOREM GatewaySendsOnce == GatewaySpec => []OnePacketPerIntent
<1>1. GatewayInv => OnePacketPerIntent
  <2> SUFFICES ASSUME GatewayInv, NEW i \in Intents
               PROVE Cardinality({x \in sent : x.intent = i}) = IF dispatch[i] = "dispatched" THEN 1 ELSE 0
    BY DEF GatewayInv, KeysMatch, OnePacketPerIntent
  <2>1. CASE dispatch[i] = "dispatched"
    <3>1. PICK x \in sent : {y \in sent : y.intent = i} = {x}
      BY <2>1 DEF GatewayInv, PacketsMatch
    <3>. QED  BY <2>1, <3>1, FS_Singleton
  <2>2. CASE dispatch[i] # "dispatched"
    <3>1. {x \in sent : x.intent = i} = {}
      BY <2>2 DEF GatewayInv, PacketsMatch
    <3>. QED  BY <2>2, <3>1, FS_EmptySet
  <2>. QED  BY <2>1, <2>2
<1>. QED  BY <1>1, GatewayInvariant, PTL

\* The cancellation of a task covers all its messages and agrees with the
\* state of the task (request_a2a_task_cancellation, append_a2a_task_events).
THEOREM GatewayCancels == GatewaySpec => []CancelSound
  BY GatewayInvariant, PTL DEF GatewayInv

-----------------------------------------------------------------------------
(* The publication at an Ahub.                                             *)

\* Objects that may still reach the Ahub.
Circulating == {cached} \cup {hand[w] : w \in Workers} \cup late

\* A record was signed on top of the checkpoint of its time, and checkpoints
\* only grow.
RecordsAreChained ==
    \A o \in Circulating : o.kind = "reachability" =>
        o.prev < o.id /\ o.prev <= checkpoint.id /\ o.id <= issued

\* The Ahub is at the checkpoint, or one record beyond it.
HubIsClose ==
    /\ checkpoint.id <= issued
    /\ \/ hubReach.id = checkpoint.id
       \/ hubReach.prev = checkpoint.id /\ hubReach.prev < hubReach.id

\* A worker about to commit holds what the Ahub has, or nothing new.
CommitsArePublished ==
    /\ cached.id > 0 => cached.kind = "reachability"
    /\ descFile.kind # "reachability"
    /\ \A w \in Workers :
          /\ step[w] = "save" => hand[w].kind # "reachability"
          /\ step[w] \in {"reachability", "commit"} => hand[w].kind = "reachability"
          /\ step[w] = "commit" => hubReach.id = hand[w].id \/ hand[w].prev < checkpoint.id

PubInv == PubTypeOK /\ RecordsAreChained /\ HubIsClose /\ CommitsArePublished

\* What the fields of control objects are.
LEMMA ObjectFacts ==
    /\ Genesis \in ObjectType
    /\ \A o \in ObjectType : o.id \in Nat /\ o.prev \in Nat /\ o.seq \in Nat /\ o.kind \in Kinds
    /\ \A id, input \in Nat, p, d \in ObjectType :
          /\ IssueNodeDescriptor(id, p, input) \in ObjectType
          /\ IssueReachabilityRecord(id, p, d, input) \in ObjectType
  BY DEF Genesis, ObjectType, Kinds, IssueNodeDescriptor, IssueReachabilityRecord

\* Whatever object in circulation the Ahub handles, it stays close to the
\* checkpoint, and commits under way stay published.
LEMMA HandleKeeps ==
    ASSUME PubInv, NEW o \in Circulating, Handle(o), UNCHANGED <<checkpoint, issued>>
    PROVE  /\ HubIsClose' /\ {hubDesc', hubReach'} \subseteq ObjectType
           /\ \A w \in Workers : step[w] = "commit" =>
                 hubReach'.id = hand[w].id \/ hand[w].prev < checkpoint.id
<1>1. /\ o \in ObjectType /\ \A w \in Workers : hand[w] \in ObjectType
      /\ {hubDesc, hubReach, checkpoint} \subseteq ObjectType
  BY DEF PubInv, PubTypeOK, Circulating
<1>2. /\ hubReach.id \in Nat /\ hubReach.prev \in Nat /\ checkpoint.id \in Nat
      /\ o.id \in Nat /\ o.prev \in Nat
      /\ \A w \in Workers : hand[w].id \in Nat /\ hand[w].prev \in Nat
  BY <1>1, ObjectFacts
<1>3. CASE UNCHANGED hubReach
  BY <1>1, <1>3 DEF PubInv, Handle, Advance, HubIsClose, CommitsArePublished
<1>4. CASE hubReach' # hubReach
  <2>1. /\ o.kind = "reachability" /\ hubReach' = o /\ o.prev = hubReach.id /\ UNCHANGED hubDesc
    BY <1>4 DEF Handle, Advance, Follows
  <2>2. o.prev < o.id /\ o.prev <= checkpoint.id
    BY <2>1 DEF PubInv, RecordsAreChained
  <2>3. hubReach.id = checkpoint.id
    BY <1>2, <2>1, <2>2 DEF PubInv, HubIsClose
  <2>4. HubIsClose'
    BY <1>2, <2>1, <2>2, <2>3 DEF PubInv, HubIsClose
  <2>5. ASSUME NEW w \in Workers, step[w] = "commit" PROVE hand[w].prev < checkpoint.id
    <3>1. hand[w].prev < hand[w].id
      BY <2>5 DEF PubInv, RecordsAreChained, CommitsArePublished, Circulating
    <3>. QED  BY <1>2, <2>3, <2>5, <3>1 DEF PubInv, CommitsArePublished
  <2>. QED  BY <1>1, <2>1, <2>4, <2>5
<1>. QED  BY <1>3, <1>4

\* A worker goes on with another object: an old one, or one signed on top of
\* the checkpoint.
WorkerMoved(w, s, o) ==
    /\ step' \in [Workers -> {"idle", "save", "descriptor", "prepare", "reachability", "commit"}]
    /\ hand' \in [Workers -> ObjectType]
    /\ \A v \in Workers \ {w} : step'[v] = step[v] /\ hand'[v] = hand[v]
    /\ step'[w] = s /\ hand'[w] = o
    /\ RecordsAreChained'

\* A worker that goes on with an object of its own chain moves like that.
LEMMA WorkerMoves ==
    ASSUME PubInv, NEW w \in Workers, NEW o \in ObjectType,
           NEW s \in {"idle", "save", "descriptor", "prepare", "reachability", "commit"},
           GoTo(w, s, o), issued' \in Nat, issued <= issued',
           cached' \in {cached, o}, late' = late, checkpoint' = checkpoint,
           o.kind = "reachability" => o.prev < o.id /\ o.prev <= checkpoint.id /\ o.id <= issued'
    PROVE  WorkerMoved(w, s, o)
<1>1. /\ step' \in [Workers -> {"idle", "save", "descriptor", "prepare", "reachability", "commit"}]
      /\ hand' \in [Workers -> ObjectType]
      /\ \A v \in Workers \ {w} : step'[v] = step[v] /\ hand'[v] = hand[v]
      /\ step'[w] = s /\ hand'[w] = o
  BY DEF GoTo, PubInv, PubTypeOK
<1>2. Circulating' \subseteq Circulating \cup {o}
  BY <1>1 DEF Circulating
<1>3. issued \in Nat /\ \A x \in Circulating : x.id \in Nat
  BY ObjectFacts DEF PubInv, PubTypeOK, Circulating
<1>4. RecordsAreChained'
  BY <1>2, <1>3 DEF PubInv, RecordsAreChained
<1>. QED  BY <1>1, <1>4 DEF WorkerMoved

\* Every step of the publication keeps the invariant.
LEMMA PubStep == PubInv /\ [PubNext]_pubVars => PubInv'
<1> SUFFICES ASSUME PubInv, [PubNext]_pubVars PROVE PubInv'
  OBVIOUS
<1> USE PublicationAssumption
<1>1. /\ Genesis \in ObjectType /\ Genesis.kind = "none" /\ Genesis.id = 0
      /\ \A w \in Workers : hand[w] \in ObjectType
      /\ {descFile, checkpoint, cached, hubDesc, hubReach} \subseteq ObjectType
      /\ late \subseteq ObjectType
  BY ObjectFacts DEF PubInv, PubTypeOK, Genesis
<1>2. /\ checkpoint.id \in Nat /\ checkpoint.prev \in Nat /\ issued \in Nat /\ cached.id \in Nat
      /\ \A o \in Circulating : o \in ObjectType /\ o.id \in Nat /\ o.prev \in Nat
      /\ \A w \in Workers : hand[w] \in Circulating
  BY <1>1, ObjectFacts DEF PubInv, PubTypeOK, Circulating
<1>3. \A o \in Circulating : o.kind = "reachability" => o.prev < o.id /\ o.prev <= checkpoint.id /\ o.id <= issued
  BY DEF PubInv, RecordsAreChained
<1>4. ASSUME NEW w \in Workers, CurrentNodeDescriptor(w) PROVE PubInv'
  <2>1. UNCHANGED <<configuration, nodeFiles, process, hub, late, timeouts>>
    BY <1>4 DEF CurrentNodeDescriptor
  <2>2. \E o \in ObjectType, s \in {"save", "descriptor"} :
           GoTo(w, s, o) /\ o.kind # "reachability" /\ issued' \in Nat /\ issued <= issued'
    <3>1. CASE GoTo(w, "descriptor", descFile) /\ UNCHANGED issued
      BY <1>1, <1>2, <3>1 DEF PubInv, CommitsArePublished
    <3>2. CASE /\ GoTo(w, "save", IssueNodeDescriptor(issued + 1, descFile, caps))
               /\ issued' = issued + 1
      <4> DEFINE id == issued + 1
      <4>0. id \in Nat /\ caps \in Nat
        BY <1>2 DEF PubInv, PubTypeOK
      <4> HIDE DEF id
      <4>1. IssueNodeDescriptor(id, descFile, caps) \in ObjectType
        BY <1>1, <4>0, ObjectFacts
      <4>2. IssueNodeDescriptor(id, descFile, caps).kind = "descriptor"
        BY DEF IssueNodeDescriptor
      <4>. QED  BY <1>2, <3>2, <4>1, <4>2 DEF id
    <3>. QED  BY <1>4, <3>1, <3>2 DEF CurrentNodeDescriptor
  <2>3. PICK o \in ObjectType, s \in {"save", "descriptor"} :
           GoTo(w, s, o) /\ o.kind # "reachability" /\ issued' \in Nat /\ issued <= issued'
    BY <2>2
  <2>4. WorkerMoved(w, s, o)
    BY <2>1, <2>3, WorkerMoves DEF nodeFiles, process
  <2>5. PubTypeOK'
    BY <1>1, <2>1, <2>3, <2>4
       DEF PubInv, PubTypeOK, WorkerMoved, configuration, nodeFiles, process, hub
  <2>6. HubIsClose' /\ CommitsArePublished'
    BY <1>2, <2>1, <2>3, <2>4
       DEF PubInv, HubIsClose, CommitsArePublished, WorkerMoved, nodeFiles, process, hub
  <2>. QED  BY <2>4, <2>5, <2>6 DEF PubInv, WorkerMoved
<1>5. ASSUME NEW w \in Workers, SaveDescriptor(w) PROVE PubInv'
  <2>1. /\ descFile' = hand[w] /\ GoTo(w, "descriptor", hand[w])
        /\ UNCHANGED <<configuration, issued, checkpoint, process, hub, late, timeouts>>
        /\ hand[w].kind # "reachability"
    BY <1>5 DEF SaveDescriptor, PubInv, CommitsArePublished
  <2>2. WorkerMoved(w, "descriptor", hand[w])
    BY <1>1, <1>2, <2>1, WorkerMoves DEF process
  <2>3. PubTypeOK'
    BY <1>1, <2>1, <2>2 DEF PubInv, PubTypeOK, WorkerMoved, configuration, process, hub
  <2>4. HubIsClose' /\ CommitsArePublished'
    BY <2>1, <2>2 DEF PubInv, HubIsClose, CommitsArePublished, WorkerMoved, process, hub
  <2>. QED  BY <2>2, <2>3, <2>4 DEF PubInv, WorkerMoved
<1>6. ASSUME NEW w \in Workers, PublishDescriptor(w) PROVE PubInv'
  <2>1. Handle(hand[w]) /\ UNCHANGED <<configuration, issued, nodeFiles, process, late, timeouts>>
    BY <1>6 DEF PublishDescriptor
  <2>2. PICK s \in {"idle", "prepare"}, o \in {hand[w], Genesis} : GoTo(w, s, o)
    BY <1>6 DEF PublishDescriptor, AfterDescriptor, Done
  <2>3. WorkerMoved(w, s, o)
    BY <1>1, <1>2, <1>3, <2>1, <2>2, WorkerMoves DEF nodeFiles, process
  <2>4. /\ HubIsClose' /\ {hubDesc', hubReach'} \subseteq ObjectType
        /\ \A v \in Workers : step[v] = "commit" =>
              hubReach'.id = hand[v].id \/ hand[v].prev < checkpoint.id
    BY <1>2, <2>1, HandleKeeps DEF nodeFiles
  <2>5. PubTypeOK'
    BY <1>1, <2>1, <2>3, <2>4
       DEF PubInv, PubTypeOK, WorkerMoved, configuration, nodeFiles, process
  <2>6. CommitsArePublished'
    BY <2>1, <2>2, <2>3, <2>4
       DEF PubInv, CommitsArePublished, WorkerMoved, nodeFiles, process
  <2>. QED  BY <2>3, <2>4, <2>5, <2>6 DEF PubInv, WorkerMoved
<1>7. ASSUME NEW w \in Workers, CurrentNodeReachability(w) PROVE PubInv'
  <2>1. UNCHANGED <<configuration, nodeFiles, session, hub, late, timeouts>>
    BY <1>7 DEF CurrentNodeReachability
  <2>2. \E o \in ObjectType :
           /\ GoTo(w, "reachability", o) /\ cached' = o /\ o.kind = "reachability"
           /\ issued' \in Nat /\ issued <= issued'
           /\ o.prev < o.id /\ o.prev <= checkpoint.id /\ o.id <= issued'
    <3>1. CASE CachedIsCurrent(hand[w]) /\ GoTo(w, "reachability", cached) /\ UNCHANGED <<issued, cached>>
      <4>1. cached \in Circulating /\ cached.kind = "reachability"
        BY <3>1 DEF CachedIsCurrent, PubInv, CommitsArePublished, Circulating
      <4>. QED  BY <1>2, <1>3, <3>1, <4>1
    <3>2. CASE /\ issued' = issued + 1
               /\ cached' = IssueReachabilityRecord(issued + 1, checkpoint, hand[w], caps + addrs)
               /\ GoTo(w, "reachability", cached')
      <4> DEFINE id == issued + 1
                 input == caps + addrs
      <4>0. id \in Nat /\ input \in Nat
        BY <1>2 DEF PubInv, PubTypeOK
      <4> HIDE DEF id, input
      <4>1. IssueReachabilityRecord(id, checkpoint, hand[w], input) \in ObjectType
        BY <1>1, <4>0, ObjectFacts
      <4>2. cached'.id = issued + 1 /\ cached'.prev = checkpoint.id /\ cached'.kind = "reachability"
        BY <3>2 DEF IssueReachabilityRecord
      <4>3. checkpoint.id <= issued
        BY DEF PubInv, HubIsClose
      <4>. QED  BY <1>2, <3>2, <4>1, <4>2, <4>3 DEF id, input
    <3>. QED  BY <1>7, <3>1, <3>2 DEF CurrentNodeReachability
  <2>3. PICK o \in ObjectType :
           /\ GoTo(w, "reachability", o) /\ cached' = o /\ o.kind = "reachability"
           /\ issued' \in Nat /\ issued <= issued'
           /\ o.prev < o.id /\ o.prev <= checkpoint.id /\ o.id <= issued'
    BY <2>2
  <2>4. WorkerMoved(w, "reachability", o)
    BY <2>1, <2>3, WorkerMoves DEF nodeFiles
  <2>5. PubTypeOK'
    BY <1>1, <2>1, <2>3, <2>4
       DEF PubInv, PubTypeOK, WorkerMoved, configuration, nodeFiles, hub
  <2>6. HubIsClose' /\ CommitsArePublished'
    BY <1>2, <2>1, <2>3, <2>4
       DEF PubInv, HubIsClose, CommitsArePublished, WorkerMoved, nodeFiles, hub
  <2>. QED  BY <2>4, <2>5, <2>6 DEF PubInv, WorkerMoved
<1>8. ASSUME NEW w \in Workers, PublishReachability(w) PROVE PubInv'
  <2>1. /\ Handle(hand[w]) /\ UNCHANGED <<configuration, issued, nodeFiles, process, late, timeouts>>
        /\ hand[w].kind = "reachability"
    BY <1>8 DEF PublishReachability, PubInv, CommitsArePublished
  <2>2. PICK s \in {"idle", "commit"}, o \in {hand[w], Genesis} :
           /\ GoTo(w, s, o)
           /\ s = "commit" => o = hand[w] /\ ReachabilityAccepted(hand[w])
    BY <1>8 DEF PublishReachability, Done
  <2>3. WorkerMoved(w, s, o)
    BY <1>1, <1>2, <1>3, <2>1, <2>2, WorkerMoves DEF nodeFiles, process
  <2>4. /\ HubIsClose' /\ {hubDesc', hubReach'} \subseteq ObjectType
        /\ \A v \in Workers : step[v] = "commit" =>
              hubReach'.id = hand[v].id \/ hand[v].prev < checkpoint.id
    BY <1>2, <2>1, HandleKeeps DEF nodeFiles
  <2>5. PubTypeOK'
    BY <1>1, <2>1, <2>3, <2>4
       DEF PubInv, PubTypeOK, WorkerMoved, configuration, nodeFiles, process
  <2>6. s = "commit" => hubReach'.id = hand[w].id
    BY <2>1, <2>2 DEF Handle, Advance, ReachabilityAccepted, Accepted, Duplicate
  <2>7. CommitsArePublished'
    BY <2>1, <2>2, <2>3, <2>4, <2>6
       DEF PubInv, CommitsArePublished, WorkerMoved, nodeFiles, process
  <2>. QED  BY <2>3, <2>4, <2>5, <2>7 DEF PubInv, WorkerMoved
<1>9. ASSUME NEW w \in Workers, CommitNodeReachability(w) PROVE PubInv'
  <2>1. /\ checkpoint' = Advance(checkpoint, hand[w]) /\ GoTo(w, "idle", Genesis)
        /\ UNCHANGED <<configuration, issued, descFile, process, hub, late, timeouts>>
        /\ hand[w].kind = "reachability"
        /\ hubReach.id = hand[w].id \/ hand[w].prev < checkpoint.id
    BY <1>9 DEF CommitNodeReachability, Done, PubInv, CommitsArePublished
  <2>2. /\ hand[w].prev < hand[w].id /\ hand[w].id <= issued
        /\ hand[w].id \in Nat /\ hand[w].prev \in Nat
    BY <1>2, <1>3, <2>1
  <2>3. /\ checkpoint' \in ObjectType /\ checkpoint.id <= checkpoint'.id /\ checkpoint'.id <= issued
        /\ checkpoint' = checkpoint \/ checkpoint'.id = hubReach.id
    BY <1>1, <1>2, <2>1, <2>2 DEF Advance, Follows, PubInv, HubIsClose
  <2>4. HubIsClose'
    BY <2>1, <2>3 DEF PubInv, HubIsClose, hub
  <2>5. /\ step' \in [Workers -> {"idle", "save", "descriptor", "prepare", "reachability", "commit"}]
        /\ hand' \in [Workers -> ObjectType]
        /\ \A v \in Workers \ {w} : step'[v] = step[v] /\ hand'[v] = hand[v]
        /\ step'[w] = "idle" /\ hand'[w] = Genesis
    BY <1>1, <2>1 DEF GoTo, PubInv, PubTypeOK
  <2>6. PubTypeOK'
    BY <1>1, <2>1, <2>3, <2>5
       DEF PubInv, PubTypeOK, configuration, process, hub
  <2>7. Circulating' \subseteq Circulating \cup {Genesis}
    BY <2>1, <2>5 DEF Circulating, process
  <2>8. checkpoint'.id \in Nat
    BY <2>3, ObjectFacts
  <2>9. RecordsAreChained'
    BY <1>1, <1>2, <1>3, <2>1, <2>3, <2>7, <2>8 DEF RecordsAreChained
  <2>10. \A v \in Workers : hand[v].prev \in Nat
    BY <1>2
  <2>11. CommitsArePublished'
    BY <1>1, <1>2, <2>1, <2>3, <2>5, <2>8, <2>10 DEF PubInv, CommitsArePublished, process, hub
  <2>. QED  BY <2>4, <2>6, <2>9, <2>11 DEF PubInv
<1>10. ASSUME NEW w \in Workers, RequestTimesOut(w) PROVE PubInv'
  <2>1. /\ GoTo(w, "idle", Genesis) /\ late' = late \cup {hand[w]} /\ timeouts' = timeouts + 1
        /\ UNCHANGED <<configuration, issued, nodeFiles, process, hub>>
    BY <1>10 DEF RequestTimesOut, Done
  <2>2. /\ step' \in [Workers -> {"idle", "save", "descriptor", "prepare", "reachability", "commit"}]
        /\ hand' \in [Workers -> ObjectType]
        /\ \A v \in Workers \ {w} : step'[v] = step[v] /\ hand'[v] = hand[v]
        /\ step'[w] = "idle" /\ hand'[w] = Genesis
    BY <1>1, <2>1 DEF GoTo, PubInv, PubTypeOK
  <2>3. Circulating' \subseteq Circulating \cup {Genesis}
    BY <1>2, <2>1, <2>2 DEF Circulating, process
  <2>4. PubTypeOK'
    BY <1>1, <2>1, <2>2
       DEF PubInv, PubTypeOK, configuration, nodeFiles, process, hub
  <2>5. RecordsAreChained'
    BY <1>1, <1>3, <2>1, <2>3 DEF RecordsAreChained, nodeFiles
  <2>6. HubIsClose' /\ CommitsArePublished'
    BY <2>1, <2>2 DEF PubInv, HubIsClose, CommitsArePublished, nodeFiles, process, hub
  <2>. QED  BY <2>4, <2>5, <2>6 DEF PubInv
<1>11. ASSUME NEW o \in late, LateRequest(o) PROVE PubInv'
  <2>1. /\ o \in Circulating /\ Handle(o) /\ late' = late \ {o}
        /\ UNCHANGED <<configuration, issued, nodeFiles, process, workers, timeouts>>
    BY <1>11 DEF LateRequest, Circulating
  <2>2. /\ HubIsClose' /\ {hubDesc', hubReach'} \subseteq ObjectType
        /\ \A v \in Workers : step[v] = "commit" =>
              hubReach'.id = hand[v].id \/ hand[v].prev < checkpoint.id
    BY <2>1, HandleKeeps DEF nodeFiles
  <2>3. PubTypeOK'
    BY <1>1, <2>1, <2>2
       DEF PubInv, PubTypeOK, configuration, nodeFiles, process, workers
  <2>4. RecordsAreChained' /\ CommitsArePublished'
    BY <2>1, <2>2
       DEF PubInv, RecordsAreChained, CommitsArePublished, Circulating, nodeFiles, process, workers
  <2>. QED  BY <2>2, <2>3, <2>4 DEF PubInv
<1>12. CASE ChangeCapabilities \/ ChangeAddresses
  BY <1>12
     DEF ChangeCapabilities, ChangeAddresses, PubInv, PubTypeOK, RecordsAreChained, Circulating, HubIsClose,
         CommitsArePublished, nodeFiles, process, workers, hub
<1>13. CASE Start
  <2>1. /\ cached' = Genesis /\ session' = session + 1
        /\ step' = [w \in Workers |-> "idle"] /\ hand' = [w \in Workers |-> Genesis]
        /\ UNCHANGED <<configuration, issued, nodeFiles, hub, late, timeouts>>
    BY <1>13 DEF Start
  <2>2. PubTypeOK'
    BY <1>1, <2>1 DEF PubInv, PubTypeOK, configuration, nodeFiles, hub
  <2>3. Circulating' \subseteq Circulating \cup {Genesis}
    BY <2>1 DEF Circulating
  <2>4. RecordsAreChained'
    BY <1>1, <1>3, <2>1, <2>3 DEF RecordsAreChained, nodeFiles
  <2>5. HubIsClose' /\ CommitsArePublished'
    BY <1>1, <2>1 DEF PubInv, HubIsClose, CommitsArePublished, nodeFiles, hub
  <2>. QED  BY <2>2, <2>4, <2>5 DEF PubInv
<1>14. CASE UNCHANGED pubVars
  BY <1>14
     DEF pubVars, PubInv, PubTypeOK, RecordsAreChained, Circulating, HubIsClose,
         CommitsArePublished, configuration, nodeFiles, process, workers, hub
<1>. QED  BY <1>4, <1>5, <1>6, <1>7, <1>8, <1>9, <1>10, <1>11, <1>12, <1>13, <1>14 DEF PubNext, Work

\* Time-outs, late requests, changes of the configuration and restarts never
\* let the checkpoint of the node run ahead of the Ahub, nor fall two records
\* behind it (commit_node_reachability, publish_reachability).
THEOREM CheckpointPublished == PubSpec => []CheckpointIsPublished
<1>1. PubInit => PubInv
  <2> SUFFICES ASSUME PubInit PROVE PubInv
    OBVIOUS
  <2>1. Genesis \in ObjectType /\ Genesis.kind = "none" /\ Genesis.id = 0
    BY ObjectFacts DEF Genesis
  <2>2. PubTypeOK
    BY <2>1 DEF PubInit, PubTypeOK
  <2>3. \A o \in Circulating : o = Genesis
    BY DEF PubInit, Circulating
  <2>4. RecordsAreChained /\ HubIsClose /\ CommitsArePublished
    BY <2>1, <2>3 DEF PubInit, RecordsAreChained, HubIsClose, CommitsArePublished
  <2>. QED  BY <2>2, <2>4 DEF PubInv
<1>2. PubInv => CheckpointIsPublished
  BY DEF PubInv, HubIsClose, CheckpointIsPublished
<1>. QED  BY <1>1, <1>2, PubStep, PTL DEF PubSpec
=============================================================================
