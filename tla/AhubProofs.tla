----------------------------- MODULE AhubProofs -----------------------------
(***************************************************************************)
(* Proofs about an Ahub, for any number of nodes, packets, connections and *)
(* faults: its mailbox keeps what it gave a receipt for, its relay books   *)
(* exactly the sessions there are, and its rate limiter keeps its promises *)
(* for any rate, burst and table size.                                     *)
(***************************************************************************)
EXTENDS AhubMailbox, AhubRelay, AhubFront, FiniteSetTheorems, TLAPS

-----------------------------------------------------------------------------
(* The mailbox.                                                            *)

MailboxTypes ==
    /\ box \in [Packets -> Nodes \cup {None}] /\ settled \in [Packets -> Nodes \cup {None}]
    /\ receipts \subseteq Copies /\ path \in [Copies -> {"sent", "custodied", "acked"}]
    /\ got \in [Packets -> {"no", "rejected", "accepted"}]

\* What a pass may settle, what is settled and what an uploader saw settled was
\* taken in.
SettledWasTaken ==
    /\ \A p \in taken : got[p] # "no"
    /\ \A p \in Packets : settled[p] # None => got[p] # "no"
    /\ \A c \in Copies : path[c] = "acked" => got[c[1]] # "no"

\* A packet has one row: in the mailbox or, instead of it, among the settlements.
OneRow == \A p \in Packets : box[p] = None \/ settled[p] = None

ReceiptsAreCovered ==
    \A c \in Copies :
        (path[c] = "custodied" \/ c \in receipts) /\ c[1] \notin expired
            => box[c[1]] # None \/ settled[c[1]] # None

MailboxInv ==
    MailboxTypes /\ taken \subseteq Packets /\ SettledWasTaken /\ OneRow /\ ReceiptsAreCovered

\* Lost answers, repeated uploads by several holders, lapsed claims and deaths
\* in the middle of a pass never leave a receipt without its packet, nor show a
\* settlement for a packet the destination does not have (submit, claim, settle,
\* sync_ahub_once).
THEOREM MailboxKeepsCustody == MailboxSpec => []CustodyKept
<1> USE MailboxAssumption
<1>1. MailboxInit => MailboxInv
  BY DEF MailboxInit, MailboxInv, MailboxTypes, SettledWasTaken, OneRow, ReceiptsAreCovered
<1>2. MailboxInv /\ [MailboxNext]_mailboxVars => MailboxInv'
  <2> SUFFICES ASSUME MailboxInv, [MailboxNext]_mailboxVars PROVE MailboxInv'
    OBVIOUS
  <2> USE DEF MailboxInv
  <2>1. ASSUME UNCHANGED <<box, settled, receipts, path, got, taken, expired>> PROVE MailboxInv'
    BY <2>1 DEF MailboxTypes, SettledWasTaken, OneRow, ReceiptsAreCovered
  <2>2. ASSUME NEW n \in Nodes, AllowNode(n) \/ DisallowNode(n) PROVE MailboxInv'
    BY <2>1, <2>2 DEF AllowNode, DisallowNode, uploader, destination, environment
  <2>3. ASSUME NEW n \in Nodes, DestinationDies(n) PROVE MailboxInv'
    BY <2>3
       DEF DestinationDies, hub, uploader, MailboxTypes, SettledWasTaken, OneRow, ReceiptsAreCovered
  <2>4. ASSUME NEW p \in Packets, Claim(p) \/ Lapse(p) PROVE MailboxInv'
    BY <2>1, <2>4 DEF Claim, Lapse, uploader, destination
  <2>5. ASSUME NEW p \in Packets, AcceptClaim(p) PROVE MailboxInv'
    <3>1. /\ UNCHANGED <<box, settled, receipts, path, expired>>
          /\ got' \in [Packets -> {"no", "rejected", "accepted"}]
      BY <2>5 DEF AcceptClaim, hub, uploader, environment, MailboxTypes
    <3>2. \A q \in Packets : got[q] # "no" => got'[q] # "no"
      BY <2>5 DEF AcceptClaim, MailboxTypes
    <3>3. taken' \subseteq Packets /\ \A q \in taken' : got'[q] # "no"
      BY <2>5, <3>2 DEF AcceptClaim, MailboxTypes, SettledWasTaken, Refused
    <3>4. \A c \in Copies : c[1] \in Packets
      BY DEF Copies
    <3>. QED
      BY <3>1, <3>2, <3>3, <3>4 DEF MailboxTypes, SettledWasTaken, OneRow, ReceiptsAreCovered
  <2>6. ASSUME NEW p \in Packets, SettleClaim(p) PROVE MailboxInv'
    <3>1. UNCHANGED <<receipts, path, got, expired>> /\ taken' = taken \ {p} /\ p \in taken
      BY <2>6 DEF SettleClaim, uploader, environment, Ready
    <3>2. CASE UNCHANGED <<settled, box>>
      BY <3>1, <3>2 DEF MailboxTypes, SettledWasTaken, OneRow, ReceiptsAreCovered
    <3>3. CASE /\ settled' = [settled EXCEPT ![p] = box[p]] /\ box' = [box EXCEPT ![p] = None]
               /\ box[p] # None
      BY <3>1, <3>3 DEF MailboxTypes, SettledWasTaken, OneRow, ReceiptsAreCovered
    <3>. QED  BY <2>6, <3>2, <3>3 DEF SettleClaim, Proof, ClaimHolds
  <2>7. ASSUME NEW p \in Packets, Expire(p) PROVE MailboxInv'
    <3>1. /\ box' = [box EXCEPT ![p] = None] /\ settled' = [settled EXCEPT ![p] = None]
          /\ expired' = expired \cup {p} /\ UNCHANGED <<receipts, path, got, taken>>
      BY <2>7 DEF Expire, uploader, destination
    <3>2. \A c \in Copies : c[1] \in Packets
      BY DEF Copies
    <3>. QED  BY <3>1, <3>2 DEF MailboxTypes, SettledWasTaken, OneRow, ReceiptsAreCovered
  <2>8. ASSUME NEW c \in Copies, Submit(c[1], c[2]) PROVE MailboxInv'
    <3>1. c = <<c[1], c[2]>> /\ c[1] \in Packets /\ c[2] \in Nodes /\ \A d \in Copies : d[1] \in Packets
      BY DEF Copies
    <3>2. receipts' = receipts \cup {c} /\ UNCHANGED <<settled, path, got, taken, expired>>
      BY <2>8, <3>1 DEF Submit, destination, environment
    <3>3. CASE box' = box /\ (box[c[1]] # None \/ settled[c[1]] # None)
      BY <3>1, <3>2, <3>3 DEF MailboxTypes, SettledWasTaken, OneRow, ReceiptsAreCovered
    <3>4. CASE box' = [box EXCEPT ![c[1]] = c[2]] /\ settled[c[1]] = None
      BY <3>1, <3>2, <3>4 DEF MailboxTypes, SettledWasTaken, OneRow, ReceiptsAreCovered
    <3>. QED  BY <2>8, <3>1, <3>3, <3>4 DEF Submit, SettledFor, MailboxTypes
  <2>9. ASSUME NEW c \in Copies, TakeReceipt(c[1], c[2]) PROVE MailboxInv'
    <3>1. c = <<c[1], c[2]>> /\ \A d \in Copies : d[1] \in Packets
      BY DEF Copies
    <3>2. /\ c \in receipts /\ receipts' = receipts \ {c} /\ UNCHANGED <<box, settled, got, taken, expired>>
          /\ path' = [path EXCEPT ![c] = IF @ = "acked" THEN "acked" ELSE "custodied"]
      BY <2>9, <3>1 DEF TakeReceipt, Custodied, hub, destination, environment
    <3>. QED  BY <3>1, <3>2 DEF MailboxTypes, SettledWasTaken, OneRow, ReceiptsAreCovered
  <2>10. ASSUME NEW c \in Copies, LoseReceipt(c[1], c[2]) PROVE MailboxInv'
    BY <2>10 DEF LoseReceipt, hub, destination, MailboxTypes, SettledWasTaken, OneRow, ReceiptsAreCovered
  <2>11. ASSUME NEW c \in Copies, PullSettlement(c[1], c[2]) PROVE MailboxInv'
    <3>1. c = <<c[1], c[2]>> /\ c[1] \in Packets /\ c[2] \in Nodes
      BY DEF Copies
    <3>2. /\ settled[c[1]] # None /\ path' = [path EXCEPT ![c] = "acked"]
          /\ UNCHANGED <<box, settled, receipts, got, taken, expired>>
      BY <2>11, <3>1 DEF PullSettlement, Record, hub, destination, environment
    <3>. QED  BY <3>1, <3>2 DEF MailboxTypes, SettledWasTaken, OneRow, ReceiptsAreCovered
  <2>12. ASSUME NEW c \in Copies, AcknowledgeSettlement(c[1], c[2]) PROVE MailboxInv'
    BY <2>1, <2>12 DEF AcknowledgeSettlement, uploader, destination, environment
  <2>13. CASE UNCHANGED mailboxVars
    BY <2>1, <2>13 DEF mailboxVars, hub, uploader, destination, environment
  <2>. QED
    BY <2>2, <2>3, <2>4, <2>5, <2>6, <2>7, <2>8, <2>9, <2>10, <2>11, <2>12, <2>13
       DEF MailboxNext, Pass, Pull
<1>3. MailboxInv => CustodyKept
  <2>1. \A c \in Copies : c[1] \in Packets
    BY DEF Copies
  <2>. QED  BY <2>1 DEF MailboxInv, SettledWasTaken, OneRow, ReceiptsAreCovered, CustodyKept
<1>. QED  BY <1>1, <1>2, <1>3, PTL DEF MailboxSpec

-----------------------------------------------------------------------------
(* The live relay.                                                         *)

Sessions == {s \in Sides : peer[s] \in {"session", "closing"}}
SessionsOf(n) == {s \in Sessions : n \in {s[1][1], s[1][2]}}

RelayInv ==
    /\ peer \in [Sides -> {"idle", "authorized", "session", "closing", "gone"}]
    /\ peerId \in [Sides -> Nat] /\ row \in [Pairs -> Nat] /\ lastId \in [Pairs -> Nat]
    /\ load \in [RelayNodes -> Nat]
    /\ IsFiniteSet(Sessions)
    /\ SessionsAreExact

\* However the ends of a reservation reconnect, and although a connection acts
\* on a reservation it read before an await, the relay pairs it once and books
\* every session at both nodes until it ends (_wait_as_owner, _join_as_peer).
THEOREM RelayBooksSessions == RelaySpec => []SessionsAreExact
<1> USE RelayAssumption
<1>1. RelayInit => RelayInv
  <2> SUFFICES ASSUME RelayInit PROVE RelayInv
    OBVIOUS
  <2>1. Sessions = {} /\ \A n : {s \in Sessions : n \in {s[1][1], s[1][2]}} = {}
    BY DEF RelayInit, Sessions
  <2>2. SessionsAreExact
    <3>1. active = {PeerRes(s) : s \in Sessions}
      BY <2>1 DEF RelayInit
    <3>2. ASSUME NEW n \in RelayNodes PROVE load[n] = Cardinality(SessionsOf(n))
      <4>1. SessionsOf(n) = {} /\ load[n] = 0
        BY <2>1 DEF RelayInit, SessionsOf
      <4>. QED  BY <4>1, FS_EmptySet
    <3>. QED  BY <2>1, <3>1, <3>2 DEF SessionsAreExact, Sessions, SessionsOf
  <2>. QED  BY <2>1, <2>2, FS_EmptySet DEF RelayInit, RelayInv
<1>2. RelayInv /\ [RelayNext]_relayVars => RelayInv'
  <2> SUFFICES ASSUME RelayInv, [RelayNext]_relayVars PROVE RelayInv'
    OBVIOUS
  <2> USE DEF RelayInv
  \* A step that leaves sessions, tables and identities alone.
  <2>1. ASSUME UNCHANGED <<peer, peerId, active, load>>,
               row' \in [Pairs -> Nat], lastId' \in [Pairs -> Nat]
        PROVE  RelayInv'
    BY <2>1 DEF Sessions, SessionsAreExact, PeerRes
  <2>2. ASSUME NEW q \in Pairs, Reserve(q) \/ ExpireReservation(q) PROVE RelayInv'
    <3>1. row' \in [Pairs -> Nat] /\ lastId' \in [Pairs -> Nat]
      BY <2>2 DEF Reserve, ExpireReservation
    <3>. QED  BY <2>1, <2>2, <3>1 DEF Reserve, ExpireReservation, tables, peers
  <2>3. ASSUME NEW s \in Sides, AuthorizeOwner(s) \/ OwnerStep(s) PROVE RelayInv'
    BY <2>1, <2>3
       DEF AuthorizeOwner, OwnerStep, RegisterOwner, AnnounceWaiting, AnnounceFails, SeePaired, StopWaiting,
           SessionOver, LeaveOwner, durable, tables, peers
  <2>4. ASSUME NEW s \in Sides, AuthorizePeer(s) PROVE RelayInv'
    <3>1. /\ peer[s] = "idle" /\ peer' = [peer EXCEPT ![s] = "authorized"]
          /\ peerId' = [peerId EXCEPT ![s] = row[s[1]]]
          /\ UNCHANGED <<row, lastId, active, load>>
      BY <2>4 DEF AuthorizePeer, durable, tables
    <3>2. Sessions' = Sessions /\ s \notin Sessions /\ \A t \in Sessions : PeerRes(t)' = PeerRes(t)
      BY <3>1 DEF Sessions, PeerRes
    <3>3. s[1] \in Pairs
      BY DEF Sides
    <3>4. SessionsAreExact'
      BY <3>1, <3>2 DEF SessionsAreExact, Sessions
    <3>. QED  BY <3>1, <3>2, <3>3, <3>4
  <2>5. ASSUME NEW s \in Sides, JoinAsPeer(s), PeerMayJoin(s) PROVE RelayInv'
    <3>1. /\ peer[s] = "authorized" /\ peer' = [peer EXCEPT ![s] = "session"]
          /\ active' = active \cup {PeerRes(s)} /\ load' = Loaded(s[1])
          /\ UNCHANGED <<row, lastId, peerId>> /\ PeerRes(s) \notin active
      BY <2>5 DEF JoinAsPeer, PeerMayJoin, Busy, durable
    <3>2. Sessions' = Sessions \cup {s} /\ s \notin Sessions /\ \A t : PeerRes(t)' = PeerRes(t)
      BY <3>1 DEF Sessions, PeerRes
    <3>3. s[1][1] # s[1][2]
      BY DEF Sides
    <3>4. ASSUME NEW n \in RelayNodes
          PROVE  load'[n] \in Nat /\ load'[n] = Cardinality(SessionsOf(n)')
      <4>1. IsFiniteSet(SessionsOf(n)) /\ load[n] = Cardinality(SessionsOf(n)) /\ s \notin SessionsOf(n)
        BY <3>2, FS_Subset DEF SessionsOf, SessionsAreExact, Sessions
      <4>2. CASE n \in {s[1][1], s[1][2]}
        <5>1. SessionsOf(n)' = SessionsOf(n) \cup {s}
          BY <3>2, <4>2 DEF SessionsOf
        <5>2. Cardinality(SessionsOf(n) \cup {s}) = Cardinality(SessionsOf(n)) + 1
          BY <4>1, FS_AddElement
        <5>. QED  BY <3>1, <4>1, <4>2, <5>1, <5>2 DEF Loaded
      <4>3. CASE n \notin {s[1][1], s[1][2]}
        <5>1. SessionsOf(n)' = SessionsOf(n)
          BY <3>2, <4>3 DEF SessionsOf
        <5>. QED  BY <3>1, <4>1, <4>3, <5>1 DEF Loaded
      <4>. QED  BY <4>2, <4>3
    <3>5. active' = {PeerRes(t)' : t \in Sessions'}
      BY <3>1, <3>2 DEF SessionsAreExact, Sessions
    <3>6. \A t, u \in Sessions' : PeerRes(t)' = PeerRes(u)' => t = u
      BY <3>1, <3>2 DEF SessionsAreExact, Sessions
    <3>7. SessionsAreExact'
      BY <3>4, <3>5, <3>6 DEF SessionsAreExact, Sessions, SessionsOf
    <3>8. load' \in [RelayNodes -> Nat]
      BY <3>1, <3>4 DEF Loaded
    <3>9. IsFiniteSet(Sessions)'
      BY <3>2, FS_AddElement
    <3>. QED  BY <3>1, <3>7, <3>8, <3>9
  <2>6. ASSUME NEW s \in Sides, JoinAsPeer(s), ~PeerMayJoin(s) PROVE RelayInv'
    <3>1. /\ peer[s] = "authorized" /\ peer' = [peer EXCEPT ![s] = "gone"]
          /\ UNCHANGED <<row, lastId, peerId, active, load>>
      BY <2>6 DEF JoinAsPeer, durable, tables
    <3>2. Sessions' = Sessions /\ \A t : PeerRes(t)' = PeerRes(t)
      BY <3>1 DEF Sessions, PeerRes
    <3>3. SessionsAreExact'
      BY <3>1, <3>2 DEF SessionsAreExact, Sessions
    <3>. QED  BY <3>1, <3>2, <3>3
  <2>7. ASSUME NEW s \in Sides, EndSession(s) PROVE RelayInv'
    <3>1. /\ peer[s] = "session" /\ peer' = [peer EXCEPT ![s] = "closing"]
          /\ UNCHANGED <<row, lastId, peerId, active, load>>
      BY <2>7 DEF EndSession, durable, tables
    <3>2. Sessions' = Sessions /\ \A t : PeerRes(t)' = PeerRes(t)
      BY <3>1 DEF Sessions, PeerRes
    <3>3. SessionsAreExact'
      BY <3>1, <3>2 DEF SessionsAreExact, Sessions
    <3>. QED  BY <3>1, <3>2, <3>3
  <2>8. ASSUME NEW s \in Sides, LeavePeer(s) PROVE RelayInv'
    <3>1. /\ peer[s] = "closing" /\ peer' = [peer EXCEPT ![s] = "gone"]
          /\ active' = active \ {PeerRes(s)} /\ load' = Unloaded(s[1])
          /\ UNCHANGED <<row, lastId, peerId>>
      BY <2>8 DEF LeavePeer, durable
    <3>2. Sessions' = Sessions \ {s} /\ s \in Sessions /\ \A t : PeerRes(t)' = PeerRes(t)
      BY <3>1 DEF Sessions, PeerRes
    <3>4. ASSUME NEW n \in RelayNodes
          PROVE  load'[n] \in Nat /\ load'[n] = Cardinality(SessionsOf(n)')
      <4>1. IsFiniteSet(SessionsOf(n)) /\ load[n] = Cardinality(SessionsOf(n))
        BY <3>2, FS_Subset DEF SessionsOf, SessionsAreExact, Sessions
      <4>2. CASE n \in {s[1][1], s[1][2]}
        <5>1. SessionsOf(n)' = SessionsOf(n) \ {s} /\ s \in SessionsOf(n)
          BY <3>2, <4>2 DEF SessionsOf
        <5>2. /\ IsFiniteSet(SessionsOf(n) \ {s})
              /\ Cardinality(SessionsOf(n) \ {s}) = Cardinality(SessionsOf(n)) - 1
          BY <4>1, <5>1, FS_RemoveElement
        <5>3. Cardinality(SessionsOf(n) \ {s}) \in Nat
          BY <5>2, FS_CardinalityType
        <5>. QED  BY <3>1, <4>1, <4>2, <5>1, <5>2, <5>3 DEF Unloaded
      <4>3. CASE n \notin {s[1][1], s[1][2]}
        <5>1. SessionsOf(n)' = SessionsOf(n)
          BY <3>2, <4>3 DEF SessionsOf
        <5>. QED  BY <3>1, <4>1, <4>3, <5>1 DEF Unloaded
      <4>. QED  BY <4>2, <4>3
    <3>5. active' = {PeerRes(t)' : t \in Sessions'}
      BY <3>1, <3>2 DEF SessionsAreExact, Sessions
    <3>6. \A t, u \in Sessions' : PeerRes(t)' = PeerRes(u)' => t = u
      BY <3>1, <3>2 DEF SessionsAreExact, Sessions
    <3>7. SessionsAreExact'
      BY <3>4, <3>5, <3>6 DEF SessionsAreExact, Sessions, SessionsOf
    <3>8. load' \in [RelayNodes -> Nat]
      BY <3>1, <3>4 DEF Unloaded
    <3>9. IsFiniteSet(Sessions)'
      BY <3>2, FS_RemoveElement
    <3>. QED  BY <3>1, <3>7, <3>8, <3>9
  <2>9. CASE Restart
    <3>1. /\ peer' = Dropped(peer) /\ active' = {} /\ load' = [n \in RelayNodes |-> 0]
          /\ UNCHANGED <<row, lastId, peerId>>
      BY <2>9 DEF Restart, durable
    <3>2. Sessions' = {}
      BY <3>1 DEF Sessions, Dropped
    <3>3. ASSUME NEW n \in RelayNodes PROVE load'[n] = Cardinality(SessionsOf(n)')
      <4>1. SessionsOf(n)' = {}
        BY <3>2 DEF SessionsOf
      <4>. QED  BY <3>1, <4>1, FS_EmptySet
    <3>4. SessionsAreExact'
      BY <3>1, <3>2, <3>3 DEF SessionsAreExact, Sessions, SessionsOf
    <3>5. peer' \in [Sides -> {"idle", "authorized", "session", "closing", "gone"}]
      BY <3>1 DEF Dropped
    <3>. QED  BY <3>1, <3>2, <3>4, <3>5, FS_EmptySet
  <2>10. CASE UNCHANGED relayVars
    BY <2>1, <2>10 DEF relayVars, durable, tables, peers
  <2>. QED
    BY <2>2, <2>3, <2>4, <2>5, <2>6, <2>7, <2>8, <2>9, <2>10 DEF RelayNext, PeerStep
<1>3. RelayInv => SessionsAreExact
  BY DEF RelayInv
<1>. QED  BY <1>1, <1>2, <1>3, PTL DEF RelaySpec

-----------------------------------------------------------------------------
(* The rate limiter of the front.                                          *)

Full == Burst * Cost
BucketType == [tokens : Nat, updated : Nat, place : Nat]

FrontTypes ==
    /\ second \in Nat
    /\ buckets \in [Callers -> BucketType] /\ IsFiniteSet(Held)
    /\ granted \in [Callers -> Nat] /\ evicted \in [Callers -> Nat] /\ promised \in [Callers -> Nat]

\* What was granted and what is left in a bucket came from a full bucket, one
\* more for each eviction, and what flowed back until its last use; without a
\* bucket a full one is still to be had.
BooksBalance(c) ==
    /\ c \in Held => /\ buckets[c].updated <= second /\ buckets[c].tokens <= Full
                     /\ granted[c] * Cost + buckets[c].tokens
                          <= Full * (1 + evicted[c]) + Rate * buckets[c].updated
    /\ c \notin Held => granted[c] * Cost <= Full * evicted[c] + Rate * second

\* At the promised second the bucket will have a token.
PromiseIsFunded(c) ==
    promised[c] > 0 /\ c \in Held =>
        /\ promised[c] >= buckets[c].updated
        /\ buckets[c].tokens + Rate * (promised[c] - buckets[c].updated) >= Cost

FrontInv == FrontTypes /\ \A c \in Callers : BooksBalance(c) /\ PromiseIsFunded(c)

\* The smaller and the larger of two numbers.
LEMMA MinMaxOfTwo ==
  ASSUME NEW a \in Int, NEW b \in Int
  PROVE  /\ Min({a, b}) = IF a <= b THEN a ELSE b
         /\ Max({a, b}) = IF a >= b THEN a ELSE b
<1>1. \E x \in {a, b} : \A y \in {a, b} : x <= y
  OBVIOUS
<1>2. Min({a, b}) \in {a, b} /\ \A y \in {a, b} : Min({a, b}) <= y
  BY <1>1 DEF Min
<1>3. \E x \in {a, b} : \A y \in {a, b} : x >= y
  OBVIOUS
<1>4. Max({a, b}) \in {a, b} /\ \A y \in {a, b} : Max({a, b}) >= y
  BY <1>3 DEF Max
<1> QED
  BY <1>2, <1>4

\* What flows back in several seconds.
LEMMA Flow ==
  ASSUME NEW r \in Nat, NEW s \in Nat, NEW t \in Nat, t <= s
  PROVE  /\ r * s \in Nat /\ r * t \in Nat /\ r * t <= r * s
         /\ (s - t) * r = r * s - r * t /\ r * (s - t) = r * s - r * t
<1>1. PICK d \in Nat : s = t + d
  <2>1. s - t \in Nat /\ s = t + (s - t)
    OBVIOUS
  <2> QED
    BY <2>1
<1>2. r * s = r * t + r * d /\ r * d \in Nat /\ r * t \in Nat /\ s - t = d
  BY <1>1
<1> QED
  BY <1>2

\* Rounding up never promises too little.
LEMMA RoundedUp ==
  ASSUME NEW n \in Nat, NEW d \in Nat \ {0}
  PROVE  /\ (n + d - 1) \div d \in Nat
         /\ d * ((n + d - 1) \div d) >= n
<1> DEFINE m == n + d - 1
<1>1. m \in Nat
  OBVIOUS
<1> HIDE DEF m
<1>2. m \div d \in Nat /\ m % d \in 0 .. d - 1 /\ m = d * (m \div d) + (m % d)
  BY <1>1
<1>3. d * (m \div d) \in Nat
  BY <1>2
<1>4. d * (m \div d) >= m - (d - 1)
  BY <1>1, <1>2, <1>3
<1> QED
  BY <1>2, <1>3, <1>4 DEF m

\* A bucket that was pruned had had the time to fill up twice.
LEMMA PrunedWasFull ==
  ASSUME FrontInv, NEW c \in Pruned
  PROVE  /\ Full \in Nat /\ c \in Held
         /\ (second - buckets[c].updated) * Rate > 2 * Full
<1>1. Full \in Nat /\ Rate \in Nat /\ MinStale \in Nat /\ second \in Nat /\ c \in Held /\ c \in Callers
  BY FrontAssumption DEF Full, FrontInv, FrontTypes, Pruned, Held
<1>2. buckets[c].place \in Nat /\ buckets[c].updated \in Nat
  BY <1>1 DEF FrontInv, FrontTypes, BucketType
<1>3. buckets[c].place <= buckets[c].place
  BY <1>2
<1>4. StaleBucket(buckets[c])
  BY <1>1, <1>3 DEF Pruned
<1> DEFINE x == MinStale * Rate
           y == 2 * Burst * Cost
           z == (second - buckets[c].updated) * Rate
<1>5. x \in Int /\ y \in Int /\ y = 2 * Full /\ z \in Int
  BY <1>1, <1>2, FrontAssumption DEF Full
<1>6. z > Max({x, y})
  BY <1>4 DEF StaleBucket
<1> HIDE DEF x, y, z
<1>7. Max({x, y}) = IF x >= y THEN x ELSE y
  BY <1>5, MinMaxOfTwo
<1>8. z > y
  BY <1>5, <1>6, <1>7
<1>9. z > 2 * Full
  BY <1>5, <1>8
<1> QED
  BY <1>1, <1>9 DEF z

\* What a caller finds: never more than a full bucket, and with it its books
\* still balance now.
LEMMA TokensBalance ==
  ASSUME FrontInv, NEW c \in Callers
  PROVE  /\ Tokens(c) \in Nat /\ Tokens(c) <= Full
         /\ granted[c] * Cost + Tokens(c) <= Full * (1 + evicted[c]) + Rate * second
<1> DEFINE b == buckets[c]
<1>1. /\ Full \in Nat /\ Rate \in Nat /\ Cost \in Nat /\ MinStale \in Nat /\ second \in Nat
      /\ b \in BucketType /\ granted[c] \in Nat /\ evicted[c] \in Nat
  BY FrontAssumption DEF Full, FrontInv, FrontTypes
<1>2. /\ granted[c] * Cost \in Nat /\ Full * evicted[c] \in Nat
      /\ Full * (1 + evicted[c]) = Full + Full * evicted[c]
  BY <1>1
<1>3. CASE c \notin Held
  BY <1>1, <1>2, <1>3 DEF FrontInv, BooksBalance, Tokens, Live, Full
<1>4. CASE c \in Held
  <2>1. /\ b.updated <= second /\ b.tokens <= Full /\ b.tokens \in Nat /\ b.updated \in Nat
        /\ granted[c] * Cost + b.tokens <= Full * (1 + evicted[c]) + Rate * b.updated
    BY <1>1, <1>4 DEF FrontInv, BooksBalance, BucketType
  <2>2. /\ Rate * second \in Nat /\ Rate * b.updated \in Nat /\ Rate * b.updated <= Rate * second
        /\ (second - b.updated) * Rate = Rate * second - Rate * b.updated
    BY <1>1, <2>1, Flow
  <2>3. CASE c \in Live
    <3>1. Tokens(c) = Min({Full, b.tokens + (second - b.updated) * Rate})
      BY <2>3 DEF Tokens, Full
    <3>2. b.tokens + (second - b.updated) * Rate \in Nat
      BY <2>1, <2>2
    <3>3. Tokens(c) = IF Full <= b.tokens + (second - b.updated) * Rate THEN Full
                      ELSE b.tokens + (second - b.updated) * Rate
      BY <1>1, <3>1, <3>2, MinMaxOfTwo
    <3> QED
      BY <1>1, <1>2, <2>1, <2>2, <3>3
  <2>4. CASE c \notin Live
    <3>1. Tokens(c) = Full
      BY <2>4 DEF Tokens, Full
    <3>2. (second - b.updated) * Rate > 2 * Full
      BY <1>4, <2>4, PrunedWasFull DEF Live
    <3>3. Rate * second - Rate * b.updated > 2 * Full
      BY <2>2, <3>2
    <3>4. granted[c] * Cost + b.tokens <= Full + Full * evicted[c] + Rate * b.updated
      BY <1>2, <2>1
    <3>5. granted[c] * Cost <= Full + Full * evicted[c] + Rate * b.updated
      BY <1>1, <1>2, <2>1, <2>2, <3>4
    <3>6. granted[c] * Cost + Full <= Full + Full * evicted[c] + Rate * second
      BY <1>1, <1>2, <2>2, <3>3, <3>5
    <3> QED
      BY <1>1, <1>2, <3>1, <3>6
  <2> QED
    BY <2>3, <2>4
<1> QED
  BY <1>3, <1>4

SameFill(b, e) == b.tokens = e.tokens /\ b.updated = e.updated

\* The caller's bucket is used now; of the other callers each keeps its tokens
\* or its bucket is gone.
LEMMA TouchedBuckets ==
  ASSUME FrontInv, NEW c \in Callers, NEW t \in Nat
  PROVE  /\ Touched(c, t) \in [Callers -> BucketType]
         /\ Touched(c, t)[c].tokens = t /\ Touched(c, t)[c].updated = second
         /\ Touched(c, t)[c].place > 0
         /\ IsFiniteSet({d \in Callers : Touched(c, t)[d].place > 0})
         /\ \A d \in Others(c) :
              d # c /\ SameFill(Touched(c, t)[d], buckets[d]) /\ Touched(c, t)[d].place > 0
         /\ \A d \in Callers \ {c} : d \notin Others(c) => Touched(c, t)[d].place = 0
<1>1. second \in Nat /\ buckets \in [Callers -> BucketType] /\ IsFiniteSet(Held)
  BY DEF FrontInv, FrontTypes
<1>2. Others(c) \subseteq Held /\ Held \subseteq Callers /\ c \notin Others(c)
  BY DEF Others, Live, Held
<1>3. \A S : S \subseteq Others(c) => IsFiniteSet(S) /\ Cardinality(S) \in Nat
  BY <1>1, <1>2, FS_Subset, FS_CardinalityType
<1> DEFINE Below(d) == {e \in Others(c) : buckets[e].place < buckets[d].place}
<1>4. \A d \in Callers : Cardinality(Below(d)) \in Nat
  BY <1>3
<1>5. Cardinality(Others(c)) \in Nat
  BY <1>3
<1>6. Touched(c, t)[c] = [tokens |-> t, updated |-> second, place |-> Cardinality(Others(c)) + 1]
  BY DEF Touched
<1>7. \A d \in Callers \ {c} : d \in Others(c) =>
        Touched(c, t)[d] = [buckets[d] EXCEPT !.place = 1 + Cardinality(Below(d))]
  BY DEF Touched
<1>8. \A d \in Callers \ {c} : d \notin Others(c) => Touched(c, t)[d] = NoBucket
  BY DEF Touched
<1> HIDE DEF Below
<1>9. Touched(c, t)[c] \in BucketType /\ Touched(c, t)[c].place > 0
  BY <1>1, <1>5, <1>6 DEF BucketType
<1>10. \A d \in Callers \ {c} : d \in Others(c) =>
         /\ Touched(c, t)[d] \in BucketType /\ Touched(c, t)[d].place > 0
         /\ Touched(c, t)[d].tokens = buckets[d].tokens /\ Touched(c, t)[d].updated = buckets[d].updated
  <2> SUFFICES ASSUME NEW d \in Callers \ {c}, d \in Others(c)
               PROVE  /\ Touched(c, t)[d] \in BucketType /\ Touched(c, t)[d].place > 0
                      /\ Touched(c, t)[d].tokens = buckets[d].tokens
                      /\ Touched(c, t)[d].updated = buckets[d].updated
    OBVIOUS
  <2> DEFINE b == buckets[d]
             n == 1 + Cardinality(Below(d))
  <2>1. b \in BucketType /\ n \in Nat /\ n > 0
    BY <1>1, <1>4
  <2>2. Touched(c, t)[d] = [b EXCEPT !.place = n]
    BY <1>7
  <2> HIDE DEF n
  <2> QED
    BY <2>1, <2>2 DEF BucketType
<1>11. \A d \in Callers \ {c} : d \notin Others(c) =>
         Touched(c, t)[d] \in BucketType /\ Touched(c, t)[d].place = 0
  BY <1>8 DEF NoBucket, BucketType
<1>12. \A d \in Callers : Touched(c, t)[d] \in BucketType
  BY <1>9, <1>10, <1>11
<1>13. Touched(c, t) = [d \in Callers |-> Touched(c, t)[d]]
  BY DEF Touched
<1>14. Touched(c, t) \in [Callers -> BucketType]
  BY <1>12, <1>13
<1>15. {d \in Callers : Touched(c, t)[d].place > 0} \subseteq Others(c) \cup {c}
  BY <1>11
<1>16. IsFiniteSet(Others(c) \cup {c})
  BY <1>3, FS_AddElement
<1>17. IsFiniteSet({d \in Callers : Touched(c, t)[d].place > 0})
  BY <1>15, <1>16, FS_Subset
<1> QED
  BY <1>2, <1>6, <1>9, <1>10, <1>11, <1>14, <1>17 DEF SameFill

\* A caller whose bucket is gone, pruned or displaced, still has its books in
\* order.
LEMMA GoneBalance ==
  ASSUME FrontInv, NEW c \in Callers, NEW d \in Callers \ {c}, d \notin Others(c)
  PROVE  granted[d] * Cost <= Full * Evictions(c)[d] + Rate * second
<1>1. /\ Full \in Nat /\ Rate \in Nat /\ Cost \in Nat /\ second \in Nat
      /\ granted[d] \in Nat /\ evicted[d] \in Nat /\ d \in Callers
  BY FrontAssumption DEF Full, FrontInv, FrontTypes
<1>2. /\ granted[d] * Cost \in Nat /\ Full * evicted[d] \in Nat /\ Rate * second \in Nat
      /\ Full * (1 + evicted[d]) = Full + Full * evicted[d]
      /\ Full * (evicted[d] + 1) = Full + Full * evicted[d]
  BY <1>1
<1>3. Evictions(c)[d] = IF d \in Displaced(c) THEN evicted[d] + 1 ELSE evicted[d]
  BY DEF Evictions
<1>4. Displaced(c) \subseteq Live
  BY DEF Displaced
<1>5. CASE d \notin Held
  BY <1>1, <1>2, <1>3, <1>4, <1>5 DEF FrontInv, BooksBalance, Live
<1>6. CASE d \in Held
  <2> DEFINE b == buckets[d]
  <2>1. /\ b.updated <= second /\ b.tokens \in Nat /\ b.updated \in Nat
        /\ granted[d] * Cost + b.tokens <= Full * (1 + evicted[d]) + Rate * b.updated
    BY <1>1, <1>6 DEF FrontInv, FrontTypes, BooksBalance, BucketType
  <2>2. /\ Rate * b.updated \in Nat /\ Rate * b.updated <= Rate * second
        /\ (second - b.updated) * Rate = Rate * second - Rate * b.updated
    BY <1>1, <2>1, Flow
  <2> DEFINE f == Full * evicted[d]
             g == granted[d] * Cost
             s == Rate * second
             u == Rate * b.updated
  <2>3. g <= Full + f + u
    BY <1>1, <1>2, <2>1, <2>2
  <2>4. f \in Nat /\ g \in Nat /\ s \in Nat /\ u \in Nat /\ u <= s /\ Full * (evicted[d] + 1) = Full + f
    BY <1>2, <2>2
  <2>5. CASE d \in Displaced(c)
    <3>1. Evictions(c)[d] = evicted[d] + 1
      BY <1>3, <2>5
    <3>2. g <= Full + f + s
      <4> HIDE DEF f, g, s, u
      <4> QED
        BY <1>1, <2>3, <2>4
    <3> QED
      BY <2>4, <3>1, <3>2
  <2>6. CASE d \notin Displaced(c)
    <3>1. Evictions(c)[d] = evicted[d] /\ d \in Pruned
      BY <1>3, <1>6, <2>6 DEF Others, Live
    <3>2. (second - b.updated) * Rate > 2 * Full
      BY <3>1, PrunedWasFull
    <3>3. s - u > 2 * Full
      BY <2>2, <3>2
    <3>4. g <= f + s
      <4> HIDE DEF f, g, s, u
      <4> QED
        BY <1>1, <2>3, <2>4, <3>3
    <3> QED
      BY <3>1, <3>4
  <2> QED
    BY <2>5, <2>6
<1> QED
  BY <1>5, <1>6

\* The second Retry-After names comes when a token has flowed back.
LEMMA RetryIsFunded ==
  ASSUME NEW t \in Nat, t < Cost
  PROVE  /\ RetryAfter(t) \in Nat
         /\ t + Rate * RetryAfter(t) >= Cost
<1>1. Cost \in Nat /\ Rate \in Nat \ {0}
  BY FrontAssumption
<1> DEFINE n == Cost - t
           q == (n + Rate - 1) \div Rate
<1>2. n \in Nat /\ n + t = Cost
  BY <1>1
<1>3. Cost - t + Rate - 1 = n + Rate - 1
  BY <1>1
<1>4. RetryAfter(t) = Max({1, q})
  BY <1>3 DEF RetryAfter
<1> HIDE DEF n
<1>5. q \in Nat /\ Rate * q >= n
  BY <1>1, <1>2, RoundedUp
<1> HIDE DEF q
<1>6. RetryAfter(t) = IF 1 >= q THEN 1 ELSE q
  BY <1>4, <1>5, MinMaxOfTwo
<1>7. RetryAfter(t) \in Nat /\ q <= RetryAfter(t)
  BY <1>5, <1>6
<1>8. Rate * q <= Rate * RetryAfter(t) /\ Rate * q \in Nat /\ Rate * RetryAfter(t) \in Nat
  BY <1>1, <1>5, <1>7, Flow
<1> QED
  BY <1>1, <1>2, <1>5, <1>7, <1>8

\* The limiter keeps the books while the clock runs, the process is replaced
\* and callers come in any order.
LEMMA FrontInductive == FrontSpec => []FrontInv
<1>1. FrontInit => FrontInv
  <2> SUFFICES ASSUME FrontInit PROVE FrontInv
    OBVIOUS
  <2>1. Held = {}
    BY DEF FrontInit, Held, NoBucket
  <2>2. FrontTypes
    BY <2>1, FS_EmptySet DEF FrontInit, FrontTypes, NoBucket, BucketType
  <2>3. Full \in Nat /\ Rate \in Nat /\ Cost \in Nat
    BY FrontAssumption DEF Full
  <2>4. Full * 0 = 0 /\ Rate * 0 = 0 /\ 0 * Cost = 0
    BY <2>3
  <2> QED
    BY <2>1, <2>2, <2>4 DEF FrontInit, FrontInv, BooksBalance, PromiseIsFunded
<1>2. FrontInv /\ [FrontNext]_frontVars => FrontInv'
  <2> SUFFICES ASSUME FrontInv, [FrontNext]_frontVars PROVE FrontInv'
    OBVIOUS
  <2>1. /\ Full \in Nat /\ Rate \in Nat \ {0} /\ Cost \in Nat /\ second \in Nat
        /\ buckets \in [Callers -> BucketType]
        /\ granted \in [Callers -> Nat] /\ evicted \in [Callers -> Nat]
        /\ promised \in [Callers -> Nat] /\ IsFiniteSet(Held)
    BY FrontAssumption DEF Full, FrontInv, FrontTypes
  <2>2. ASSUME UNCHANGED frontVars PROVE FrontInv'
    BY <2>2 DEF frontVars, FrontInv, FrontTypes, BooksBalance, PromiseIsFunded, Held
  <2>3. ASSUME FrontTick PROVE FrontInv'
    <3>1. /\ second' = second + 1
          /\ UNCHANGED <<buckets, granted, evicted, promised>> /\ Held' = Held
      BY <2>3 DEF FrontTick, Held
    <3>2. FrontTypes'
      BY <2>1, <3>1 DEF FrontTypes
    <3>3. Rate * second \in Nat /\ Rate * (second + 1) = Rate * second + Rate
      BY <2>1
    <3>4. \A c \in Callers : BooksBalance(c)'
      <4> SUFFICES ASSUME NEW c \in Callers PROVE BooksBalance(c)'
        OBVIOUS
      <4>1. BooksBalance(c) /\ buckets[c].updated \in Nat
        BY <2>1 DEF FrontInv, BucketType
      <4>2. granted[c] * Cost \in Nat /\ Full * evicted[c] \in Nat
        BY <2>1
      <4>3. c \notin Held => granted[c] * Cost <= Full * evicted[c] + Rate * (second + 1)
        BY <2>1, <3>3, <4>1, <4>2 DEF BooksBalance
      <4>4. buckets[c].updated <= second => buckets[c].updated <= second + 1
        BY <2>1, <4>1
      <4> QED
        BY <3>1, <4>1, <4>3, <4>4 DEF BooksBalance, Full
    <3>5. \A c \in Callers : PromiseIsFunded(c)'
      BY <3>1 DEF FrontInv, PromiseIsFunded
    <3> QED
      BY <3>2, <3>4, <3>5 DEF FrontInv
  <2>4. ASSUME FrontRestart PROVE FrontInv'
    <3>1. Held' = {}
      BY <2>4 DEF FrontRestart, Held, NoBucket
    <3>2. /\ second' = second /\ granted' = granted
          /\ evicted' = [c \in Callers |-> IF c \in Held THEN evicted[c] + 1 ELSE evicted[c]]
          /\ buckets' = [c \in Callers |-> NoBucket] /\ promised' = [c \in Callers |-> 0]
      BY <2>4 DEF FrontRestart
    <3>3. FrontTypes'
      BY <2>1, <3>1, <3>2, FS_EmptySet DEF FrontTypes, NoBucket, BucketType
    <3>4. ASSUME NEW c \in Callers PROVE granted[c] * Cost <= Full * evicted'[c] + Rate * second
      <4>1. /\ granted[c] * Cost \in Nat /\ Full * evicted[c] \in Nat /\ Rate * second \in Nat
            /\ Full * (1 + evicted[c]) = Full + Full * evicted[c]
            /\ Full * (evicted[c] + 1) = Full + Full * evicted[c]
        BY <2>1
      <4>2. CASE c \notin Held
        BY <3>2, <4>2 DEF FrontInv, BooksBalance
      <4>3. CASE c \in Held
        <5>1. /\ buckets[c].updated <= second /\ buckets[c].tokens \in Nat /\ buckets[c].updated \in Nat
              /\ granted[c] * Cost + buckets[c].tokens
                   <= Full * (1 + evicted[c]) + Rate * buckets[c].updated
          BY <2>1, <4>3 DEF FrontInv, BooksBalance, BucketType
        <5>2. Rate * buckets[c].updated \in Nat /\ Rate * buckets[c].updated <= Rate * second
          BY <2>1, <5>1, Flow
        <5>3. granted[c] * Cost <= Full + Full * evicted[c] + Rate * second
          BY <2>1, <4>1, <5>1, <5>2
        <5>4. evicted'[c] = evicted[c] + 1
          BY <3>2, <4>3
        <5> QED
          BY <4>1, <5>3, <5>4
      <4> QED
        BY <4>2, <4>3
    <3>5. \A c \in Callers : BooksBalance(c)'
      BY <3>1, <3>2, <3>4 DEF BooksBalance, Full
    <3>6. \A c \in Callers : PromiseIsFunded(c)'
      BY <3>1 DEF PromiseIsFunded
    <3> QED
      BY <3>3, <3>5, <3>6 DEF FrontInv
  <2>5. ASSUME NEW c \in Callers, HandleCall(c) PROVE FrontInv'
    <3>1. /\ Tokens(c) \in Nat /\ Tokens(c) <= Full
          /\ granted[c] * Cost + Tokens(c) <= Full * (1 + evicted[c]) + Rate * second
      BY TokensBalance
    <3>2. second' = second /\ evicted' = Evictions(c)
      BY <2>5 DEF HandleCall
    \* What is left, paid or refused.
    <3>3. PICK t \in Nat :
            /\ t <= Full /\ buckets' = Touched(c, t)
            /\ granted'[c] * Cost + t = granted[c] * Cost + Tokens(c)
            /\ granted' \in [Callers -> Nat] /\ \A d \in Callers \ {c} : granted'[d] = granted[d]
            /\ promised' \in [Callers -> Nat] /\ \A d \in Callers \ {c} : promised'[d] = promised[d]
            /\ promised'[c] > 0 =>
                 promised'[c] >= second /\ t + Rate * (promised'[c] - second) >= Cost
      <4>1. CASE Tokens(c) >= Cost
        <5>1. /\ buckets' = Touched(c, Tokens(c) - Cost)
              /\ granted' = [granted EXCEPT ![c] = @ + 1] /\ promised' = [promised EXCEPT ![c] = 0]
          BY <2>1, <2>5, <3>1, <4>1 DEF HandleCall
        <5>2. /\ granted' \in [Callers -> Nat] /\ \A d \in Callers \ {c} : granted'[d] = granted[d]
              /\ promised' \in [Callers -> Nat] /\ \A d \in Callers \ {c} : promised'[d] = promised[d]
              /\ promised'[c] = 0 /\ granted'[c] = granted[c] + 1
          BY <2>1, <5>1
        <5>3. (granted[c] + 1) * Cost = granted[c] * Cost + Cost /\ granted[c] * Cost \in Nat
          BY <2>1
        <5>4. Tokens(c) - Cost \in Nat /\ Tokens(c) - Cost <= Full
          BY <2>1, <3>1, <4>1
        <5>5. granted'[c] * Cost + (Tokens(c) - Cost) = granted[c] * Cost + Tokens(c)
          BY <2>1, <3>1, <5>2, <5>3
        <5> QED
          BY <5>1, <5>2, <5>4, <5>5
      <4>2. CASE Tokens(c) < Cost
        <5>1. /\ buckets' = Touched(c, Tokens(c)) /\ granted' = granted
              /\ promised' = [promised EXCEPT ![c] = second + RetryAfter(Tokens(c))]
          BY <2>1, <2>5, <3>1, <4>2 DEF HandleCall
        <5>2. RetryAfter(Tokens(c)) \in Nat /\ Tokens(c) + Rate * RetryAfter(Tokens(c)) >= Cost
          BY <3>1, <4>2, RetryIsFunded
        <5>3. /\ promised' \in [Callers -> Nat] /\ \A d \in Callers \ {c} : promised'[d] = promised[d]
              /\ promised'[c] = second + RetryAfter(Tokens(c))
          BY <2>1, <5>1, <5>2
        <5>4. promised'[c] >= second /\ promised'[c] - second = RetryAfter(Tokens(c))
          BY <2>1, <5>2, <5>3
        <5> QED
          BY <2>1, <3>1, <5>1, <5>2, <5>3, <5>4
      <4> QED
        BY <2>1, <3>1, <4>1, <4>2
    <3> DEFINE B == Touched(c, t)
    <3>4. /\ B \in [Callers -> BucketType]
          /\ B[c].tokens = t /\ B[c].updated = second /\ B[c].place > 0
          /\ IsFiniteSet({d \in Callers : B[d].place > 0})
          /\ \A d \in Callers \ {c} :
               IF d \in Others(c)
               THEN B[d].tokens = buckets[d].tokens /\ B[d].updated = buckets[d].updated /\ B[d].place > 0
               ELSE B[d].place = 0
      <4>1. B \in [Callers -> BucketType]
        BY <3>3, TouchedBuckets
      <4>2. B[c].tokens = t /\ B[c].updated = second /\ B[c].place > 0
        BY <3>3, TouchedBuckets
      <4>3. IsFiniteSet({d \in Callers : B[d].place > 0})
        BY <3>3, TouchedBuckets
      <4>4. \A d \in Others(c) : SameFill(B[d], buckets[d]) /\ B[d].place > 0
        BY <3>3, TouchedBuckets
      <4>5. \A d \in Callers \ {c} : d \notin Others(c) => B[d].place = 0
        BY <3>3, TouchedBuckets
      <4> QED
        BY <4>1, <4>2, <4>3, <4>4, <4>5 DEF SameFill
    <3>5. Held' = {d \in Callers : B[d].place > 0}
      BY <3>3 DEF Held
    <3>6. buckets' = B
      BY <3>3
    <3> HIDE DEF B
    <3>7. c \in Held' /\ \A d \in Callers \ {c} : d \in Held' <=> d \in Others(c)
      BY <3>4, <3>5
    <3>8. Evictions(c) \in [Callers -> Nat]
      BY <2>1 DEF Evictions
    <3>9. FrontTypes'
      BY <2>1, <3>2, <3>3, <3>4, <3>5, <3>6, <3>8 DEF FrontTypes
    <3>10. evicted'[c] = evicted[c]
      BY <3>2 DEF Evictions, Displaced
    <3>11. BooksBalance(c)'
      <4>1. granted'[c] * Cost + t <= Full * (1 + evicted[c]) + Rate * second
        BY <3>1, <3>3
      <4>2. buckets'[c].updated = second' /\ buckets'[c].tokens = t /\ second' <= second'
        BY <2>1, <3>2, <3>4, <3>6
      <4> QED
        BY <3>2, <3>3, <3>7, <3>10, <4>1, <4>2 DEF BooksBalance, Full
    <3>12. PromiseIsFunded(c)'
      BY <3>3, <3>4, <3>6 DEF PromiseIsFunded
    <3>13. ASSUME NEW d \in Callers \ {c} PROVE BooksBalance(d)' /\ PromiseIsFunded(d)'
      <4>1. granted'[d] = granted[d] /\ promised'[d] = promised[d] /\ BooksBalance(d) /\ PromiseIsFunded(d)
        BY <3>3 DEF FrontInv
      <4>2. CASE d \in Others(c)
        <5>1. d \in Held /\ d \in Held' /\ evicted'[d] = evicted[d]
          BY <3>2, <3>7, <4>2 DEF Others, Live, Evictions
        <5>2. buckets'[d].tokens = buckets[d].tokens /\ buckets'[d].updated = buckets[d].updated
          BY <3>4, <3>6, <4>2
        <5> QED
          BY <3>2, <4>1, <5>1, <5>2 DEF BooksBalance, PromiseIsFunded, Full
      <4>3. CASE d \notin Others(c)
        <5>1. d \notin Held'
          BY <3>7, <4>3
        <5>2. granted[d] * Cost <= Full * Evictions(c)[d] + Rate * second
          BY <4>3, GoneBalance
        <5> QED
          BY <3>2, <4>1, <5>1, <5>2 DEF BooksBalance, PromiseIsFunded, Full
      <4> QED
        BY <4>2, <4>3
    <3> QED
      BY <3>9, <3>11, <3>12, <3>13 DEF FrontInv
  <2> QED
    BY <2>2, <2>3, <2>4, <2>5 DEF FrontNext
<1> QED
  BY <1>1, <1>2, PTL DEF FrontSpec

\* The limiter keeps both its promises, however callers spread their requests,
\* whatever is pruned, displaced or lost with the process: no caller gets more
\* than a full bucket, what flowed back, and one more bucket for each that was
\* taken from it; and who waits as long as Retry-After says is let through
\* (allow, _prune).
THEOREM LimiterKeepsPromises == FrontSpec => []LimiterSound
<1>1. ASSUME FrontInv PROVE LimiterSound
  <2>1. /\ Full \in Nat /\ Rate \in Nat \ {0} /\ Cost \in Nat /\ second \in Nat
        /\ buckets \in [Callers -> BucketType] /\ promised \in [Callers -> Nat]
        /\ granted \in [Callers -> Nat] /\ evicted \in [Callers -> Nat] /\ Cost <= Full
    <3>1. /\ Full \in Nat /\ Rate \in Nat \ {0} /\ Cost \in Nat /\ second \in Nat
          /\ buckets \in [Callers -> BucketType] /\ promised \in [Callers -> Nat]
          /\ granted \in [Callers -> Nat] /\ evicted \in [Callers -> Nat]
      BY <1>1, FrontAssumption DEF Full, FrontInv, FrontTypes
    <3>2. Cost * 1 <= Cost * Burst
      BY FrontAssumption, Flow
    <3> QED
      BY <3>1, <3>2, FrontAssumption DEF Full
  <2>2. RateRespected
    <3> SUFFICES ASSUME NEW c \in Callers
                 PROVE  granted[c] * Cost <= Full * (1 + evicted[c]) + Rate * second
      BY DEF RateRespected, Full
    <3>1. /\ Tokens(c) \in Nat
          /\ granted[c] * Cost + Tokens(c) <= Full * (1 + evicted[c]) + Rate * second
      BY <1>1, TokensBalance
    <3>2. granted[c] * Cost \in Nat /\ Full * (1 + evicted[c]) \in Nat /\ Rate * second \in Nat
      BY <2>1
    <3> QED
      BY <3>1, <3>2
  <2>3. RetryAfterKept
    <3> SUFFICES ASSUME NEW c \in Callers, promised[c] > 0, second >= promised[c]
                 PROVE  Tokens(c) >= Cost
      BY DEF RetryAfterKept
    <3>1. CASE c \notin Live
      BY <2>1, <3>1 DEF Tokens, Full
    <3>2. CASE c \in Live
      <4> DEFINE b == buckets[c]
                 y == b.tokens + (second - b.updated) * Rate
      <4>1. /\ promised[c] >= b.updated /\ b.tokens + Rate * (promised[c] - b.updated) >= Cost
            /\ promised[c] \in Nat /\ b.updated \in Nat /\ b.tokens \in Nat /\ b.updated <= second
        BY <1>1, <2>1, <3>2 DEF FrontInv, PromiseIsFunded, BooksBalance, Live, BucketType
      <4>2. /\ (second - b.updated) * Rate = Rate * second - Rate * b.updated
            /\ Rate * (promised[c] - b.updated) = Rate * promised[c] - Rate * b.updated
            /\ Rate * promised[c] <= Rate * second /\ Rate * second \in Nat
            /\ Rate * promised[c] \in Nat /\ Rate * b.updated \in Nat
        <5>1. (second - b.updated) * Rate = Rate * second - Rate * b.updated /\ Rate * b.updated \in Nat
          BY <2>1, <4>1, Flow
        <5>2. Rate * (promised[c] - b.updated) = Rate * promised[c] - Rate * b.updated
          BY <2>1, <4>1, Flow
        <5>3. Rate * promised[c] <= Rate * second /\ Rate * second \in Nat /\ Rate * promised[c] \in Nat
          BY <2>1, <4>1, Flow
        <5> QED
          BY <5>1, <5>2, <5>3
      <4>3. y \in Int /\ y >= Cost
        BY <2>1, <4>1, <4>2
      <4>4. Tokens(c) = Min({Full, y})
        BY <3>2 DEF Tokens, Full
      <4> HIDE DEF y
      <4>5. Tokens(c) = IF Full <= y THEN Full ELSE y
        BY <2>1, <4>3, <4>4, MinMaxOfTwo
      <4> QED
        BY <2>1, <4>3, <4>5
    <3> QED
      BY <3>1, <3>2
  <2> QED
    BY <2>2, <2>3 DEF LimiterSound
<1> QED
  BY <1>1, FrontInductive, PTL
=============================================================================
