---------------------------- MODULE PrekeysProofs ---------------------------
(***************************************************************************)
(* Proof that one-time prekeys serve once, for any number of sending       *)
(* processes, generations, keys in a batch and faults.                     *)
(***************************************************************************)
EXTENDS Prekeys, WellFoundedInduction, TLAPS

PrekeyTypes ==
    /\ latest \in 0..MaxGen /\ imported \in 0..MaxGen
    /\ local \in [Keys -> {"none", "available", "consumed", "expired"}]
    /\ peer \in [Keys -> {"none", "available", "reserved", "used", "burned", "expired"}]
    /\ hold \in [Workers -> Holds]
    /\ net \subseteq Packets
    /\ clock \in [Gens -> {"fresh", "old", "dead"}]
    /\ uses \in [Keys -> {0, 1}]

Holding(w, k) == hold[w] # NoHold /\ hold[w].key = k
Carries(m, k) == m.kind # "bundle" /\ m.key = k

\* What the requester knows of a generation the issuer has made.
GenerationsInOrder ==
    /\ imported <= latest
    /\ \A m \in net : m.kind = "bundle" => m.gen <= latest
    /\ \A k \in Keys : peer[k] # "none" => k[1] <= imported

\* A reservation belongs to one process, and a key that sealed a packet is used up.
ReservationsExclusive ==
    /\ \A k \in Keys : uses[k] = 1 => peer[k] = "used"
    /\ \A w \in Workers : \A k \in Keys :
          Holding(w, k) => peer[k] = "reserved" /\ \A v \in Workers : Holding(v, k) => v = w

\* A key is in one packet at most, and then it has been used.
PacketsDistinct ==
    /\ \A m \in net : \A k \in Keys : Carries(m, k) => uses[k] = 1
    /\ \A m, n \in net : \A k \in Keys : Carries(m, k) /\ Carries(n, k) => m = n

\* The private key of a key not yet used is there, unless it was purged because
\* no packet could need it; and that of a packet sealed in time is there.
PrivateKeysKept ==
    /\ \A k \in Keys : k[1] <= latest /\ uses[k] = 0
                          => local[k] = "available" \/ clock[k[1]] = "dead"
    /\ \A m \in net : \A k \in Keys :
          Carries(m, k) /\ ~m.late => local[k] = "available" /\ clock[k[1]] # "dead"

PrekeyInv ==
    /\ PrekeyTypes /\ GenerationsInOrder /\ ReservationsExclusive /\ PacketsDistinct /\ PrivateKeysKept

\* A stock that is not empty has an oldest key (ORDER BY generation, rowid).
LEMMA OldestIsInStock ==
    ASSUME NEW K \in SUBSET Keys, K # {}
    PROVE  Oldest(K) \in K
<1> USE PrekeyAssumption
<1>1. ASSUME NEW S \in SUBSET Nat, S # {} PROVE \E m \in S : \A n \in S : m <= n
  <2>1. IsWellFoundedOn(OpToRel(<,Nat), Nat)
    BY NatLessThanWellFounded
  <2>2. PICK x \in S : \A y \in S : <<y, x>> \notin OpToRel(<,Nat)
    BY <1>1, <2>1, WFMin
  <2>3. \A y \in S : ~(y < x)
    BY <2>2 DEF OpToRel
  <2>. QED  BY <2>3
<1>2. \A k \in K : k[1] \in Nat /\ k[2] \in Nat /\ k = <<k[1], k[2]>>
  BY DEF Keys, Gens
<1> DEFINE G == {k[1] : k \in K}
<1>3. PICK g \in G : \A h \in G : g <= h
  <2>1. G \in SUBSET Nat /\ G # {}
    BY <1>2
  <2> HIDE DEF G
  <2>. QED  BY <2>1, <1>1
<1> DEFINE J == {k[2] : k \in {l \in K : l[1] = g}}
<1>4. PICK j \in J : \A h \in J : j <= h
  <2>1. J \in SUBSET Nat /\ J # {}
    BY <1>2, <1>3
  <2> HIDE DEF J
  <2>. QED  BY <2>1, <1>1
<1>5. PICK k \in K : k[1] = g /\ k[2] = j
  BY <1>4
<1>6. \A l \in K : k[1] < l[1] \/ (k[1] = l[1] /\ k[2] <= l[2])
  <2> SUFFICES ASSUME NEW l \in K PROVE k[1] < l[1] \/ (k[1] = l[1] /\ k[2] <= l[2])
    OBVIOUS
  <2>1. g <= l[1] /\ g \in Nat /\ l[1] \in Nat
    BY <1>2, <1>3
  <2>2. CASE l[1] = g
    BY <2>2, <1>4, <1>5
  <2>3. CASE l[1] # g
    BY <2>1, <2>3, <1>5
  <2>. QED  BY <2>2, <2>3
<1>. QED  BY <1>5, <1>6 DEF Oldest

\* No interleaving of sending processes, no death between reservation, sealing
\* and binding, no repeated or reordered bundle makes a one-time key seal two
\* packets, and purging never takes the private key of a packet sealed in time
\* (reserve_peer_prekey, bind_peer_prekey, import_peer_prekey_bundle, purge).
THEOREM PrekeysServeOnce == Spec => []KeysServeOnce
<1>a. /\ \A k \in Keys : k[1] \in Gens /\ k[1] \in Nat /\ k # Static
      /\ NoHold.kind = "none" /\ Static \notin Keys
      /\ \A h \in Holds : h # NoHold => /\ h.kind \in {"data", "request"} /\ h.key \in Keys \cup {Static}
                                        /\ h.kind = "request" => h.known \in 0..MaxGen
  BY PrekeyAssumption DEF Keys, Gens, NoHold, Holds
<1>b. \A m \in Packets : \/ m.kind = "bundle" /\ m.gen \in Gens
                         \/ /\ m.kind \in {"data", "request"} /\ m.key \in Keys \cup {Static} /\ m.late \in BOOLEAN
                            /\ m.kind = "request" => m.known \in 0..MaxGen
  BY DEF Packets
<1>1. Init => PrekeyInv
  <2> SUFFICES ASSUME Init PROVE PrekeyInv
    OBVIOUS
  <2>1. MaxGen \in Nat /\ 0 \in 0..MaxGen
    BY PrekeyAssumption
  <2>2. PrekeyTypes
    BY <2>1 DEF Init, PrekeyTypes, Holds
  <2>3. \A k \in Keys : ~(k[1] <= 0)
    BY DEF Keys, Gens
  <2>. QED
    BY <2>1, <2>2, <2>3
       DEF Init, PrekeyInv, GenerationsInOrder, ReservationsExclusive, PacketsDistinct, PrivateKeysKept, Holding
<1>2. PrekeyInv /\ [Next]_vars => PrekeyInv'
  <2> SUFFICES ASSUME PrekeyInv, [Next]_vars PROVE PrekeyInv'
    OBVIOUS
  <2> USE DEF PrekeyInv
  <2>a. latest \in Nat /\ imported \in Nat /\ MaxGen \in Nat
    BY PrekeyAssumption DEF PrekeyTypes
  \* A step that leaves the keys, the packets and the clock alone.
  <2>1. ASSUME UNCHANGED <<latest, imported, local, peer, hold, net, clock, uses>> PROVE PrekeyInv'
    BY <2>1
       DEF PrekeyTypes, GenerationsInOrder, ReservationsExclusive, PacketsDistinct, PrivateKeysKept, Holding, Carries
  \* A step of the issuer or of the transport: packets go, a bundle may come,
  \* and a private key goes only with the packet that carried it.
  <2>2. ASSUME UNCHANGED <<imported, peer, hold, clock, uses>>,
               latest' \in 0..MaxGen, latest <= latest',
               local' \in [Keys -> {"none", "available", "consumed", "expired"}],
               \A n \in net' : n \in net \/ (n = [kind |-> "bundle", gen |-> latest'] /\ latest' \in Gens),
               \A k \in Keys : k[1] <= latest' /\ ~(k[1] <= latest) => local'[k] = "available",
               \A k \in Keys : \/ local'[k] = local[k] \/ local'[k] = "available"
                               \/ uses[k] = 1 /\ \A n \in net' : ~Carries(n, k)
        PROVE  PrekeyInv'
    <3>1. [kind |-> "bundle", gen |-> latest'] \in Packets \/ latest' \notin Gens
      BY DEF Packets
    <3>2. PrekeyTypes'
      BY <2>2, <3>1 DEF PrekeyTypes
    <3>3. GenerationsInOrder'
      <4>1. imported <= latest' /\ \A n \in net : n.kind = "bundle" => n.gen <= latest'
        <5>1. ASSUME NEW n \in net, n.kind = "bundle" PROVE n.gen \in Nat /\ n.gen <= latest
          BY <5>1, <1>b, <2>a DEF PrekeyTypes, GenerationsInOrder, Gens
        <5>. QED  BY <2>2, <2>a, <5>1 DEF GenerationsInOrder
      <4>2. \A n \in net' : n.kind = "bundle" => n.gen <= latest'
        BY <2>2, <4>1, <2>a
      <4>. QED  BY <2>2, <4>1, <4>2 DEF GenerationsInOrder
    <3>4. ReservationsExclusive'
      BY <2>2 DEF ReservationsExclusive, Holding
    <3>5. \A n \in net' : \A k \in Keys : Carries(n, k) => n \in net
      BY <2>2 DEF Carries
    <3>6. PacketsDistinct'
      BY <2>2, <3>5 DEF PacketsDistinct, Carries
    <3>7. PrivateKeysKept'
      <4>1. ASSUME NEW k \in Keys, k[1] <= latest', uses[k] = 0
            PROVE  local'[k] = "available" \/ clock[k[1]] = "dead"
        BY <2>2, <4>1 DEF PrivateKeysKept
      <4>2. ASSUME NEW n \in net', NEW k \in Keys, Carries(n, k), ~n.late
            PROVE  local'[k] = "available" /\ clock[k[1]] # "dead"
        BY <2>2, <3>5, <4>2 DEF PrivateKeysKept
      <4>. QED  BY <2>2, <4>1, <4>2 DEF PrivateKeysKept, Carries
    <3>. QED  BY <3>2, <3>3, <3>4, <3>6, <3>7
  \* A reservation, for a message or for a request.
  <2>3. ASSUME NEW w \in Workers, NEW item \in Holds, item # NoHold, item.key = NextKey, Reserve(w, item)
        PROVE  PrekeyInv'
    <3>1. /\ hold[w] = NoHold /\ hold' = [hold EXCEPT ![w] = item] /\ peer' = Reserved(NextKey)
          /\ UNCHANGED <<latest, local, imported, net, clock, uses>>
      BY <2>3 DEF Reserve, issuer
    <3>2. NextKey # Static => NextKey \in Keys /\ peer[NextKey] = "available"
      <4>1. Stock \in SUBSET Keys
        BY DEF Stock
      <4>2. Stock # {} => Oldest(Stock) \in Stock
        BY <4>1, OldestIsInStock
      <4>. QED  BY <4>2 DEF NextKey, Stock
    <3>3. \A k \in Keys : k # NextKey => peer'[k] = peer[k]
      BY <3>1, <3>2 DEF Reserved, PrekeyTypes
    <3>4. NextKey \in Keys => peer'[NextKey] = "reserved" /\ uses[NextKey] # 1 /\ \A v \in Workers : ~Holding(v, NextKey)
      BY <3>1, <3>2, <1>a DEF Reserved, PrekeyTypes, ReservationsExclusive
    <3>5. PrekeyTypes'
      BY <3>1, <3>2 DEF PrekeyTypes, Reserved
    <3>6. GenerationsInOrder'
      BY <3>1, <3>2, <3>3, <1>a DEF GenerationsInOrder
    <3>7. \A v \in Workers : \A k \in Keys :
             Holding(v, k)' <=> (v # w /\ Holding(v, k)) \/ (v = w /\ k = NextKey)
      BY <2>3, <3>1 DEF Holding, PrekeyTypes
    <3>8. ReservationsExclusive'
      BY <3>1, <3>3, <3>4, <3>7 DEF ReservationsExclusive
    <3>. QED  BY <3>1, <3>5, <3>6, <3>8 DEF PacketsDistinct, PrivateKeysKept, Carries
  <2>4. ASSUME NEW w \in Workers, Queue(w) \/ RequestReplenishment(w) PROVE PrekeyInv'
    <3>1. NextKey \in Keys \cup {Static}
      <4>1. Stock \in SUBSET Keys
        BY DEF Stock
      <4>. QED  BY <4>1, OldestIsInStock DEF NextKey
    <3>2. CASE Queue(w)
      <4> DEFINE item == [kind |-> "data", key |-> NextKey]
      <4>1. item \in Holds /\ item.kind = "data" /\ item.key = NextKey
        BY <3>1 DEF Holds
      <4>2. item # NoHold /\ Reserve(w, item)
        BY <3>2, <4>1, <1>a DEF Queue
      <4> HIDE DEF item
      <4>. QED  BY <2>3, <4>1, <4>2
    <3>3. CASE RequestReplenishment(w)
      <4> DEFINE item == [kind |-> "request", key |-> NextKey, known |-> imported]
      <4>1. item \in Holds /\ item.kind = "request" /\ item.key = NextKey
        BY <3>1 DEF Holds, PrekeyTypes
      <4>2. item # NoHold /\ Reserve(w, item)
        BY <3>3, <4>1, <1>a DEF RequestReplenishment
      <4> HIDE DEF item
      <4>. QED  BY <2>3, <4>1, <4>2
    <3>. QED  BY <2>4, <3>2, <3>3
  <2>5. ASSUME NEW w \in Workers, Seal(w) PROVE PrekeyInv'
    <3> DEFINE item == hold[w]
               K == item.key
               m == Sealed(item)
    <3>1. /\ item # NoHold /\ item \in Holds
          /\ K # Static => peer[K] = "reserved"
          /\ peer' = IF K = Static THEN peer ELSE [peer EXCEPT ![K] = "used"]
          /\ uses' = IF K = Static THEN uses ELSE [uses EXCEPT ![K] = @ + 1]
          /\ net' = net \cup {m} /\ hold' = [hold EXCEPT ![w] = NoHold]
          /\ UNCHANGED <<latest, local, imported, clock>>
      BY <2>5 DEF Seal, issuer, PrekeyTypes
    <3>2. K \in Keys \cup {Static}
      BY <3>1, <1>a
    <3>3. /\ m \in Packets /\ m.kind # "bundle" /\ m.key = K
          /\ m.late = (K # Static /\ ~Fresh(K))
      <4>1. CASE item.kind = "data"
        BY <3>2, <4>1 DEF Sealed, Packets
      <4>2. CASE item.kind # "data"
        BY <3>1, <3>2, <4>2, <1>a DEF Sealed, Packets
      <4>. QED  BY <4>1, <4>2
    <3> HIDE DEF item, m, K
    <3>4. /\ K \in Keys => peer[K] = "reserved" /\ uses[K] = 0 /\ peer'[K] = "used" /\ uses'[K] = 1
          /\ \A k \in Keys : k # K => peer'[k] = peer[k] /\ uses'[k] = uses[k]
          /\ K \in Keys => \A n \in net : ~Carries(n, K)
      <4>1. K \in Keys => peer[K] = "reserved" /\ uses[K] = 0
        BY <3>1, <1>a DEF ReservationsExclusive, PrekeyTypes
      <4>2. K \in Keys => peer'[K] = "used" /\ uses'[K] = 1
        BY <3>1, <4>1, <1>a DEF PrekeyTypes
      <4>3. \A k \in Keys : k # K => peer'[k] = peer[k] /\ uses'[k] = uses[k]
        BY <3>1, <3>2 DEF PrekeyTypes
      <4>. QED  BY <4>1, <4>2, <4>3 DEF PacketsDistinct
    <3>5. PrekeyTypes'
      <4>1. hold' \in [Workers -> Holds]
        BY <3>1 DEF PrekeyTypes, Holds
      <4>2. uses' \in [Keys -> {0, 1}]
        BY <3>1, <3>2, <3>4 DEF PrekeyTypes
      <4>3. peer' \in [Keys -> {"none", "available", "reserved", "used", "burned", "expired"}]
        BY <3>1, <3>2 DEF PrekeyTypes
      <4>. QED  BY <3>1, <3>3, <4>1, <4>2, <4>3 DEF PrekeyTypes
    <3>6. GenerationsInOrder'
      BY <3>1, <3>2, <3>3, <3>4 DEF GenerationsInOrder
    <3>7. Holding(w, K)
      BY <3>1 DEF Holding, item, K
    <3>8. \A v \in Workers : \A k \in Keys : Holding(v, k)' => v # w /\ Holding(v, k)
      BY <3>1 DEF Holding, PrekeyTypes
    <3>9. ReservationsExclusive'
      <4>1. ASSUME NEW k \in Keys, uses'[k] = 1 PROVE peer'[k] = "used"
        BY <3>4, <4>1 DEF ReservationsExclusive
      <4>2. ASSUME NEW v \in Workers, NEW k \in Keys, Holding(v, k)'
            PROVE  peer'[k] = "reserved" /\ \A u \in Workers : Holding(u, k)' => u = v
        <5>1. v # w /\ Holding(v, k)
          BY <3>8, <4>2
        <5>2. k # K
          BY <5>1, <3>7 DEF ReservationsExclusive
        <5>. QED  BY <3>4, <3>8, <5>1, <5>2 DEF ReservationsExclusive
      <4>. QED  BY <4>1, <4>2 DEF ReservationsExclusive
    <3>10. \A k \in Keys : Carries(m, k) <=> k = K
      BY <3>3 DEF Carries
    <3>11. PacketsDistinct'
      <4>1. ASSUME NEW n \in net', NEW k \in Keys, Carries(n, k) PROVE uses'[k] = 1
        BY <3>1, <3>4, <3>10, <4>1 DEF PacketsDistinct
      <4>2. ASSUME NEW n \in net', NEW o \in net', NEW k \in Keys, Carries(n, k), Carries(o, k) PROVE n = o
        BY <3>1, <3>4, <3>10, <4>2 DEF PacketsDistinct
      <4>. QED  BY <4>1, <4>2 DEF PacketsDistinct, Carries
    <3>12. PrivateKeysKept'
      <4>1. ASSUME NEW k \in Keys, k[1] <= latest, uses'[k] = 0
            PROVE  local[k] = "available" \/ clock[k[1]] = "dead"
        BY <3>4, <4>1 DEF PrivateKeysKept
      <4>2. ASSUME K \in Keys, ~m.late PROVE local[K] = "available" /\ clock[K[1]] # "dead"
        <5>1. clock[K[1]] = "fresh"
          BY <3>3, <4>2, <1>a DEF Fresh
        <5>2. K[1] <= imported /\ imported <= latest /\ K[1] \in Nat
          BY <3>4, <4>2, <1>a DEF GenerationsInOrder
        <5>3. K[1] <= latest
          BY <5>2, <2>a
        <5>. QED  BY <3>4, <4>2, <5>1, <5>3 DEF PrivateKeysKept
      <4>3. ASSUME NEW n \in net', NEW k \in Keys, Carries(n, k), ~n.late
            PROVE  local[k] = "available" /\ clock[k[1]] # "dead"
        BY <3>1, <3>10, <4>2, <4>3 DEF PrivateKeysKept
      <4>. QED  BY <3>1, <4>1, <4>3 DEF PrivateKeysKept, Carries
    <3>. QED  BY <3>5, <3>6, <3>9, <3>11, <3>12
  <2>6. ASSUME NEW w \in Workers, SealFails(w) PROVE PrekeyInv'
    <3> DEFINE K == hold[w].key
    <3>1. PICK s \in {"burned", "reserved", "used"} :
             peer' = IF K = Static THEN peer ELSE [peer EXCEPT ![K] = s]
      BY <2>6 DEF SealFails, BurnedKey
    <3>2. /\ hold[w] # NoHold /\ hold[w] \in Holds /\ hold' = [hold EXCEPT ![w] = NoHold]
          /\ UNCHANGED <<latest, local, imported, net, clock, uses>>
      BY <2>6 DEF SealFails, issuer, PrekeyTypes
    <3>3. K \in Keys \cup {Static} /\ Holding(w, K)
      BY <3>2, <1>a DEF Holding
    <3> HIDE DEF K
    <3>4. /\ K \in Keys => peer[K] = "reserved" /\ uses[K] = 0
          /\ \A k \in Keys : k # K => peer'[k] = peer[k]
      BY <3>1, <3>2, <3>3, <1>a DEF PrekeyTypes, ReservationsExclusive
    <3>5. PrekeyTypes'
      <4>1. hold' \in [Workers -> Holds]
        BY <3>2 DEF PrekeyTypes, Holds
      <4>2. peer' \in [Keys -> {"none", "available", "reserved", "used", "burned", "expired"}]
        BY <3>1, <3>3 DEF PrekeyTypes
      <4>. QED  BY <3>2, <4>1, <4>2 DEF PrekeyTypes
    <3>6. GenerationsInOrder'
      BY <3>2, <3>4 DEF GenerationsInOrder
    <3>7. \A v \in Workers : \A k \in Keys : Holding(v, k)' => v # w /\ Holding(v, k)
      BY <3>2 DEF Holding, PrekeyTypes
    <3>8. ReservationsExclusive'
      <4>1. ASSUME NEW v \in Workers, NEW k \in Keys, Holding(v, k)'
            PROVE  peer'[k] = "reserved" /\ \A u \in Workers : Holding(u, k)' => u = v
        <5>1. v # w /\ Holding(v, k)
          BY <3>7, <4>1
        <5>2. k # K
          BY <5>1, <3>3 DEF ReservationsExclusive
        <5>. QED  BY <3>4, <3>7, <5>1, <5>2 DEF ReservationsExclusive
      <4>2. ASSUME NEW k \in Keys, uses[k] = 1 PROVE peer'[k] = "used"
        BY <3>4, <4>2 DEF ReservationsExclusive
      <4>. QED  BY <3>2, <4>1, <4>2 DEF ReservationsExclusive
    <3>. QED  BY <3>2, <3>5, <3>6, <3>8 DEF PacketsDistinct, PrivateKeysKept, Carries
  \* The packet m is opened or dropped; nothing else carries its key.
  <2>7. ASSUME NEW m \in net, NEW k \in Keys PROVE Carries(m, k) => uses[k] = 1 /\ \A n \in net \ {m} : ~Carries(n, k)
    BY <2>7 DEF PacketsDistinct
  <2>8. ASSUME NEW m \in net, m.kind # "bundle"
        PROVE  /\ Consumed(m) \in [Keys -> {"none", "available", "consumed", "expired"}]
               /\ \A k \in Keys : ~Carries(m, k) => Consumed(m)[k] = local[k]
    <3>1. m.key \in Keys \cup {Static}
      BY <2>8, <1>b DEF PrekeyTypes
    <3>. QED  BY <2>8, <3>1 DEF Consumed, Carries, PrekeyTypes
  <2>9. ASSUME NEW m \in net, DeliverData(m) \/ DeclineRequest(m) PROVE PrekeyInv'
    <3>1. /\ m.kind # "bundle" /\ net' = net \ {m} /\ (local' = local \/ local' = Consumed(m))
          /\ UNCHANGED <<latest, imported, peer, hold, clock, uses>>
      BY <2>9 DEF DeliverData, DeclineRequest, requester
    <3>2. latest' \in 0..MaxGen /\ latest <= latest'
      BY <3>1, <2>a DEF PrekeyTypes
    <3>3. local' \in [Keys -> {"none", "available", "consumed", "expired"}]
      BY <3>1, <2>8 DEF PrekeyTypes
    <3>4. ASSUME NEW k \in Keys
          PROVE  local'[k] = local[k] \/ (uses[k] = 1 /\ \A n \in net' : ~Carries(n, k))
      BY <3>1, <2>7, <2>8
    <3>. QED  BY <2>2, <3>1, <3>2, <3>3, <3>4
  <2>10. ASSUME NEW m \in net, HandlePrekeyRequest(m) PROVE PrekeyInv'
    <3> DEFINE g == AnswerGen(m.known)
    <3>1. /\ m.kind = "request" /\ ~Declined(m.known) /\ g <= MaxGen /\ latest' = g
          /\ local' = IF g > latest THEN Generated(g, Consumed(m)) ELSE Consumed(m)
          /\ \/ net' = (net \ {m}) \cup {[kind |-> "bundle", gen |-> g]} \/ net' = net \ {m}
          /\ UNCHANGED <<imported, peer, hold, clock, uses>>
      BY <2>10 DEF HandlePrekeyRequest, requester
    <3>2. m.known \in Nat
      BY <3>1, <1>b, <2>a DEF PrekeyTypes
    <3>3. g \in Nat /\ g # 0 /\ (g = latest \/ g = latest + 1)
      BY <3>2, <2>a DEF AnswerGen
    <3> HIDE DEF g
    <3>4. latest' \in 0..MaxGen /\ latest <= latest' /\ latest' \in Gens
      BY <3>1, <3>3, <2>a DEF Gens
    <3>5. local' \in [Keys -> {"none", "available", "consumed", "expired"}]
      BY <3>1, <2>8 DEF Generated
    <3>6. ASSUME NEW k \in Keys
          PROVE  \/ local'[k] = local[k] \/ local'[k] = "available"
                 \/ uses[k] = 1 /\ \A n \in net' : ~Carries(n, k)
      <4>1. local'[k] = Consumed(m)[k] \/ local'[k] = "available"
        BY <3>1 DEF Generated
      <4>2. Carries(m, k) => \A n \in net' : ~Carries(n, k)
        BY <3>1, <2>7 DEF Carries
      <4>. QED  BY <3>1, <4>1, <4>2, <2>7, <2>8
    <3>7. ASSUME NEW k \in Keys, k[1] <= latest', ~(k[1] <= latest) PROVE local'[k] = "available"
      <4>1. k[1] = g /\ g > latest
        BY <3>1, <3>3, <3>7, <1>a, <2>a
      <4>. QED  BY <3>1, <4>1 DEF Generated
    <3>8. \A n \in net' : n \in net \/ (n = [kind |-> "bundle", gen |-> latest'] /\ latest' \in Gens)
      BY <3>1, <3>4
    <3>9. UNCHANGED <<imported, peer, hold, clock, uses>>
      BY <3>1
    <3>. QED  BY <2>2, <3>4, <3>5, <3>6, <3>7, <3>8, <3>9
  <2>11. CASE IssueBundle
    <3>1. /\ latest' = latest + 1 /\ latest + 1 <= MaxGen /\ local' = Generated(latest + 1, local)
          /\ net' = net \cup {[kind |-> "bundle", gen |-> latest']}
          /\ UNCHANGED <<imported, peer, hold, clock, uses>>
      BY <2>11, <2>a DEF IssueBundle, requester
    <3>2. latest' \in 0..MaxGen /\ latest <= latest' /\ latest' \in Gens
      BY <3>1, <2>a DEF Gens
    <3>3. local' \in [Keys -> {"none", "available", "consumed", "expired"}]
      BY <3>1 DEF Generated, PrekeyTypes
    <3>4. \A k \in Keys : local'[k] = local[k] \/ local'[k] = "available"
      BY <3>1 DEF Generated
    <3>5. ASSUME NEW k \in Keys, k[1] <= latest', ~(k[1] <= latest) PROVE local'[k] = "available"
      <4>1. k[1] = latest + 1
        BY <3>1, <3>5, <1>a, <2>a
      <4>. QED  BY <3>1, <4>1 DEF Generated
    <3>. QED  BY <2>2, <3>1, <3>2, <3>3, <3>4, <3>5
  <2>12. ASSUME NEW m \in net, HandlePrekeyBundle(m) PROVE PrekeyInv'
    <3>1. m.kind = "bundle" /\ m.gen \in Gens /\ m.gen \in Nat /\ m.gen <= latest
      BY <2>12, <1>b DEF HandlePrekeyBundle, PrekeyTypes, GenerationsInOrder, Gens
    <3>2. net' \subseteq net /\ UNCHANGED <<latest, local, hold, clock, uses>>
      BY <2>12 DEF HandlePrekeyBundle, issuer
    <3>3. CASE UNCHANGED <<peer, imported>>
      BY <3>2, <3>3
         DEF PrekeyTypes, GenerationsInOrder, ReservationsExclusive, PacketsDistinct, PrivateKeysKept, Holding, Carries
    <3>4. CASE /\ ~(m.gen <= imported) /\ imported' = m.gen
               /\ peer' = [k \in Keys |-> IF k[1] = m.gen THEN "available" ELSE peer[k]]
      <4>1. \A k \in Keys : k[1] = m.gen => peer[k] = "none"
        BY <3>4 DEF GenerationsInOrder
      <4>2. PrekeyTypes'
        BY <3>1, <3>2, <3>4, <2>a DEF PrekeyTypes, Gens
      <4>3. GenerationsInOrder'
        <5>1. ASSUME NEW k \in Keys, peer'[k] # "none" PROVE k[1] <= m.gen
          <6>1. CASE k[1] = m.gen
            BY <6>1, <3>1
          <6>2. CASE k[1] # m.gen
            <7>1. k[1] <= imported /\ k[1] \in Nat
              BY <3>4, <5>1, <6>2, <1>a DEF GenerationsInOrder
            <7>. QED  BY <7>1, <3>1, <3>4, <2>a
          <6>. QED  BY <6>1, <6>2
        <5>. QED  BY <3>1, <3>2, <3>4, <5>1 DEF GenerationsInOrder
      <4>4. ReservationsExclusive'
        BY <3>2, <3>4, <4>1 DEF ReservationsExclusive, Holding
      <4>. QED  BY <3>2, <4>2, <4>3, <4>4 DEF PacketsDistinct, PrivateKeysKept, Carries
    <3>5. m.gen > imported <=> ~(m.gen <= imported)
      BY <3>1, <2>a
    <3>. QED  BY <2>12, <3>3, <3>4, <3>5 DEF HandlePrekeyBundle, TakesBundle
  <2>13. ASSUME NEW m \in net, Lose(m) PROVE PrekeyInv'
    BY <2>13
       DEF Lose, issuer, requester, PrekeyTypes, GenerationsInOrder, ReservationsExclusive, PacketsDistinct,
           PrivateKeysKept, Holding, Carries
  <2>14. ASSUME NEW g \in Gens, Expire(g) PROVE PrekeyInv'
    <3>1. UNCHANGED <<latest, local, imported, peer, hold, net, uses>>
      BY <2>14 DEF Expire, issuer, requester
    <3>2. /\ clock' \in [Gens -> {"fresh", "old", "dead"}]
          /\ \A h \in Gens : clock[h] = "dead" => clock'[h] = "dead"
      BY <2>14 DEF Expire, PrekeyTypes
    <3>3. ASSUME NEW n \in net, NEW k \in Keys, Carries(n, k), ~n.late PROVE clock'[k[1]] # "dead"
      <4>1. clock[k[1]] # "dead"
        BY <3>3 DEF PrivateKeysKept
      <4>2. k[1] = g => k \in Batch(g)
        BY DEF Batch
      <4>. QED  BY <2>14, <3>3, <4>1, <4>2, <1>a DEF Expire, Carries, PrekeyTypes
    <3>4. PrivateKeysKept'
      BY <3>1, <3>2, <3>3, <1>a DEF PrivateKeysKept, Carries
    <3>. QED
      BY <3>1, <3>2, <3>4 DEF PrekeyTypes, GenerationsInOrder, ReservationsExclusive, PacketsDistinct, Holding, Carries
  <2>15. CASE PurgePeer
    <3>1. /\ UNCHANGED <<latest, local, imported, hold, net, clock, uses>>
          /\ \A k \in Keys : peer'[k] = peer[k] \/ (peer[k] = "available" /\ peer'[k] = "expired")
          /\ peer' \in [Keys -> {"none", "available", "reserved", "used", "burned", "expired"}]
      BY <2>15 DEF PurgePeer, issuer, PrekeyTypes
    <3>2. GenerationsInOrder'
      BY <3>1 DEF GenerationsInOrder
    <3>3. ReservationsExclusive'
      BY <3>1 DEF ReservationsExclusive, Holding
    <3>. QED  BY <3>1, <3>2, <3>3 DEF PrekeyTypes, PacketsDistinct, PrivateKeysKept, Carries
  <2>16. CASE PurgeLocal
    <3>1. /\ UNCHANGED <<latest, imported, peer, hold, net, clock, uses>>
          /\ \A k \in Keys : local'[k] = local[k] \/ clock[k[1]] = "dead"
          /\ local' \in [Keys -> {"none", "available", "consumed", "expired"}]
      BY <2>16 DEF PurgeLocal, PastCutoff, requester, PrekeyTypes
    <3>2. PrivateKeysKept'
      BY <3>1 DEF PrivateKeysKept, Carries
    <3>. QED
      BY <3>1, <3>2 DEF PrekeyTypes, GenerationsInOrder, ReservationsExclusive, PacketsDistinct, Holding, Carries
  <2>17. CASE IntervalElapses \/ ForgetAnswers \/ UNCHANGED vars
    BY <2>1, <2>17 DEF IntervalElapses, ForgetAnswers, vars, issuer, requester
  <2>. QED
    BY <2>4, <2>5, <2>6, <2>9, <2>10, <2>11, <2>12, <2>13, <2>14, <2>15, <2>16, <2>17 DEF Next
<1>3. PrekeyInv => KeysServeOnce
  <2> SUFFICES ASSUME PrekeyInv PROVE KeysServeOnce
    OBVIOUS
  <2>1. \A k \in Keys : uses[k] <= 1
    BY DEF PrekeyInv, PrekeyTypes
  <2>2. ASSUME NEW m \in net, m.kind # "bundle", ~m.late PROVE Openable(m)
    BY <2>2, <1>b DEF PrekeyInv, PrekeyTypes, PrivateKeysKept, Carries, Openable
  <2>. QED  BY <2>1, <2>2 DEF KeysServeOnce
<1>. QED  BY <1>1, <1>2, <1>3, PTL DEF Spec
=============================================================================
