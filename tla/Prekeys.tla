------------------------------ MODULE Prekeys -------------------------------
(***************************************************************************)
(* One-time prekeys between a requester, who sends messages, and an issuer,*)
(* who receives them (prekeys.py; node.py queue, _queue_prekey_control,    *)
(* request_prekey_replenishment, _handle_prekey_request and                *)
(* _handle_prekey_bundle; the tables local_prekeys at the issuer and       *)
(* peer_prekeys, peer_prekey_bundles at the requester).                    *)
(*                                                                         *)
(* A key is a pair <<generation, index>>.  A packet in transit carries the *)
(* key it is sealed to, or Static.  Transit may reorder and lose packets;  *)
(* a packet that intake rejects, or whose handler dies after the inbox     *)
(* commit, is lost as well (PacketIntake has the details).  Senders are    *)
(* the processes of the requester that share its store.                    *)
(*                                                                         *)
(* The clock of a generation has three values: fresh, old (expires_ms has  *)
(* passed) and dead (MAX_TTL_SECONDS and MAX_CLOCK_SKEW_MS later).         *)
(***************************************************************************)
EXTENDS Naturals, FiniteSets, FiniteSetsExt

CONSTANTS
    MaxGen,     \* bound on generations
    BatchSize,  \* prekey_batch_size
    LowWatermark, \* prekey_low_watermark
    Workers,    \* sending processes of the requester
    Static,     \* the key of a packet in static mode
    Require,    \* prekey_policy is "require", otherwise "prefer"
    MaxTransit, \* bound on packets in transit or about to be sealed
    MaxFaults   \* bound on lost packets, crashes and failures

Gens == 1..MaxGen
Keys == Gens \X (1..BatchSize)

ASSUME PrekeyAssumption ==
    /\ MaxGen \in Nat \ {0}
    /\ BatchSize \in Nat \ {0}
    /\ LowWatermark \in Nat
    /\ Static \notin Keys
    /\ Require \in BOOLEAN
    /\ MaxTransit \in Nat \ {0} /\ MaxFaults \in Nat

VARIABLES
    latest,     \* issuer: local_prekey_generation of the requester
    local,      \* issuer: local_prekeys.state
    answered,   \* issuer: known generations in _prekey_response_last_ms
    peer,       \* requester: peer_prekeys.state
    imported,   \* requester: newest peer_prekey_bundles.generation
    asked,      \* requester: known_generation of the request in the interval
    hold,       \* requester: what each sending process is about to seal
    net,        \* packets in transit
    clock,      \* Gens -> fresh, old, dead
    faults,     \* number of faults so far
    uses        \* history: packets sealed to a key

issuer == <<latest, local, answered>>
requester == <<peer, imported, asked, hold>>
vars == <<issuer, requester, net, clock, faults, uses>>

NoHold == [kind |-> "none"]
Packets ==
    [kind : {"data"}, key : Keys \cup {Static}, late : BOOLEAN]
      \cup [kind : {"request"}, key : Keys \cup {Static}, late : BOOLEAN, known : 0..MaxGen]
      \cup [kind : {"bundle"}, gen : Gens]
Holds ==
    {NoHold} \cup [kind : {"data"}, key : Keys \cup {Static}]
      \cup [kind : {"request"}, key : Keys \cup {Static}, known : 0..MaxGen]

\* The tables and local variables hold only values the code can put there.
TypeOK ==
    /\ latest \in 0..MaxGen
    /\ local \in [Keys -> {"none", "available", "consumed", "expired"}]
    /\ answered \subseteq 0..MaxGen
    /\ peer \in [Keys -> {"none", "available", "reserved", "used", "burned", "expired"}]
    /\ imported \in 0..MaxGen
    /\ asked \subseteq 0..MaxGen
    /\ hold \in [Workers -> Holds]
    /\ net \subseteq Packets
    /\ clock \in [Gens -> {"fresh", "old", "dead"}]
    /\ faults \in 0..MaxFaults
    /\ uses \in [Keys -> Nat]

Init ==
    /\ latest = 0
    /\ local = [k \in Keys |-> "none"]
    /\ answered = {}
    /\ peer = [k \in Keys |-> "none"]
    /\ imported = 0
    /\ asked = {}
    /\ hold = [w \in Workers |-> NoHold]
    /\ net = {}
    /\ clock = [g \in Gens |-> "fresh"]
    /\ faults = 0
    /\ uses = [k \in Keys |-> 0]

Batch(g) == {k \in Keys : k[1] = g}
Fresh(k) == clock[k[1]] = "fresh"

-----------------------------------------------------------------------------
(* Sending at the requester.                                               *)

\* peer_prekey_inventory: unexpired keys in stock.
Stock == {k \in Keys : peer[k] = "available" /\ Fresh(k)}

\* Oldest generation first, then insertion order.
Oldest(K) == CHOOSE k \in K :
    \A j \in K : k[1] < j[1] \/ (k[1] = j[1] /\ k[2] <= j[2])

\* reserve_peer_prekey finds an available row and reserves it in the same
\* BEGIN IMMEDIATE transaction.
Reserved(k) == IF k = Static THEN peer ELSE [peer EXCEPT ![k] = "reserved"]

\* reserve_peer_prekey, or static mode when there is no stock.
NextKey == IF Stock = {} THEN Static ELSE Oldest(Stock)

\* Bound: there is room for one more packet.
Room == Cardinality(net) + Cardinality({w \in Workers : hold[w] # NoHold}) < MaxTransit

Reserve(w, item) ==
    /\ hold[w] = NoHold
    /\ Room
    /\ peer' = Reserved(NextKey)
    /\ hold' = [hold EXCEPT ![w] = item]
    /\ UNCHANGED <<issuer, imported, asked, net, clock, faults, uses>>

\* queue up to the reservation; policy "require" raises without stock.
Queue(w) ==
    /\ Require => Stock # {}
    /\ Reserve(w, [kind |-> "data", key |-> NextKey])

\* request_prekey_replenishment up to the reservation: stock below the
\* watermark, and no request for the same known generation in the interval.
RequestReplenishment(w) ==
    /\ Cardinality(Stock) < LowWatermark
    /\ imported \notin asked
    /\ Reserve(w, [kind |-> "request", key |-> NextKey, known |-> imported])

\* seal_packet, bind_peer_prekey, add_packet, and for a request
\* record_prekey_request.  The packet is late when its prekey expired since
\* the reservation.
Sealed(item) ==
    IF item.kind = "data"
    THEN [kind |-> "data", key |-> item.key, late |-> item.key # Static /\ ~Fresh(item.key)]
    ELSE [kind |-> "request", key |-> item.key, known |-> item.known,
          late |-> item.key # Static /\ ~Fresh(item.key)]

Seal(w) ==
    LET item == hold[w] IN
    /\ item # NoHold
    /\ item.key # Static => peer[item.key] = "reserved"
    /\ peer' = IF item.key = Static THEN peer ELSE [peer EXCEPT ![item.key] = "used"]
    /\ uses' = IF item.key = Static THEN uses ELSE [uses EXCEPT ![item.key] = @ + 1]
    /\ net' = net \cup {Sealed(item)}
    /\ asked' = IF item.kind = "request" THEN {item.known} ELSE asked
    /\ hold' = [hold EXCEPT ![w] = NoHold]
    /\ UNCHANGED <<issuer, imported, clock, faults>>

\* Sealing fails and the reservation is burned; or the process dies, before
\* the bind (the key stays reserved) or after it (the key is used up).
BurnedKey(k) == "burned"

SealFails(w) ==
    LET item == hold[w] IN
    /\ item # NoHold
    /\ faults < MaxFaults
    /\ \E s \in {BurnedKey(item.key), "reserved", "used"} :
          peer' = IF item.key = Static THEN peer ELSE [peer EXCEPT ![item.key] = s]
    /\ hold' = [hold EXCEPT ![w] = NoHold]
    /\ faults' = faults + 1
    /\ UNCHANGED <<issuer, imported, asked, net, clock, uses>>

\* prekey_request_interval passes.
IntervalElapses ==
    /\ asked # {}
    /\ asked' = {}
    /\ UNCHANGED <<issuer, peer, imported, hold, net, clock, faults, uses>>

-----------------------------------------------------------------------------
(* The issuer.                                                             *)

\* _process_local_packet finds the private key and the packet is not late.
Openable(m) == m.key # Static => local[m.key] = "available" /\ ~m.late

\* commit_local_message erases the key.
Consumed(m) == IF m.key = Static THEN local ELSE [local EXCEPT ![m.key] = "consumed"]

\* generate_prekey_bundle: the private batch is committed before the public
\* bundle exists; the batch of an old generation is left alone.
Generated(g, keys) == [k \in Keys |-> IF k[1] = g THEN "available" ELSE keys[k]]

\* An ordinary message arrives, or one that intake rejects.
DeliverData(m) ==
    /\ m \in net
    /\ m.kind = "data" \/ (m.kind = "request" /\ ~Openable(m))
    /\ net' = net \ {m}
    /\ local' = IF Openable(m) THEN Consumed(m) ELSE local
    /\ UNCHANGED <<latest, answered, requester, clock, faults, uses>>

\* The bundle that answers a request: the newest one again when it is newer
\* than the requester's and has not expired, otherwise the next generation.
ResendAlways(known) == IF latest = 0 THEN 1 ELSE latest      \* mutant
AnswerGen(known) ==
    IF latest > known /\ clock[latest] = "fresh" THEN latest ELSE latest + 1

\* A generation the issuer never made is refused; a request id (a function
\* of the known generation) seen within 30 seconds is not answered again.
Declined(known) == known > latest \/ known \in answered

DeclineRequest(m) ==
    /\ m \in net /\ m.kind = "request" /\ Openable(m)
    /\ Declined(m.known)
    /\ net' = net \ {m}
    /\ local' = Consumed(m)
    /\ UNCHANGED <<latest, answered, requester, clock, faults, uses>>

\* _handle_prekey_request after the commit of the request: the batch is made
\* and committed, then the answer is queued and remembered.  The process may
\* die between the two, which also empties the memory.
HandlePrekeyRequest(m) ==
    LET g == AnswerGen(m.known) IN
    /\ m \in net /\ m.kind = "request" /\ Openable(m)
    /\ ~Declined(m.known)
    /\ g <= MaxGen
    /\ latest' = g
    /\ local' = IF g > latest THEN Generated(g, Consumed(m)) ELSE Consumed(m)
    /\ \/ /\ net' = (net \ {m}) \cup {[kind |-> "bundle", gen |-> g]}
          /\ answered' = answered \cup {m.known}
          /\ UNCHANGED faults
       \/ /\ faults < MaxFaults
          /\ faults' = faults + 1
          /\ net' = net \ {m}
          /\ answered' = {}
    /\ UNCHANGED <<requester, clock, uses>>

\* cmd_prekey_generate: the operator issues the next generation as a file.
\* Of two processes that issue at once one fails the generation check of
\* add_local_prekey_batch, and nothing is written for it.
IssueBundle ==
    /\ latest < MaxGen
    /\ Room
    /\ latest' = latest + 1
    /\ local' = Generated(latest + 1, local)
    /\ net' = net \cup {[kind |-> "bundle", gen |-> latest + 1]}
    /\ UNCHANGED <<answered, requester, clock, faults, uses>>

\* Thirty seconds pass, or the node restarts.
ForgetAnswers ==
    /\ answered # {}
    /\ answered' = {}
    /\ UNCHANGED <<latest, local, requester, net, clock, faults, uses>>

-----------------------------------------------------------------------------
(* Bundles at the requester, transit and time.                             *)

\* import_peer_prekey_bundle takes an unexpired bundle of a generation newer
\* than any before; a repeated one changes nothing, an older one is refused.
TakesAnyBundle(g) == clock[g] = "fresh"                      \* mutant
TakesBundle(g) == clock[g] = "fresh" /\ g > imported

\* _handle_prekey_bundle comes before the inbox commit: when the process dies
\* in between, the packet is delivered again.
HandlePrekeyBundle(m) ==
    /\ m \in net /\ m.kind = "bundle"
    /\ IF TakesBundle(m.gen)
       THEN /\ peer' = [k \in Keys |-> IF k[1] = m.gen THEN "available" ELSE peer[k]]
            /\ imported' = m.gen
       ELSE UNCHANGED <<peer, imported>>
    /\ \/ net' = net \ {m} /\ UNCHANGED faults
       \/ faults < MaxFaults /\ faults' = faults + 1 /\ UNCHANGED net
    /\ UNCHANGED <<issuer, asked, hold, clock, uses>>

\* A packet is lost for good: rejected, expired, or its handler died after
\* the inbox commit and before it was answered.
Lose(m) ==
    /\ m \in net
    /\ faults < MaxFaults
    /\ net' = net \ {m}
    /\ faults' = faults + 1
    /\ UNCHANGED <<issuer, requester, clock, uses>>

\* expires_ms passes; MAX_TTL later no packet sealed in time is alive.
Expire(g) ==
    /\ g <= latest
    /\ \/ clock[g] = "fresh" /\ clock' = [clock EXCEPT ![g] = "old"]
       \/ /\ clock[g] = "old" /\ clock' = [clock EXCEPT ![g] = "dead"]
          /\ \A m \in net : m.kind # "bundle" /\ m.key \in Batch(g) => m.late
    /\ UNCHANGED <<issuer, requester, net, faults, uses>>

\* purge at the requester: expired stock.
PurgePeer ==
    LET K == {k \in Keys : peer[k] = "available" /\ ~Fresh(k)} IN
    /\ K # {}
    /\ peer' = [k \in Keys |-> IF k \in K THEN "expired" ELSE peer[k]]
    /\ UNCHANGED <<issuer, imported, asked, hold, net, clock, faults, uses>>

\* purge at the issuer: private keys nobody can need any more.
PastCutoff == {g \in Gens : clock[g] = "dead"}

PurgeLocal ==
    LET K == {k \in Keys : local[k] = "available" /\ k[1] \in PastCutoff} IN
    /\ K # {}
    /\ local' = [k \in Keys |-> IF k \in K THEN "expired" ELSE local[k]]
    /\ UNCHANGED <<latest, answered, requester, net, clock, faults, uses>>

Next ==
    \/ \E w \in Workers : Queue(w) \/ RequestReplenishment(w) \/ Seal(w) \/ SealFails(w)
    \/ \E m \in net : \/ DeliverData(m) \/ DeclineRequest(m) \/ HandlePrekeyRequest(m)
                      \/ HandlePrekeyBundle(m) \/ Lose(m)
    \/ IntervalElapses \/ IssueBundle \/ ForgetAnswers
    \/ \E g \in Gens : Expire(g)
    \/ PurgePeer \/ PurgeLocal

Spec == Init /\ [][Next]_vars

\* maintain_prekeys runs in every round of the node loop, sealing is local
\* work, packets are offered until they are acknowledged, and time passes.
Fairness ==
    /\ SF_vars(\E w \in Workers : RequestReplenishment(w))
    /\ \A w \in Workers : WF_vars(Seal(w))
    /\ WF_vars(IntervalElapses) /\ WF_vars(ForgetAnswers)
    /\ \A m \in Packets : WF_vars(\/ DeliverData(m) \/ DeclineRequest(m)
                                  \/ HandlePrekeyRequest(m) \/ HandlePrekeyBundle(m))

FairSpec == Spec /\ Fairness

-----------------------------------------------------------------------------
(* Properties.                                                             *)

\* No one-time key seals two packets, whatever sending processes race for it,
\* die between reservation and use, or import its bundle again; and a packet
\* sealed in time can be opened whenever it arrives, since the purge of
\* private keys waits for the longest packet lifetime.
KeysServeOnce ==
    /\ \A k \in Keys : uses[k] <= 1
    /\ \A m \in net : m.kind # "bundle" /\ ~m.late => Openable(m)

\* A requester without stock gets a new generation, although requests, answers
\* and processes are lost on the way and bundles arrive late, twice or out of
\* order (the static fallback of _queue_prekey_control).
Replenished ==
    \A g \in 0..(MaxGen - 1) :
        imported = g /\ Stock = {} ~> imported > g \/ clock[MaxGen] # "fresh"
=============================================================================
