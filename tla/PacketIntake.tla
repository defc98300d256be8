---------------------------- MODULE PacketIntake ----------------------------
(***************************************************************************)
(* How one Anet node takes custody of the packets addressed to it          *)
(* (node.py accept_carrier_packet, _process_local_packet and               *)
(* process_local_spool over the PacketStore tables packets, inbox,         *)
(* packet_rejections and local_prekeys).                                   *)
(*                                                                         *)
(* A node has several intake workers: the asyncio loop that serves TLS     *)
(* connections, the asyncio.to_thread worker that polls a carrier, and a   *)
(* separate CLI process that imports a bundle.  They share one SQLite      *)
(* file.  Every store call is atomic (one statement, or BEGIN IMMEDIATE),  *)
(* the sequence of calls of one worker is not: each step below is one      *)
(* store or peer-book access of a worker.                                  *)
(*                                                                         *)
(* Two sorts of time are abstracted.  A packet expires by an Expire step,  *)
(* and the purge cutoffs are the guards of the Purge steps.                *)
(***************************************************************************)
EXTENDS Naturals, FiniteSets

CONSTANTS
    Packets,    \* ids of packets addressed to this node
    Prekeys,    \* ids of local one-time prekeys
    Senders,    \* node ids of remote senders
    Workers,    \* intake workers of the processes that share the store
    NoPacket,   \* the job of an idle worker
    NoKey,      \* the prekey_id of a packet sealed in static mode
    Sender,     \* Packets -> Senders, the signed inner sender
    KeyOf,      \* Packets -> Prekeys \cup {NoKey}, the outer prekey_id
    Kind,       \* Packets -> Kinds
    Undecodable,\* packets whose decryption, signature or body check fails
    PrekeyPeer, \* Prekeys -> Senders, the peer a prekey was issued to
    Pinned,     \* senders with a pinned Peer Card
    MaxAborts   \* bound on transient failures and process deaths

\* Message kinds by what intake does with them: an ordinary message, a probe,
\* an end-to-end receipt, a relationship disclosure, and the two prekey
\* control kinds.
Kinds == {"message", "probe", "receipt", "disclosure", "bundle", "request"}
Transient == {"probe", "receipt", "bundle", "request"}   \* visible = 0
Projected == {"disclosure", "bundle"}                    \* imported first

ASSUME IntakeAssumption ==
    /\ NoKey \notin Prekeys
    /\ NoPacket \notin Packets
    /\ Sender \in [Packets -> Senders]
    /\ KeyOf \in [Packets -> Prekeys \cup {NoKey}]
    /\ Kind \in [Packets -> Kinds]
    /\ Undecodable \subseteq Packets
    /\ PrekeyPeer \in [Prekeys -> Senders]
    /\ Pinned \subseteq Senders
    /\ MaxAborts \in Nat

VARIABLES
    row,        \* packets table: absent, pending (delivered=0), delivered
    inbox,      \* inbox table: none, trusted, untrusted
    rejections, \* packet_rejections table
    prekey,     \* local_prekeys.state; the private key exists iff available
    projected,  \* packets imported by a dedicated book before the inbox commit
    expired,    \* packets whose expires_ms has passed
    denied,     \* revocations.json
    pc,         \* what each worker does next
    job,        \* the packet each worker is handling
    source,     \* how the worker got it: carrier or spool
    trust,      \* the worker's local variable trusted
    aborts,     \* number of aborts so far
    commits,    \* history: times a packet was inserted into the inbox
    replies,    \* history: times the follow-up of a commit was performed
    acked,      \* history: packets whose id was returned to a carrier
    cleaned     \* history: senders whose revocation transaction has run

tables == <<row, inbox, rejections, prekey, projected>>
worker == <<pc, job, source, trust>>
history == <<commits, replies, acked, cleaned>>
vars == <<tables, expired, denied, worker, aborts, history>>

Steps == {"idle", "check", "material", "open", "project", "commit",
          "follow", "reject"}

\* One-time prekey mode of a packet.
IsOpk(p) == KeyOf[p] # NoKey

\* peers.is_trusted: the pinned card, after re-reading the deny ledger.
IsTrusted(s) == s \in Pinned /\ s \notin denied

\* The tables and local variables hold only values the code can put there.
TypeOK ==
    /\ row \in [Packets -> {"absent", "pending", "delivered"}]
    /\ inbox \in [Packets -> {"none", "trusted", "untrusted"}]
    /\ rejections \in SUBSET Packets
    /\ prekey \in [Prekeys -> {"available", "consumed", "revoked", "expired"}]
    /\ projected \in SUBSET Packets
    /\ expired \in SUBSET Packets
    /\ denied \in SUBSET Senders
    /\ pc \in [Workers -> Steps]
    /\ job \in [Workers -> Packets \cup {NoPacket}]
    /\ \A w \in Workers : pc[w] # "idle" => job[w] \in Packets
    /\ source \in [Workers -> {"carrier", "spool"}]
    /\ trust \in [Workers -> BOOLEAN]
    /\ aborts \in Nat
    /\ commits \in [Packets -> Nat]
    /\ replies \in [Packets -> Nat]
    /\ acked \in SUBSET Packets
    /\ cleaned \in SUBSET denied

Init ==
    /\ row = [p \in Packets |-> "absent"]
    /\ inbox = [p \in Packets |-> "none"]
    /\ rejections = {}
    /\ prekey = [k \in Prekeys |-> "available"]
    /\ projected = {}
    /\ expired = {}
    /\ denied = {}
    /\ pc = [w \in Workers |-> "idle"]
    /\ job = [w \in Workers |-> NoPacket]
    /\ source = [w \in Workers |-> "carrier"]
    /\ trust = [w \in Workers |-> FALSE]
    /\ aborts = 0
    /\ commits = [p \in Packets |-> 0]
    /\ replies = [p \in Packets |-> 0]
    /\ acked = {}
    /\ cleaned = {}

-----------------------------------------------------------------------------
(* Helpers.                                                                *)

\* packet_delivered.
PacketKnown(p) == row[p] # "absent"                        \* mutant: has_packet
PacketDelivered(p) == row[p] = "delivered"

\* The prekey row as local_prekey_material and commit_local_message read it.
KeyAvailable(p) == IsOpk(p) => prekey[KeyOf[p]] = "available"

\* Only the peer a prekey was issued to may use it.
ScopeUnchecked(p) == TRUE                                  \* mutant
SenderInScope(p) == IsOpk(p) => PrekeyPeer[KeyOf[p]] = Sender[p]

\* SELECT 1 FROM inbox inside the commit transaction.
InboxUnchecked(p) == FALSE                                 \* mutant
ExistingInbox(p) == inbox[p] # "none"

\* UPDATE local_prekeys SET private_key = NULL, state = 'consumed'.
KeyKept(p) == prekey                                       \* mutant
KeyErased(p) == IF IsOpk(p) THEN [prekey EXCEPT ![KeyOf[p]] = "consumed"] ELSE prekey

\* UPDATE packets SET delivered = 1 WHERE packet_id = p.
NotDelivered(p) == row                                     \* mutant
MarkLocalDelivered(p) == [row EXCEPT ![p] = IF @ = "absent" THEN @ ELSE "delivered"]

\* A deterministic failure: ValueError, InvalidSignature or InvalidTag.
Raise(w) ==
    /\ pc' = [pc EXCEPT ![w] = "reject"]
    /\ UNCHANGED <<tables, expired, denied, job, source, trust, aborts, history>>

\* The worker is done with its packet; its local variables are gone.
Finish(w) ==
    /\ pc' = [pc EXCEPT ![w] = "idle"]
    /\ job' = [job EXCEPT ![w] = NoPacket]
    /\ source' = [source EXCEPT ![w] = "carrier"]
    /\ trust' = [trust EXCEPT ![w] = FALSE]

\* The handler returned: a carrier worker acknowledges the packet id.
Return(w) ==
    /\ Finish(w)
    /\ acked' = IF source[w] = "carrier" THEN acked \cup {job[w]} ELSE acked

-----------------------------------------------------------------------------
(* Worker steps.                                                           *)

\* accept_carrier_packet up to store.add_packet: an expired packet is
\* refused by inspect_packet, a known packet id keeps its row.
AcceptCarrierPacket(w, p) ==
    /\ pc[w] = "idle"
    /\ p \notin expired
    /\ row' = [row EXCEPT ![p] = IF @ = "absent" THEN "pending" ELSE @]
    /\ pc' = [pc EXCEPT ![w] = "check"]
    /\ job' = [job EXCEPT ![w] = p]
    /\ source' = [source EXCEPT ![w] = "carrier"]
    /\ UNCHANGED <<inbox, rejections, prekey, projected, expired, denied,
                   trust, aborts, history>>

\* import_bundle: the packet is stored at rest, no handler runs.
ImportBundle(p) ==
    /\ row[p] = "absent"
    /\ p \notin expired
    /\ row' = [row EXCEPT ![p] = "pending"]
    /\ UNCHANGED <<inbox, rejections, prekey, projected, expired, denied,
                   worker, aborts, history>>

\* process_local_spool takes a pending row of local_packets and processes
\* it without a second look at the delivered flag.
SpoolPick(w, p) ==
    /\ pc[w] = "idle"
    /\ row[p] = "pending"
    /\ p \notin expired
    /\ pc' = [pc EXCEPT ![w] = "material"]
    /\ job' = [job EXCEPT ![w] = p]
    /\ source' = [source EXCEPT ![w] = "spool"]
    /\ UNCHANGED <<tables, expired, denied, trust, aborts, history>>

\* packet_delivered: a settled packet is acknowledged at once.
CheckDelivered(w) ==
    /\ pc[w] = "check"
    /\ IF PacketDelivered(job[w])
       THEN Return(w)
       ELSE /\ pc' = [pc EXCEPT ![w] = "material"]
            /\ UNCHANGED <<job, source, trust, acked>>
    /\ UNCHANGED <<tables, expired, denied, aborts, commits, replies, cleaned>>

\* inspect_packet again, then local_prekey_material for an opk packet.
LoadMaterial(w) ==
    LET p == job[w] IN
    /\ pc[w] = "material"
    /\ IF p \in expired \/ ~KeyAvailable(p)
       THEN Raise(w)
       ELSE /\ pc' = [pc EXCEPT ![w] = "open"]
            /\ UNCHANGED <<tables, expired, denied, job, source, trust,
                           aborts, history>>

\* open_packet, the body checks, the prekey scope check, and then the
\* trust decision against the reloaded peer book.
OpenPacket(w) ==
    LET p == job[w] IN
    /\ pc[w] = "open"
    /\ IF p \in expired \cup Undecodable \/ ~SenderInScope(p)
       THEN Raise(w)
       ELSE /\ trust' = [trust EXCEPT ![w] = IsTrusted(Sender[p])]
            /\ pc' = [pc EXCEPT ![w] = "project"]
            /\ UNCHANGED <<tables, expired, denied, job, source, aborts, history>>

\* A trusted prekey bundle, disclosure or gap notice is imported into its
\* own book before the inbox commit; the import is idempotent and may raise.
Project(w) ==
    LET p == job[w] IN
    /\ pc[w] = "project"
    /\ \/ /\ projected' = IF trust[w] /\ Kind[p] \in Projected
                          THEN projected \cup {p} ELSE projected
          /\ pc' = [pc EXCEPT ![w] = "commit"]
          /\ UNCHANGED <<row, inbox, rejections, prekey, expired, denied, job,
                         source, trust, aborts, history>>
       \/ trust[w] /\ Kind[p] \in Projected /\ Raise(w)

\* commit_local_message: one BEGIN IMMEDIATE transaction that re-checks the
\* inbox and the prekey, inserts the message and erases the private key.
CommitLocalMessage(w) ==
    LET p == job[w] IN
    /\ pc[w] = "commit"
    /\ \/ /\ ExistingInbox(p)
          /\ row' = MarkLocalDelivered(p)
          /\ Return(w)
          /\ UNCHANGED <<inbox, prekey, commits>>
       \/ /\ ~ExistingInbox(p)
          /\ KeyAvailable(p) /\ SenderInScope(p)
          /\ inbox' = [inbox EXCEPT ![p] = IF trust[w] THEN "trusted" ELSE "untrusted"]
          /\ row' = MarkLocalDelivered(p)
          /\ prekey' = KeyErased(p)
          /\ commits' = [commits EXCEPT ![p] = @ + 1]
          /\ IF trust[w]
             THEN /\ pc' = [pc EXCEPT ![w] = "follow"]
                  /\ UNCHANGED <<job, source, trust, acked>>
             ELSE Return(w)
       \/ /\ ~ExistingInbox(p)
          /\ ~(KeyAvailable(p) /\ SenderInScope(p))
          /\ pc' = [pc EXCEPT ![w] = "reject"]
          /\ UNCHANGED <<row, inbox, prekey, commits, job, source, trust, acked>>
    /\ UNCHANGED <<rejections, projected, expired, denied, aborts, replies, cleaned>>

\* After a trusted commit: peers.require raises KeyError for a sender that
\* was revoked meanwhile (not a rejection, no acknowledgement); otherwise the
\* receipt is queued, or recorded, or the prekey request answered (a bundle
\* needs nothing more).  A receipt that cannot be queued is only logged;
\* answering a prekey request may raise ValueError.
FollowUp(w) ==
    LET p == job[w] IN
    /\ pc[w] = "follow"
    /\ \/ /\ IsTrusted(Sender[p])
          /\ \/ Kind[p] # "bundle" /\ replies' = [replies EXCEPT ![p] = @ + 1]
             \/ Kind[p] \notin {"request", "receipt"} /\ UNCHANGED replies
          /\ Return(w)
       \/ /\ ~IsTrusted(Sender[p])
          /\ Finish(w)
          /\ UNCHANGED <<replies, acked>>
       \/ /\ IsTrusted(Sender[p]) /\ Kind[p] = "request"
          /\ pc' = [pc EXCEPT ![w] = "reject"]
          /\ UNCHANGED <<replies, acked, job, source, trust>>
    /\ UNCHANGED <<tables, expired, denied, aborts, commits, cleaned>>

\* mark_local_rejected after a deterministic failure; the exception then
\* reaches the carrier, which does not acknowledge.
MarkLocalRejected(w) ==
    LET p == job[w] IN
    /\ pc[w] = "reject"
    /\ row' = MarkLocalDelivered(p)
    /\ rejections' = rejections \cup {p}
    /\ Finish(w)
    /\ UNCHANGED <<inbox, prekey, projected, expired, denied, aborts, history>>

\* A transient error (sqlite3.Error, OSError) or the death of the process.
Abort(w) ==
    /\ pc[w] # "idle"
    /\ aborts < MaxAborts
    /\ aborts' = aborts + 1
    /\ Finish(w)
    /\ UNCHANGED <<tables, expired, denied, history>>

-----------------------------------------------------------------------------
(* Time, purge and revocation.                                             *)

Expire(p) ==
    /\ p \notin expired
    /\ expired' = expired \cup {p}
    /\ UNCHANGED <<tables, denied, worker, aborts, history>>

\* purge: expired rows with their rejection records; transient inbox rows
\* past the retention, which outlasts any handler; and local prekeys whose
\* expiry lies a whole MAX_TTL back, so that no live packet can name them.
Purge ==
    LET gone == {p \in Packets : p \in expired /\ row[p] # "absent"}
        busy == {job[w] : w \in {v \in Workers : pc[v] # "idle"}}
    IN
    \E old \in SUBSET {p \in Packets \ busy :
                          Kind[p] \in Transient /\ inbox[p] # "none"},
       stale \in SUBSET {k \in Prekeys : prekey[k] = "available" /\
                          \A p \in Packets : KeyOf[p] = k => p \in expired} :
        /\ gone \cup old \cup stale # {}
        /\ row' = [p \in Packets |-> IF p \in gone THEN "absent" ELSE row[p]]
        /\ rejections' = {p \in rejections : row'[p] # "absent"}
        /\ inbox' = [p \in Packets |-> IF p \in old THEN "none" ELSE inbox[p]]
        /\ prekey' = [k \in Prekeys |-> IF k \in stale THEN "expired" ELSE prekey[k]]
        /\ UNCHANGED <<projected, expired, denied, worker, aborts, history>>

\* PeerBook.revoke: the deny record is written before the card is removed.
Revoke(s) ==
    /\ s \in Pinned \ denied
    /\ denied' = denied \cup {s}
    /\ UNCHANGED <<tables, expired, worker, aborts, history>>

\* store.revoke_peer, the transaction that follows in cmd_peer_revoke.
RevokePeer(s) ==
    /\ s \in denied
    /\ inbox' = [p \in Packets |-> IF Sender[p] = s /\ inbox[p] = "trusted"
                                   THEN "untrusted" ELSE inbox[p]]
    /\ prekey' = [k \in Prekeys |-> IF PrekeyPeer[k] = s THEN "revoked" ELSE prekey[k]]
    /\ cleaned' = cleaned \cup {s}
    /\ UNCHANGED <<row, rejections, projected, expired, denied, worker, aborts,
                   commits, replies, acked>>

WorkerStep(w) ==
    \/ CheckDelivered(w) \/ LoadMaterial(w) \/ OpenPacket(w) \/ Project(w)
    \/ CommitLocalMessage(w) \/ FollowUp(w) \/ MarkLocalRejected(w)

Next ==
    \/ \E w \in Workers : WorkerStep(w)
    \/ \E w \in Workers, p \in Packets : AcceptCarrierPacket(w, p) \/ SpoolPick(w, p)
    \/ \E w \in Workers : Abort(w)
    \/ \E p \in Packets : ImportBundle(p) \/ Expire(p)
    \/ Purge
    \/ \E s \in Senders : Revoke(s) \/ RevokePeer(s)

Spec == Init /\ [][Next]_vars

\* The node keeps running its handlers, and a sender offers an unacknowledged
\* packet again and again (pending_for_peer) until it is acknowledged.
Fairness ==
    /\ \A w \in Workers : WF_vars(WorkerStep(w))
    /\ \A p \in Packets : SF_vars(p \notin acked /\ \E w \in Workers : AcceptCarrierPacket(w, p))

FairSpec == Spec /\ Fairness

-----------------------------------------------------------------------------
(* Properties.                                                             *)

\* A packet enters the inbox at most once and its follow-up (receipt, answer)
\* happens at most once, whatever workers race on copies of it, whatever is
\* purged and redelivered (commit_local_message, _process_local_packet).
AtMostOnceIntake == \A p \in Packets : commits[p] <= 1 /\ replies[p] <= commits[p]

\* Two different packets are never both accepted under one one-time prekey,
\* and an accepted packet has spent its prekey (the transaction of
\* commit_local_message erases the private key with the inbox insert).
PrekeySpentOnce ==
    /\ \A p, q \in Packets :
          p # q /\ IsOpk(p) /\ KeyOf[p] = KeyOf[q] => commits[p] = 0 \/ commits[q] = 0
    /\ \A p \in Packets : IsOpk(p) /\ commits[p] > 0 => prekey[KeyOf[p]] # "available"

\* A private key is only ever destroyed by the message of the peer it was
\* issued to: a copy that aborts half-way leaves the key for the retry.
ConsumedByItsPeer ==
    \A k \in Prekeys : prekey[k] = "consumed" =>
        \E p \in Packets : KeyOf[p] = k /\ commits[p] > 0 /\ Sender[p] = PrekeyPeer[k]

\* An acknowledgement given to a carrier means that the packet is settled on
\* disk: in the inbox, in the rejection ledger, or past its expiry.
AckMeansSettled ==
    \A p \in acked : commits[p] > 0 \/ p \in rejections \/ p \in expired

\* A trusted prekey bundle or disclosure in the inbox has reached its own
\* book: the import precedes the commit, so no crash loses it.
ProjectedBeforeInbox ==
    \A p \in Packets : Kind[p] \in Projected /\ inbox[p] = "trusted" => p \in projected

\* Every packet a sender keeps offering is acknowledged or expires, in spite
\* of aborted handlers and deterministic rejections.
EventuallyAcked == \A p \in Packets : <>(p \in acked \/ p \in expired)

\* Intake implements the custody promise of PacketCustody: every step either
\* accepts one new packet with its prekey, retires prekeys, or changes nothing
\* that a sender could tell.
Custody == INSTANCE PacketCustody
             WITH accepted <- {p \in Packets : commits[p] > 0},
                  spent <- {k \in Prekeys : prekey[k] # "available"}
ImplementsCustody == Custody!CSpec

\* SECURITY.md: message trust checks refuse a revoked node id at once, and
\* one transaction ends its queued work and unfinished claims.
CleanupIsComplete == \A p \in Packets : Sender[p] \in cleaned => inbox[p] # "trusted"
=============================================================================
