----------------------------- MODULE AhubMailbox ----------------------------
(***************************************************************************)
(* Store-and-forward through an Ahub: the mailbox service (ahub.py         *)
(* AhubStore) together with the passes that uploaders and destinations run *)
(* against it (carriers/ahub.py sync_ahub_once).                           *)
(*                                                                         *)
(* Every service call is one SQLite transaction, with the purge of expired *)
(* rows and lapsed claims first.  Its answer may be lost on the way back,  *)
(* and a node may die between any two calls of a pass.  A packet has one   *)
(* destination but may be held at depth 0, and so uploaded, by several     *)
(* nodes: its origin, and nodes that imported it from a bundle.            *)
(*                                                                         *)
(* claim_token_hash is the number of the claim; every packet has size one, *)
(* so that the byte quota is the packet quota.                             *)
(***************************************************************************)
EXTENDS Naturals, FiniteSets

CONSTANTS
    Packets,       \* packet ids
    Nodes,         \* node ids on the allowlist
    None,          \* no uploader: there is no such row
    Dest,          \* Packets -> Nodes
    Holders,       \* Packets -> SUBSET Nodes, nodes that hold it at depth 0
    Bad,           \* packets the destination's intake rejects
    DestQuota,     \* max_packets_per_destination
    UploaderQuota, \* max_packets_per_uploader
    MaxFaults,     \* bound on lost answers, node deaths and slow passes
    MaxBans        \* bound on disallow commands

ASSUME MailboxAssumption ==
    /\ None \notin Nodes
    /\ Dest \in [Packets -> Nodes]
    /\ Holders \in [Packets -> SUBSET Nodes]
    /\ Bad \subseteq Packets
    /\ DestQuota \in Nat /\ UploaderQuota \in Nat
    /\ MaxFaults \in Nat /\ MaxBans \in Nat

VARIABLES
    box,          \* ahub_mailbox: uploader_id of the packet, None if no row
    leased,       \* ahub_mailbox: packets whose claim_token_hash is set
    claims,       \* number of claims of the packet so far
    settled,      \* ahub_settlements: uploader_id, None if no row
    acknowledged, \* ahub_settlements: packets with acknowledged_ms set
    enabled,      \* ahub_allowlist
    receipts,     \* custody receipts on their way to an uploader
    path,         \* per holder: delivery_paths.state for this Ahub
    hand,         \* destination: the claim it is working on, 0 if none
    got,          \* destination: no, rejected, accepted
    taken,        \* destination: packets of the pass accepted, not yet settled
    expired,      \* packets past expires_ms
    faults,       \* number of faults so far
    bans          \* number of disallow commands so far

hub == <<box, leased, claims, settled, acknowledged, enabled>>
uploader == <<receipts, path>>
destination == <<hand, got, taken>>
environment == <<expired, faults, bans>>
mailboxVars == <<hub, uploader, destination, environment>>

Copies == {c \in Packets \X Nodes : c[2] \in Holders[c[1]]}

\* A packet is claimed once, again after its first rejection, and again after
\* a fault or after its destination was disallowed.
MaxClaims == 2 + MaxFaults + MaxBans

\* The variables stay within the values the code can store.
MailboxTypeOK ==
    /\ box \in [Packets -> Nodes \cup {None}]
    /\ leased \subseteq {p \in Packets : box[p] # None}
    /\ claims \in [Packets -> 0..MaxClaims]
    /\ settled \in [Packets -> Nodes \cup {None}]
    /\ acknowledged \subseteq {p \in Packets : settled[p] # None}
    /\ enabled \subseteq Nodes
    /\ receipts \subseteq Copies
    /\ path \in [Copies -> {"sent", "custodied", "acked"}]
    /\ hand \in [Packets -> 0..MaxClaims]
    /\ got \in [Packets -> {"no", "rejected", "accepted"}]
    /\ taken \subseteq Packets
    /\ expired \subseteq Packets
    /\ faults \in 0..MaxFaults
    /\ bans \in 0..MaxBans

MailboxInit ==
    /\ box = [p \in Packets |-> None]
    /\ leased = {}
    /\ claims = [p \in Packets |-> 0]
    /\ settled = [p \in Packets |-> None]
    /\ acknowledged = {}
    /\ enabled = Nodes
    /\ receipts = {}
    /\ path = [c \in Copies |-> "sent"]
    /\ hand = [p \in Packets |-> 0]
    /\ got = [p \in Packets |-> "no"]
    /\ taken = {}
    /\ expired = {}
    /\ faults = 0
    /\ bans = 0

Fault == faults < MaxFaults /\ faults' = faults + 1

-----------------------------------------------------------------------------
(* Allowlist.                                                              *)

AllowNode(n) ==
    /\ n \notin enabled
    /\ enabled' = enabled \cup {n}
    /\ UNCHANGED <<box, leased, claims, settled, acknowledged,
                   uploader, destination, environment>>

DisallowNode(n) ==
    /\ n \in enabled /\ bans < MaxBans
    /\ enabled' = enabled \ {n}
    /\ bans' = bans + 1
    /\ UNCHANGED <<box, leased, claims, settled, acknowledged,
                   uploader, destination, expired, faults>>

-----------------------------------------------------------------------------
(* Upload.                                                                 *)

\* _check_quota counts what the destination and the uploader have in the
\* mailbox, claimed or not.
ForDest(d) == {q \in Packets : box[q] # None /\ Dest[q] = d}
FromUploader(u) == {q \in Packets : box[q] = u}
QuotaAllows(p, u) ==
    /\ Cardinality(ForDest(Dest[p])) < DestQuota
    /\ Cardinality(FromUploader(u)) < UploaderQuota

\* The packet has a settlement, of an upload by a node in U.
NeverSettled(p, U) == FALSE                                  \* mutant
SettledFor(p, U) == settled[p] \in U

\* submit: the answer is a receipt.  A packet in the mailbox keeps its
\* uploader, whoever sends it again; a settled one is confirmed to the
\* uploader on record and refused to any other.
Submit(p, u) ==
    /\ path[<<p, u>>] = "sent" /\ <<p, u>> \notin receipts
    /\ p \notin expired
    /\ {u, Dest[p]} \subseteq enabled
    /\ \/ /\ box[p] # None
          /\ UNCHANGED box
       \/ /\ box[p] = None /\ SettledFor(p, {u})
          /\ UNCHANGED box
       \/ /\ box[p] = None /\ ~SettledFor(p, Nodes)
          /\ QuotaAllows(p, u)
          /\ box' = [box EXCEPT ![p] = u]
    /\ receipts' = receipts \cup {<<p, u>>}
    /\ UNCHANGED <<leased, claims, settled, acknowledged, enabled,
                   path, destination, environment>>

\* mark_custodied when the receipt arrives.  Another pass of the same node may
\* have brought the settlement in the meantime.
Custodied(p, u) ==
    [path EXCEPT ![<<p, u>>] = IF @ = "acked" THEN "acked" ELSE "custodied"]

TakeReceipt(p, u) ==
    /\ <<p, u>> \in receipts
    /\ receipts' = receipts \ {<<p, u>>}
    /\ path' = Custodied(p, u)
    /\ UNCHANGED <<hub, destination, environment>>

\* The answer is lost, or the uploader dies before it notes it.
LoseReceipt(p, u) ==
    /\ <<p, u>> \in receipts
    /\ Fault
    /\ receipts' = receipts \ {<<p, u>>}
    /\ UNCHANGED <<hub, path, destination, expired, bans>>

-----------------------------------------------------------------------------
(* The destination's pass.                                                 *)

\* claim: an unclaimed packet is leased under a fresh token.  The answer
\* starts new work on it, or is lost.
Claim(p) ==
    /\ Dest[p] \in enabled
    /\ box[p] # None /\ p \notin leased
    /\ hand[p] = 0
    /\ claims[p] < MaxClaims
    /\ leased' = leased \cup {p}
    /\ claims' = [claims EXCEPT ![p] = @ + 1]
    /\ \/ /\ hand' = [hand EXCEPT ![p] = claims'[p]]
          /\ UNCHANGED faults
       \/ /\ Fault
          /\ UNCHANGED hand
    /\ UNCHANGED <<box, settled, acknowledged, enabled, uploader,
                   got, taken, expired, bans>>

\* accept_carrier_packet: an exception drops the claim without settling it.
\* A packet rejected before counts as delivered the second time.
Refused(p) == p \in expired \/ (p \in Bad /\ got[p] = "no")

AcceptClaim(p) ==
    /\ hand[p] > 0 /\ p \notin taken
    /\ \/ /\ Refused(p)
          /\ got' = [got EXCEPT ![p] = IF p \in expired THEN @ ELSE "rejected"]
          /\ hand' = [hand EXCEPT ![p] = 0]
          /\ UNCHANGED taken
       \/ /\ ~Refused(p)
          /\ got' = [got EXCEPT ![p] = IF @ = "no" THEN "accepted" ELSE @]
          /\ taken' = taken \cup {p}
          /\ UNCHANGED hand
    /\ UNCHANGED <<hub, uploader, environment>>

\* What the pass may settle: what accept_carrier_packet returned for.
Ready(p) == p \in taken

\* The mailbox row is there and carries this claim, which has not lapsed.
ClaimHolds(p) == box[p] # None /\ p \in leased /\ hand[p] = claims[p]

\* The claim is cleared, or goes with its row.
NeverReleased(p) == leased                                   \* mutant
Released(p) == leased \ {p}

\* The settlement row, in the name of the mailbox row's uploader, replaces it.
Proof(p) == [settled EXCEPT ![p] = box[p]]

\* settle: the claim becomes a settlement, or the call is refused; either way
\* the pass goes on to the next packet.
SettleClaim(p) ==
    /\ Ready(p)
    /\ IF ClaimHolds(p) /\ Dest[p] \in enabled
       THEN /\ settled' = Proof(p)
            /\ box' = [box EXCEPT ![p] = None]
            /\ leased' = Released(p)
       ELSE UNCHANGED <<settled, box, leased>>
    /\ hand' = [hand EXCEPT ![p] = 0]
    /\ taken' = taken \ {p}
    /\ UNCHANGED <<claims, acknowledged, enabled, uploader, got, environment>>

\* The destination dies in the middle of a pass.
DestinationDies(d) ==
    /\ \E p \in Packets : Dest[p] = d /\ hand[p] > 0
    /\ Fault
    /\ hand' = [p \in Packets |-> IF Dest[p] = d THEN 0 ELSE hand[p]]
    /\ taken' = {p \in taken : Dest[p] # d}
    /\ UNCHANGED <<hub, uploader, got, expired, bans>>

-----------------------------------------------------------------------------
(* Settlements at the uploader.                                            *)

\* The rows settlements returns to u.
Record(p, u) == settled[p] = u /\ p \notin acknowledged /\ u \in enabled

\* settlements, verify, mark_acked.
PullSettlement(p, u) ==
    /\ Record(p, u) /\ path[<<p, u>>] # "acked"
    /\ path' = [path EXCEPT ![<<p, u>>] = "acked"]
    /\ UNCHANGED <<hub, receipts, destination, environment>>

\* acknowledge_settlement, in this pass or, after a death, in a later one.
AcknowledgeSettlement(p, u) ==
    /\ Record(p, u) /\ path[<<p, u>>] = "acked"
    /\ acknowledged' = acknowledged \cup {p}
    /\ UNCHANGED <<box, leased, claims, settled, enabled, uploader,
                   destination, environment>>

-----------------------------------------------------------------------------
(* Time.                                                                   *)

\* The lease runs out; _purge clears the claim in the next transaction.  That
\* it does so while the destination still works on it counts as a fault.
Lapse(p) ==
    /\ p \in leased
    /\ IF hand[p] = claims[p] THEN Fault ELSE UNCHANGED faults
    /\ leased' = Released(p)
    /\ UNCHANGED <<box, claims, settled, acknowledged, enabled, uploader,
                   destination, expired, bans>>

\* The packet expires; mailbox row and settlement go with the next _purge.
Expire(p) ==
    /\ p \notin expired
    /\ expired' = expired \cup {p}
    /\ box' = [box EXCEPT ![p] = None]
    /\ leased' = Released(p)
    /\ settled' = [settled EXCEPT ![p] = None]
    /\ acknowledged' = acknowledged \ {p}
    /\ UNCHANGED <<claims, enabled, uploader, destination, faults, bans>>

-----------------------------------------------------------------------------
Pass(p) == Claim(p) \/ AcceptClaim(p) \/ SettleClaim(p)

Pull(p, u) == PullSettlement(p, u) \/ AcknowledgeSettlement(p, u)

MailboxNext ==
    \/ \E n \in Nodes : AllowNode(n) \/ DisallowNode(n) \/ DestinationDies(n)
    \/ \E p \in Packets : Pass(p) \/ Lapse(p) \/ Expire(p)
    \/ \E c \in Copies : \/ Submit(c[1], c[2]) \/ TakeReceipt(c[1], c[2])
                         \/ LoseReceipt(c[1], c[2]) \/ Pull(c[1], c[2])

MailboxSpec == MailboxInit /\ [][MailboxNext]_mailboxVars

\* The carrier scheduler repeats the passes of every node, and leases lapse by
\* the clock.
MailboxFairness ==
    /\ \A p \in Packets : WF_mailboxVars(Pass(p)) /\ WF_mailboxVars(Lapse(p))
    /\ \A c \in Copies : WF_mailboxVars(Pull(c[1], c[2]))

-----------------------------------------------------------------------------
(* Properties.                                                             *)

\* A node that stopped offering a packet because the Ahub took custody of it
\* can count on the Ahub: until the packet expires it is in the mailbox or
\* settled there, and never both: a repeated upload, by this or by another
\* holder, does not bring a settled packet back.
\* A settlement, and an acknowledgement derived from one, is only ever shown
\* for a packet that the destination has durably taken in.
CustodyKept ==
    /\ \A c \in Copies :
        (path[c] = "custodied" \/ c \in receipts) /\ c[1] \notin expired
            => (box[c[1]] # None) # (settled[c[1]] # None)
    /\ \A p \in Packets : settled[p] # None => got[p] # "no"
    /\ \A c \in Copies : path[c] = "acked" => got[c[1]] # "no"

\* Whatever answers are lost and wherever the destination dies, a packet in
\* the mailbox ends acknowledged at its uploader, unless it expires or one of
\* the two is taken off the allowlist.
EventuallyAcked ==
    \A p \in Packets : \A u \in Holders[p] :
        box[p] = u ~> \/ path[<<p, u>>] = "acked"
                      \/ p \in expired
                      \/ ~({u, Dest[p]} \subseteq enabled)
=============================================================================
