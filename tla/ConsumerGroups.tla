--------------------------- MODULE ConsumerGroups ---------------------------
(***************************************************************************)
(* Durable consumer groups over the inbox of one node (store.py            *)
(* open_consumer_group, claim_consumer_messages, acknowledge_claim,        *)
(* reject_claim, renew_claim, with the parts of purge and revoke_peer that *)
(* touch inbox and consumer_deliveries).                                   *)
(*                                                                         *)
(* One group is modelled: groups share nothing but the inbox.  Its workers *)
(* are separate processes (MCP servers, CLI calls) on one SQLite file, so  *)
(* every store call is one atomic step and nothing else is.  A worker      *)
(* keeps every claim token it was ever given and may use it at any time.   *)
(*                                                                         *)
(* The random claim_token, known to the one owner it was returned to, is   *)
(* the pair <<packet, n>> of the n-th claim of the packet.  lease_until_ms *)
(* is a flag that Lapse clears; retry_after_ms is taken to be due at any   *)
(* time, which a retry delay of zero makes it.                             *)
(***************************************************************************)
EXTENDS Naturals, FiniteSets, FiniteSetsExt

CONSTANTS
    Packets,    \* packets that may enter the inbox
    Matching,   \* those that pass the group's kind_prefix and sender_id
    Transient,  \* those stored with visible = 0, which purge removes
    IncludeTransient, \* the group's include_transient
    Senders,    \* node ids of senders
    Sender,     \* Packets -> Senders
    MaxClaims   \* bound on the claims of one packet

ASSUME GroupAssumption ==
    /\ Matching \subseteq Packets
    /\ Transient \subseteq Packets
    /\ IncludeTransient \in BOOLEAN
    /\ Sender \in [Packets -> Senders]
    /\ MaxClaims \in Nat \ {0}

VARIABLES
    rowid,      \* inbox: rowid of the packet, 0 when it is not there
    trusted,    \* inbox.trusted
    opened,     \* consumer_groups has the row
    startAfter, \* start_after_rowid
    state,      \* consumer_deliveries.state, "none" when there is no row
    live,       \* lease_until_ms lies in the future
    attempts,   \* claims so far, the attempts column
    denied,     \* revocations.json
    cleaned,    \* history: senders whose revoke_peer transaction has run
    verdicts,   \* <<packet, trusted>>: taken by a handler that has not committed
    overtaken,  \* history: packets with a verdict of trust when the sender was denied
    seen,       \* history: packets that have been in the inbox
    after       \* history: packets that arrived once the group was open

inboxVars == <<rowid, trusted, seen>>
groupVars == <<opened, startAfter, after>>
deliveries == <<state, live, attempts>>
trustVars == <<denied, cleaned, verdicts, overtaken>>
cgVars == <<inboxVars, groupVars, deliveries, trustVars>>

\* The tables and local variables hold only values the code can put there.
CGTypeOK ==
    /\ rowid \in [Packets -> Nat]
    /\ trusted \in [Packets -> BOOLEAN]
    /\ opened \in BOOLEAN
    /\ startAfter \in Nat
    /\ state \in [Packets -> {"none", "leased", "retry", "acked", "revoked"}]
    /\ live \in [Packets -> BOOLEAN]
    /\ attempts \in [Packets -> Nat]
    /\ denied \in SUBSET Senders
    /\ cleaned \in SUBSET denied
    /\ verdicts \in SUBSET (Packets \X BOOLEAN)
    /\ overtaken \in SUBSET Packets
    /\ seen \in SUBSET Packets
    /\ after \in SUBSET seen

CGInit ==
    /\ rowid = [p \in Packets |-> 0]
    /\ trusted = [p \in Packets |-> FALSE]
    /\ opened = FALSE
    /\ startAfter = 0
    /\ state = [p \in Packets |-> "none"]
    /\ live = [p \in Packets |-> FALSE]
    /\ attempts = [p \in Packets |-> 0]
    /\ denied = {} /\ cleaned = {}
    /\ verdicts = {} /\ overtaken = {}
    /\ seen = {}
    /\ after = {}

-----------------------------------------------------------------------------
(* The inbox.                                                              *)

Inbox == {p \in Packets : rowid[p] > 0}

\* SELECT COALESCE(MAX(rowid), 0) FROM inbox.
MaxRowid == Max({rowid[p] : p \in Packets} \cup {0})

\* The handler of a packet asks once whether its sender is trusted
\* (_process_local_packet: peers.is_trusted); a handler that dies is one that
\* never commits, and a packet that comes again is judged again.
DecideTrust(p) ==
    LET trust == <<p, Sender[p] \notin denied>> IN
    /\ p \notin seen
    /\ trust \notin verdicts
    /\ verdicts' = verdicts \cup {trust}
    /\ UNCHANGED <<inboxVars, groupVars, deliveries, denied, cleaned, overtaken>>

\* commit_local_message inserts the message with the verdict it is handed, and
\* looks at no revocation.  The table has a TEXT primary key and no
\* AUTOINCREMENT: SQLite gives the row the largest rowid plus one.
Receive(p, trust) ==
    /\ p \notin seen
    /\ <<p, trust>> \in verdicts
    /\ rowid' = [rowid EXCEPT ![p] = MaxRowid + 1]
    /\ trusted' = [trusted EXCEPT ![p] = trust]
    /\ verdicts' = {v \in verdicts : v[1] # p}
    /\ seen' = seen \cup {p}
    /\ after' = IF opened THEN after \cup {p} ELSE after
    /\ UNCHANGED <<opened, startAfter, deliveries, denied, cleaned, overtaken>>

\* purge: old rows with visible = 0, and the deliveries they leave orphaned.
Purge(old) ==
    /\ old # {}
    /\ rowid' = [p \in Packets |-> IF p \in old THEN 0 ELSE rowid[p]]
    /\ state' = [p \in Packets |-> IF p \in old THEN "none" ELSE state[p]]
    /\ live' = [p \in Packets |-> p \notin old /\ live[p]]
    /\ UNCHANGED <<trusted, seen, groupVars, attempts, trustVars>>

\* cmd_peer_revoke first puts the sender on the deny list.
Deny(s) ==
    /\ s \notin denied
    /\ denied' = denied \cup {s}
    /\ overtaken' = overtaken \cup {p \in Packets : Sender[p] = s /\ <<p, TRUE>> \in verdicts}
    /\ UNCHANGED <<inboxVars, groupVars, deliveries, cleaned, verdicts>>

\* Its store.revoke_peer: the sender's messages lose their trust and its
\* unsettled deliveries their claims.
RevokePeer(s) ==
    LET hit == {p \in Inbox : Sender[p] = s} IN
    /\ s \in denied \ cleaned
    /\ cleaned' = cleaned \cup {s}
    /\ trusted' = [p \in Packets |-> p \notin hit /\ trusted[p]]
    /\ state' = [p \in Packets |-> IF p \in hit /\ state[p] \in {"leased", "retry"}
                                   THEN "revoked" ELSE state[p]]
    /\ live' = [p \in Packets |-> p \notin hit /\ live[p]]
    /\ UNCHANGED <<rowid, seen, groupVars, attempts, denied, verdicts, overtaken>>

-----------------------------------------------------------------------------
(* The group.                                                              *)

\* open_consumer_group; opening it again with the same filters changes
\* nothing, and start is then ignored.
OpenConsumerGroup(start) ==
    /\ ~opened
    /\ opened' = TRUE
    /\ startAfter' = IF start = "latest" THEN MaxRowid ELSE 0
    /\ UNCHANGED <<inboxVars, after, deliveries, trustVars>>

\* _consumer_filters for a group with trusted_only.
FilterUntrusted(p) ==                                         \* mutant
    p \in Inbox /\ rowid[p] > startAfter /\ p \in Matching
ConsumerFilters(p) ==
    /\ p \in Inbox
    /\ rowid[p] > startAfter
    /\ trusted[p]
    /\ p \in Transient => IncludeTransient
    /\ p \in Matching

\* No delivery yet, a lapsed lease, or a retry whose delay is over.
AvailableNoRetry(p) == state[p] = "none" \/ (state[p] = "leased" /\ ~live[p])   \* mutant
Available(p) == state[p] \in {"none", "retry"} \/ (state[p] = "leased" /\ ~live[p])

\* The claim <<p, n>> is the one in the table.
Current(p, n) == state[p] = "leased" /\ n = attempts[p]

\* claim_consumer_messages: the oldest available messages up to the limit,
\* in one transaction; last is the newest of them.
Claim(last) ==
    LET batch == {p \in Packets : ConsumerFilters(p) /\ Available(p) /\ rowid[p] <= rowid[last]} IN
    /\ opened
    /\ last \in batch
    /\ state' = [p \in Packets |-> IF p \in batch THEN "leased" ELSE state[p]]
    /\ live' = [p \in Packets |-> p \in batch \/ live[p]]
    /\ attempts' = [p \in Packets |-> IF p \in batch THEN attempts[p] + 1 ELSE attempts[p]]
    /\ UNCHANGED <<inboxVars, groupVars, trustVars>>

\* Bound: the last claim of a packet neither lapses nor is rejected.
MayReturn(p) == attempts[p] < MaxClaims

\* acknowledge_claim and reject_claim compare owner, token and state, not
\* the lease: a late settlement counts until somebody else has claimed.
Settle(p, n, outcome) ==
    /\ Current(p, n)
    /\ state' = [state EXCEPT ![p] = outcome]
    /\ live' = [live EXCEPT ![p] = FALSE]
    /\ UNCHANGED <<inboxVars, groupVars, attempts, trustVars>>

AcknowledgeClaim(p, n) == Settle(p, n, "acked")
RejectClaim(p, n) == MayReturn(p) /\ Settle(p, n, "retry")

\* renew_claim: also of a lease that has lapsed but was not taken over.
RenewClaim(p, n) ==
    /\ Current(p, n)
    /\ ~live[p]
    /\ live' = [live EXCEPT ![p] = TRUE]
    /\ UNCHANGED <<inboxVars, groupVars, state, attempts, trustVars>>

\* The lease runs out.
Lapse(p) ==
    /\ live[p]
    /\ MayReturn(p)
    /\ live' = [live EXCEPT ![p] = FALSE]
    /\ UNCHANGED <<inboxVars, groupVars, state, attempts, trustVars>>

CGNext ==
    \/ \E p \in Packets : DecideTrust(p) \/ Lapse(p)
    \/ \E p \in Packets, trust \in BOOLEAN : Receive(p, trust)
    \/ \E old \in SUBSET (Transient \cap Inbox) : Purge(old)
    \/ \E s \in Senders : Deny(s) \/ RevokePeer(s)
    \/ \E start \in {"latest", "earliest"} : OpenConsumerGroup(start)
    \/ \E p \in Packets : Claim(p)
    \/ \E p \in Packets : \E n \in 1..attempts[p] :
          AcknowledgeClaim(p, n) \/ RejectClaim(p, n) \/ RenewClaim(p, n)

CGSpec == CGInit /\ [][CGNext]_cgVars

\* The group has a worker that keeps claiming and acknowledging; rejections
\* and lapses are finitely many (MaxClaims).
CGFairness ==
    /\ \A p \in Packets : SF_cgVars(Claim(p))
    /\ \A p \in Packets : WF_cgVars(\E n \in 1..attempts[p] : AcknowledgeClaim(p, n))

CGFairSpec == CGSpec /\ CGFairness

-----------------------------------------------------------------------------
(* Properties.                                                             *)

\* Once the command that revokes a sender has done its clean-up, nobody holds a
\* claim on one of the sender's messages and nobody is given one, wherever the
\* message was between the carrier and a worker.  The one exception is a message
\* whose handler had asked for trust before the deny list was written and
\* committed it after (revoke_peer, the claim filter, commit_local_message).
RevocationReaches ==
    \A p \in Packets : Sender[p] \in cleaned /\ state[p] = "leased" => p \in overtaken

\* Every message that arrives for the open group, and whose rowid lies beyond
\* start_after_rowid, is acknowledged unless its sender is revoked: no order
\* of lapses, rejections and purges of other rows strands it.  An
\* acknowledgement is final, so that it is enough to come back again and again
\* to a state in which no message is outstanding.
EventuallyAcknowledged ==
    []<>(\A p \in after \cap (Matching \ Transient) :
            state[p] = "acked" \/ Sender[p] \in denied \/ rowid[p] <= startAfter)
=============================================================================
