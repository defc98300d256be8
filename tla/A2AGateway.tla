----------------------------- MODULE A2AGateway -----------------------------
(***************************************************************************)
(* The outbox and the task ledger of the A2A gateway (store.py             *)
(* register_a2a_message, request_a2a_task_cancellation,                    *)
(* claim_a2a_dispatches, retry_a2a_dispatch, commit_a2a_dispatch_packet,   *)
(* append_a2a_task_events; node.py dispatch_a2a_claim and                  *)
(* drain_a2a_dispatches) for one A2A task of one bound principal.          *)
(*                                                                         *)
(* Every store call is one transaction.  Workers of several processes      *)
(* drain the outbox; a worker claims a batch and works through it, while   *)
(* its leases may run out.  claim_token is the number of the claim,        *)
(* encryption_reservation_id the number of the reservation of the intent.  *)
(* retry_after_ms is taken to be due.                                      *)
(***************************************************************************)
EXTENDS Naturals, FiniteSets

CONSTANTS
    Messages,   \* A2A messages of the task
    Drainers,   \* workers that drain the outbox
    Keys,       \* one-time keys of the destination known here
    BatchLimit, \* the limit of claim_a2a_dispatches
    MaxMishaps, \* bound on failures, deaths and leases that are too short
    Reports     \* task states the destination may report

ASSUME GatewayAssumption ==
    BatchLimit \in Nat \ {0} /\ MaxMishaps \in Nat

VARIABLES
    dispatch,   \* a2a_gateway_dispatches: state of an intent, "none" when there
                \* is no row
    place,      \* created_ms and rowid: its place among the rows, 0 for no row
    leased,     \* lease_until_ms lies in the future
    tries,      \* attempts
    resv,       \* encryption_reservation_id of the intent
    keyState,   \* peer_prekeys.state
    keyFor,     \* peer_prekeys.reservation_id
    batch,      \* claims a drainer has yet to work through
    phase,      \* what it does with the oldest of them
    sealedWith, \* key of the packet it has sealed
    mishaps,    \* number of mishaps so far
    sent,       \* packets table: intent and key of every packet
    task,       \* a2a_gateway_tasks.state, "none" when there is no row
    latest,     \* latest_anet_task_id
    cancel      \* cancel_state, "none" when empty

rowVars == <<dispatch, place, leased, tries, resv>>
keyVars == <<keyState, keyFor>>
drainVars == <<batch, phase, sealedWith, mishaps>>
taskVars == <<task, latest, cancel>>
gatewayVars == <<rowVars, keyVars, drainVars, sent, taskVars>>

Request(m) == <<"agent.task.request", m>>
Cancel(m) == <<"agent.task.cancel", m>>
Intents == {"agent.task.request", "agent.task.cancel"} \X Messages
Cancels == {Cancel(m) : m \in Messages}
Claims == [intent : Intents, token : Nat, resv : Nat]
Asked == {m \in Messages : dispatch[Request(m)] # "none"}
NoKey == "static"
NoMessage == "no message"

TerminalStates == {"completed", "failed", "canceled", "rejected"}
WaitingStates == {"input-required", "auth-required"}

\* _A2A_STATE_TRANSITIONS.
Transitions(s) ==
    CASE s = "submitted" -> {"submitted", "working"} \cup WaitingStates \cup TerminalStates
      [] s = "working" -> {"working"} \cup WaitingStates \cup TerminalStates
      [] s \in WaitingStates -> {"working"} \cup WaitingStates \cup (TerminalStates \ {"completed"})
      [] s \in TerminalStates -> {}

\* The tables and local variables hold only values the code can put there.
GatewayTypeOK ==
    /\ dispatch \in [Intents -> {"none", "pending", "retry", "leased", "dispatched"}]
    /\ place \in [Intents -> Nat]
    /\ leased \in [Intents -> BOOLEAN]
    /\ tries \in [Intents -> Nat] /\ resv \in [Intents -> Nat]
    /\ keyState \in [Keys -> {"available", "reserved", "used", "burned"}]
    /\ batch \in [Drainers -> SUBSET Claims]
    /\ phase \in [Drainers -> {"next", "sealed", "failed"}]
    /\ mishaps \in 0..MaxMishaps
    /\ sealedWith \in [Drainers -> Keys \cup {NoKey}]
    /\ task \in {"none", "submitted", "working"} \cup WaitingStates \cup TerminalStates
    /\ latest \in Messages \cup {NoMessage}
    /\ cancel \in {"none", "requested", "dispatched", "confirmed", "too_late"}

GatewayInit ==
    /\ sent = {} /\ mishaps = 0
    /\ dispatch = [i \in Intents |-> "none"]
    /\ place = [i \in Intents |-> 0]
    /\ leased = [i \in Intents |-> FALSE]
    /\ tries = [i \in Intents |-> 0]
    /\ resv = [i \in Intents |-> 0]
    /\ keyState = [k \in Keys |-> "available"]
    /\ keyFor = [k \in Keys |-> <<>>]
    /\ batch = [w \in Drainers |-> {}]
    /\ phase = [w \in Drainers |-> "next"]
    /\ sealedWith = [w \in Drainers |-> NoKey]
    /\ task = "none" /\ latest = NoMessage /\ cancel = "none"

-----------------------------------------------------------------------------
(* The server side of A2A.                                                 *)

\* Rows of the outbox.
Rows == Cardinality({i \in Intents : dispatch[i] # "none"})

\* register_a2a_message: the first message creates the task; a follow-up is
\* refused once the task is terminal or its cancellation requested.  Message,
\* intent and latest_anet_task_id change together.  A repeated message adds
\* nothing.
AcceptsMessage == task \notin TerminalStates /\ cancel = "none"

RegisterMessage(m) ==
    /\ m \notin Asked
    /\ AcceptsMessage
    /\ task' = IF task = "none" THEN "submitted" ELSE task
    /\ latest' = m
    /\ place' = [place EXCEPT ![Request(m)] = Rows + 1]
    /\ dispatch' = [dispatch EXCEPT ![Request(m)] = "pending"]
    /\ UNCHANGED <<leased, tries, resv, keyVars, drainVars, sent, cancel>>

\* request_a2a_task_cancellation: one intent for every message so far, in
\* their order; a second request adds nothing.
RequestCancellation ==
    LET new == {Cancel(m) : m \in Asked} IN
    /\ task \notin TerminalStates \cup {"none"}
    /\ cancel = "none"
    /\ cancel' = "requested"
    /\ place' = [i \in Intents |-> IF i \in new THEN Rows + place[Request(i[2])] ELSE place[i]]
    /\ dispatch' = [i \in Intents |-> IF i \in new THEN "pending" ELSE dispatch[i]]
    /\ UNCHANGED <<leased, tries, resv, keyVars, drainVars, sent, task, latest>>

\* cancel_state once the task is in state s.
VerdictOnCancel(c, s) ==
    IF c = "none" \/ s \notin TerminalStates THEN c
    ELSE IF s = "canceled" THEN "confirmed" ELSE "too_late"

\* append_a2a_task_events: a new status of the internal task of message m, which
\* must be the newest one.  The destination reports on what it was sent.
AppendEvent(m, s) ==
    /\ dispatch[Request(m)] = "dispatched"
    /\ m = latest
    /\ s \in Transitions(task)
    /\ task' = s
    /\ cancel' = VerdictOnCancel(cancel, s)
    /\ UNCHANGED <<rowVars, keyVars, drainVars, sent, latest>>

-----------------------------------------------------------------------------
(* The outbox.                                                             *)

\* Pending, to be retried, or leased to somebody whose lease has run out.
EligibleUnleased(i) == dispatch[i] \in {"pending", "retry"}    \* mutant
Eligible(i) == dispatch[i] \in {"pending", "retry"} \/ (dispatch[i] = "leased" /\ ~leased[i])

\* The claim is the newest one of its intent.
ClaimIsCurrent(c) == dispatch[c.intent] = "leased" /\ tries[c.intent] = c.token

\* claim_a2a_dispatches: the oldest of the eligible intents, up to the limit;
\* last is the newest of them.
ClaimDispatches(w, last) ==
    LET got == {i \in Intents : Eligible(i) /\ place[i] <= place[last]} IN
    /\ batch[w] = {}
    /\ Eligible(last) /\ Cardinality(got) <= BatchLimit
    /\ dispatch' = [i \in Intents |-> IF i \in got THEN "leased" ELSE dispatch[i]]
    /\ leased' = [i \in Intents |-> i \in got \/ leased[i]]
    /\ tries' = [i \in Intents |-> IF i \in got THEN tries[i] + 1 ELSE tries[i]]
    /\ batch' = [batch EXCEPT ![w] =
          {[intent |-> i, token |-> tries[i] + 1, resv |-> resv[i]] : i \in got}]
    /\ UNCHANGED <<place, resv, keyVars, phase, sealedWith, mishaps, sent, taskVars>>

\* Keys reserved under the reservation of the claim.
ReservedFor(c) ==
    {k \in Keys : keyState[k] = "reserved" /\ keyFor[k] = <<c.intent, c.resv>>}

\* The drainer goes through its claims in the order of the rows.
Turn(w, c) == c \in batch[w] /\ \A d \in batch[w] : place[c.intent] <= place[d.intent]

\* dispatch_a2a_claim, first half: recover or reserve a key, else seal with the
\* static key of the destination.
ReserveAndSeal(w, c) ==
    LET fresh == {k \in Keys : keyState[k] = "available"} IN
    /\ Turn(w, c) /\ phase[w] = "next"
    /\ phase' = [phase EXCEPT ![w] = "sealed"]
    /\ \/ \E k \in ReservedFor(c) :
             /\ sealedWith' = [sealedWith EXCEPT ![w] = k]
             /\ UNCHANGED keyVars
       \/ /\ ReservedFor(c) = {} /\ fresh # {}
          /\ LET k == CHOOSE k \in fresh : TRUE IN
             /\ sealedWith' = [sealedWith EXCEPT ![w] = k]
             /\ keyState' = [keyState EXCEPT ![k] = "reserved"]
             /\ keyFor' = [keyFor EXCEPT ![k] = <<c.intent, c.resv>>]
       \/ /\ ReservedFor(c) = {} /\ fresh = {}
          /\ sealedWith' = [sealedWith EXCEPT ![w] = NoKey]
          /\ UNCHANGED keyVars
    /\ UNCHANGED <<rowVars, batch, mishaps, sent, taskVars>>

\* The claim is current, its lease is not over, and the key is still reserved
\* under the reservation of the intent.
CommitUnfenced(w, c) ==                                       \* mutant
    sealedWith[w] # NoKey => resv[c.intent] = c.resv /\ sealedWith[w] \in ReservedFor(c)
MayCommit(w, c) ==
    /\ ClaimIsCurrent(c) /\ leased[c.intent]
    /\ sealedWith[w] # NoKey => resv[c.intent] = c.resv /\ sealedWith[w] \in ReservedFor(c)

NextClaim(w, c) ==
    /\ batch' = [batch EXCEPT ![w] = @ \ {c}]
    /\ phase' = [phase EXCEPT ![w] = "next"]
    /\ sealedWith' = [sealedWith EXCEPT ![w] = NoKey]
    /\ UNCHANGED mishaps

\* cancel_state when intent i has been dispatched: the last cancellation moves
\* it on, unless the task has come to its end meanwhile.
CancelDispatchedAlways(i) ==                                  \* mutant
    IF i \in Cancels /\ \A j \in Cancels \ {i} : dispatch[j] \in {"none", "dispatched"}
    THEN "dispatched" ELSE cancel
CancelAfter(i) ==
    IF /\ i \in Cancels
       /\ \A j \in Cancels \ {i} : dispatch[j] \in {"none", "dispatched"}
       /\ cancel = "requested"
    THEN "dispatched" ELSE cancel

\* commit_a2a_dispatch_packet: key, packet, intent and cancel_state together.
CommitPacket(w, c) ==
    LET i == c.intent IN
    /\ Turn(w, c) /\ phase[w] = "sealed" /\ MayCommit(w, c)
    /\ keyState' = [k \in Keys |-> IF k = sealedWith[w] THEN "used" ELSE keyState[k]]
    /\ sent' = sent \cup {[intent |-> i, claim |-> tries[i], key |-> sealedWith[w]]}
    /\ dispatch' = [dispatch EXCEPT ![i] = "dispatched"]
    /\ leased' = [leased EXCEPT ![i] = FALSE]
    /\ cancel' = CancelAfter(i)
    /\ NextClaim(w, c)
    /\ UNCHANGED <<place, tries, resv, keyFor, task, latest>>

\* Something goes wrong, finitely often.
Mishap == mishaps < MaxMishaps /\ mishaps' = mishaps + 1

\* commit_a2a_dispatch_packet refuses, or a step before it fails.
CommitRefused(w, c) == phase[w] = "sealed" /\ ~MayCommit(w, c) /\ UNCHANGED mishaps

DispatchFails(w, c) ==
    /\ Turn(w, c) /\ phase[w] # "failed"
    /\ CommitRefused(w, c) \/ Mishap
    /\ phase' = [phase EXCEPT ![w] = "failed"]
    /\ UNCHANGED <<rowVars, keyVars, batch, sealedWith, sent, taskVars>>

\* retry_a2a_dispatch under the current token: the reserved key is burned, the
\* reservation rotated.  Under any other token its error is dropped.
RetryDispatch(w, c) ==
    LET i == c.intent IN
    /\ Turn(w, c) /\ phase[w] = "failed"
    /\ \/ /\ ClaimIsCurrent(c)
          /\ keyState' = [k \in Keys |-> IF k \in ReservedFor([c EXCEPT !.resv = resv[i]])
                                         THEN "burned" ELSE keyState[k]]
          /\ dispatch' = [dispatch EXCEPT ![i] = "retry"]
          /\ leased' = [leased EXCEPT ![i] = FALSE]
          /\ resv' = [resv EXCEPT ![i] = @ + 1]
       \/ ~ClaimIsCurrent(c) /\ UNCHANGED <<keyState, dispatch, leased, resv>>
    /\ NextClaim(w, c)
    /\ UNCHANGED <<place, tries, keyFor, sent, taskVars>>

\* The process dies with its batch; the leases have to run out.
DrainerDies(w) ==
    /\ batch[w] # {}
    /\ Mishap
    /\ batch' = [batch EXCEPT ![w] = {}]
    /\ phase' = [phase EXCEPT ![w] = "next"]
    /\ sealedWith' = [sealedWith EXCEPT ![w] = NoKey]
    /\ UNCHANGED <<rowVars, keyVars, sent, taskVars>>

\* Nobody works on the intent under its newest claim.
Orphaned(i) == \A w \in Drainers : \A c \in batch[w] :
    c.intent = i => c.token < tries[i]

\* A lease runs out: that of a dead drainer, or that of a slow one.
LeaseEnds(i) ==
    /\ leased[i]
    /\ (Orphaned(i) /\ UNCHANGED mishaps) \/ (~Orphaned(i) /\ Mishap)
    /\ leased' = [leased EXCEPT ![i] = FALSE]
    /\ UNCHANGED <<dispatch, place, tries, resv, keyVars, batch, phase, sealedWith, sent, taskVars>>

DrainStep(w) == \E c \in batch[w] :
    \/ ReserveAndSeal(w, c) \/ CommitPacket(w, c) \/ RetryDispatch(w, c)
    \/ (CommitRefused(w, c) /\ DispatchFails(w, c))

GatewayNext ==
    \/ \E m \in Messages : RegisterMessage(m)
    \/ RequestCancellation
    \/ \E m \in Messages, s \in Reports : AppendEvent(m, s)
    \/ \E w \in Drainers, last \in Intents : ClaimDispatches(w, last)
    \/ \E w \in Drainers : \E c \in batch[w] :
          \/ ReserveAndSeal(w, c) \/ CommitPacket(w, c) \/ RetryDispatch(w, c)
          \/ DispatchFails(w, c)
    \/ \E w \in Drainers : DrainerDies(w)
    \/ \E i \in Intents : LeaseEnds(i)

GatewaySpec == GatewayInit /\ [][GatewayNext]_gatewayVars

\* Some drainer keeps claiming, drainers work through their batches, and the
\* lease of a dead one runs out.
GatewayFairness ==
    /\ SF_gatewayVars(\E w \in Drainers, last \in Intents : ClaimDispatches(w, last))
    /\ \A w \in Drainers : WF_gatewayVars(DrainStep(w))
    /\ \A i \in Intents : WF_gatewayVars(LeaseEnds(i))

-----------------------------------------------------------------------------
(* Properties.                                                             *)

\* Every intent is sent in at most one packet, and in one exactly when it is
\* marked dispatched; no key seals two packets.  Dead and overtaken workers,
\* recovered reservations and retries do not change that.
OnePacketPerIntent ==
    /\ \A i \in Intents :
          Cardinality({x \in sent : x.intent = i}) = IF dispatch[i] = "dispatched" THEN 1 ELSE 0
    /\ \A x, y \in sent : x # y => x.key # y.key \/ x.key = NoKey

\* A cancellation covers every message of the task, also one that arrived just
\* before it, and "dispatched" says that the packets of all of them exist.
\* cancel_state and the state of the task tell one story: confirmed exactly
\* when a canceled task had been asked to cancel, too_late when it ended
\* otherwise, whatever order events and dispatches come in.
CancelSound ==
    /\ cancel # "none" => \A m \in Asked :
          /\ dispatch[Cancel(m)] # "none"
          /\ cancel = "dispatched" => dispatch[Cancel(m)] = "dispatched"
    /\ cancel = "confirmed" <=> cancel # "none" /\ task = "canceled"
    /\ cancel = "too_late" <=> cancel # "none" /\ task \in TerminalStates \ {"canceled"}

\* Every intent is sent in the end: no order of failures, deaths and expired
\* leases leaves one behind (the client registers finitely many).
EventuallyDispatched == <>[](\A i \in Intents : dispatch[i] \in {"none", "dispatched"})
=============================================================================
