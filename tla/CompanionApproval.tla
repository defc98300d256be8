-------------------------- MODULE CompanionApproval -------------------------
(***************************************************************************)
(* Approvals of a human for effects of an agent (store.py                  *)
(* register_companion_approval_request, activate_companion_approval,       *)
(* begin_ and settle_companion_approval_effect, behind the MCP tools).     *)
(*                                                                         *)
(* A decision is a packet of the inbox, claimed through a consumer group;  *)
(* activation settles the claim in its own transaction.  Activation and    *)
(* begin read the clock, check, and open their transaction later: `current` *)
(* and the grant of the device are those of the check.  The random          *)
(* execution_token is the number of the run of the effect.                 *)
(***************************************************************************)
EXTENDS ConsumerGroups

CONSTANTS
    Requests,   \* approval requests of this node
    Device,     \* Requests -> Senders, the device asked
    Answers,    \* Packets -> Requests, the request a decision repeats
    Verdict,    \* Packets -> verdict of the decision
    Effects,    \* effect ids the agent asks for
    MaxUses,    \* Requests -> max_uses of the scope
    MaxRuns,    \* bound on the runs of one effect
    Servers     \* processes that serve the tools

\* Decisions are ordinary messages: only receipts, probes and prekey controls
\* are stored with visible = 0.
ASSUME ApprovalAssumption ==
    /\ Transient = {}
    /\ Device \in [Requests -> Senders]
    /\ Answers \in [Packets -> Requests]
    /\ Verdict \in [Packets -> {"approved", "rejected"}]
    /\ MaxUses \in [Requests -> Nat]
    /\ MaxRuns \in Nat \ {0}

VARIABLES
    registered, \* companion_approval_requests
    decidedBy,  \* companion_approval_authorizations: the decision's packet
    outdated,   \* requests whose grant_expires_ms has passed
    grant,      \* control store: "none", "current", "revoked" for a device
    effect,     \* companion_approval_effects.state
    working,    \* lease_until_ms lies in the future
    runs,       \* attempts
    doing,      \* what each server is in the middle of
    settledRun  \* history: number of the run that settled the effect last

approvalVars == <<registered, decidedBy, outdated, grant, effect, working, runs, doing, settledRun>>
companionVars == <<cgVars, approvalVars>>

NoDecision == "no decision"
Idle == [op |-> "idle"]
Slots == Requests \X Effects
Terminal == {"executed", "rejected"}

ApprovalInit ==
    /\ registered = {} /\ outdated = {}
    /\ decidedBy = [r \in Requests |-> NoDecision]
    /\ grant = [d \in Senders |-> "none"]
    /\ effect = [s \in Slots |-> "none"]
    /\ working = [s \in Slots |-> FALSE]
    /\ runs = [s \in Slots |-> 0]
    /\ settledRun = [s \in Slots |-> 0]
    /\ doing = [v \in Servers |-> Idle]

\* Two packets carry one decision.
SameDecision(p, q) == Answers[p] = Answers[q] /\ Verdict[p] = Verdict[q] /\ Sender[p] = Sender[q]

\* The authorization is active: the decision that was recorded approves.
Active(r) == decidedBy[r] # NoDecision /\ Verdict[decidedBy[r]] = "approved"

\* _require_approval_grant.
RequireApprovalGrant(d) == grant[d] = "current"

-----------------------------------------------------------------------------
(* Requests and decisions.                                                 *)

\* register_companion_approval_request, from send_message: before the packet
\* that carries the request.
Register(r) ==
    /\ r \notin registered
    /\ r \notin outdated
    /\ registered' = registered \cup {r}
    /\ UNCHANGED <<cgVars, decidedBy, outdated, grant, effect, working, runs, doing, settledRun>>

\* validate_approval_decision_binding: the decision repeats the request, device
\* included, and the device is the sender of the packet.
BoundToRequest(p) == Answers[p] \in registered /\ Sender[p] = Device[Answers[p]]

\* activate_companion_approval up to its transaction.
CheckActivation(v, p, n) ==
    /\ doing[v] = Idle
    /\ Current(p, n) /\ live[p]
    /\ trusted[p]
    /\ BoundToRequest(p)
    /\ Answers[p] \notin outdated
    /\ RequireApprovalGrant(Sender[p])
    /\ doing' = [doing EXCEPT ![v] = [op |-> "activate", packet |-> p, claim |-> n]]
    /\ UNCHANGED <<cgVars, registered, decidedBy, outdated, grant, effect, working, runs, settledRun>>

\* The first decision wins; the same decision in another packet changes
\* nothing and is acknowledged.
FirstOrSame(p) ==
    decidedBy[Answers[p]] # NoDecision => SameDecision(p, decidedBy[Answers[p]])

\* Its transaction: the claim is still the newest; its lease was live when the
\* check read the clock.  The packet is acknowledged with the authorization.
CommitActivation(v) ==
    LET p == doing[v].packet
        n == doing[v].claim
    IN
    /\ doing[v].op = "activate"
    /\ \/ /\ FirstOrSame(p)
          /\ AcknowledgeClaim(p, n)
          /\ decidedBy' = [decidedBy EXCEPT ![Answers[p]] =
                             IF @ = NoDecision THEN p ELSE @]
       \/ /\ ~(FirstOrSame(p) /\ Current(p, n))
          /\ UNCHANGED <<cgVars, decidedBy>>
    /\ doing' = [doing EXCEPT ![v] = Idle]
    /\ UNCHANGED <<registered, outdated, grant, effect, working, runs, settledRun>>

-----------------------------------------------------------------------------
(* Effects.                                                                *)

Update(s, to, leased) ==
    /\ effect' = [effect EXCEPT ![s] = to]
    /\ working' = [working EXCEPT ![s] = leased]

\* begin_companion_approval_effect up to its transaction.  lapsed is the run
\* whose lease is over by the clock that was read, 0 when there is none.
CheckBegin(v, s) ==
    /\ doing[v] = Idle
    /\ Active(s[1])
    /\ s[1] \notin outdated
    /\ RequireApprovalGrant(Device[s[1]])
    /\ doing' = [doing EXCEPT ![v] =
          [op |-> "begin", slot |-> s,
           lapsed |-> IF effect[s] = "working" /\ ~working[s] THEN runs[s] ELSE 0]]
    /\ UNCHANGED <<cgVars, registered, decidedBy, outdated, grant, effect, working, runs, settledRun>>

\* Effects that hold a use of the approval: a rejected one gives it back.
Reserved(r) == {e \in Effects : effect[<<r, e>>] \in {"working", "retry", "executed"}}

\* A new effect needs a use; an old one is run again after a retry or when its
\* lease is over.
MayBegin(s, lapsed) ==
    \/ effect[s] = "none" /\ Cardinality(Reserved(s[1])) < MaxUses[s[1]]
    \/ effect[s] = "retry"
    \/ effect[s] = "working" /\ lapsed = runs[s]

CommitBegin(v) ==
    LET s == doing[v].slot IN
    /\ doing[v].op = "begin"
    /\ \/ /\ MayBegin(s, doing[v].lapsed)
          /\ Update(s, "working", TRUE)
          /\ runs' = [runs EXCEPT ![s] = @ + 1]
       \/ /\ ~MayBegin(s, doing[v].lapsed)
          /\ UNCHANGED <<effect, working, runs>>
    /\ doing' = [doing EXCEPT ![v] = Idle]
    /\ UNCHANGED <<cgVars, registered, decidedBy, outdated, grant, settledRun>>

\* Bound: the last run neither lapses nor asks for a retry.
MayRunAgain(s) == runs[s] < MaxRuns

\* The token is the one of the newest run, and the run is not settled.
AnyToken(s, n) == effect[s] = "working"                       \* mutant
TokenIsCurrent(s, n) == effect[s] = "working" /\ n = runs[s]

\* settle_companion_approval_effect, without a look at the lease or the grant.
SettleEffect(s, n, outcome) ==
    /\ TokenIsCurrent(s, n)
    /\ outcome = "retry" => MayRunAgain(s)
    /\ Update(s, outcome, FALSE)
    /\ settledRun' = [settledRun EXCEPT ![s] = n]
    /\ UNCHANGED <<cgVars, registered, decidedBy, outdated, grant, runs, doing>>

EffectLapses(s) ==
    /\ working[s]
    /\ MayRunAgain(s)
    /\ Update(s, effect[s], FALSE)
    /\ UNCHANGED <<cgVars, registered, decidedBy, outdated, grant, runs, doing, settledRun>>

-----------------------------------------------------------------------------
(* The environment: what DeviceGrants promises, the clock, crashes.        *)

GrantMoves(d, to) ==
    /\ grant[d] # "revoked" /\ grant[d] # to
    /\ grant' = [grant EXCEPT ![d] = to]
    /\ UNCHANGED <<cgVars, registered, decidedBy, outdated, effect, working, runs, doing, settledRun>>

GrantScopeEnds(r) ==
    /\ r \notin outdated
    /\ outdated' = outdated \cup {r}
    /\ UNCHANGED <<cgVars, registered, decidedBy, grant, effect, working, runs, doing, settledRun>>

ServerDies(v) ==
    /\ doing[v] # Idle
    /\ doing' = [doing EXCEPT ![v] = Idle]
    /\ UNCHANGED <<cgVars, registered, decidedBy, outdated, grant, effect, working, runs, settledRun>>

ApprovalNext ==
    \/ \E r \in Requests : Register(r) \/ GrantScopeEnds(r)
    \/ \E v \in Servers, p \in Packets : \E n \in 1..attempts[p] : CheckActivation(v, p, n)
    \/ \E v \in Servers, s \in Slots : CheckBegin(v, s)
    \/ \E v \in Servers : CommitActivation(v) \/ CommitBegin(v) \/ ServerDies(v)
    \/ \E s \in Slots, outcome \in Terminal \cup {"retry"} : \E n \in 1..runs[s] :
          SettleEffect(s, n, outcome)
    \/ \E s \in Slots : EffectLapses(s)
    \/ \E r \in Requests, to \in {"none", "current", "revoked"} : GrantMoves(Device[r], to)

CompanionInit == CGInit /\ ApprovalInit

CompanionNext ==
    \/ CGNext /\ UNCHANGED approvalVars
    \/ ApprovalNext

CompanionSpec == CompanionInit /\ [][CompanionNext]_companionVars

-----------------------------------------------------------------------------
(* Properties.                                                             *)

\* Effects that are executed, wait for a retry, or whose newest run has not
\* settled under its own token: an agent may be at work on them.
Spent(r) == {e \in Effects :
    \/ settledRun[<<r, e>>] # runs[<<r, e>>]
    \/ effect[<<r, e>>] \in {"retry", "executed"}}

\* No effect without an approval: a run exists only where the device that was
\* asked approved, in a packet that is acknowledged with it, and no more effects
\* run or have run than max_uses.  Revocations, rival decisions, overtaken runs
\* that settle late and crashes between check and commit do not matter
\* (activate_, begin_ and settle_companion_approval).
ApprovalSound ==
    \A s \in Slots : effect[s] # "none" =>
        /\ Active(s[1])
        /\ Sender[decidedBy[s[1]]] = Device[s[1]]
        /\ state[decidedBy[s[1]]] = "acked"
        /\ Cardinality(Spent(s[1])) <= MaxUses[s[1]]
=============================================================================
