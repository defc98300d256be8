----------------------------- MODULE AgentTasks -----------------------------
(***************************************************************************)
(* The typed task ledger on top of a consumer group (store.py              *)
(* begin_agent_task, settle_agent_task, apply_agent_task_cancellation and  *)
(* the typed-task guard of acknowledge_claim and reject_claim).            *)
(*                                                                         *)
(* A task is identified by consumer group, authenticated sender and task   *)
(* id; an element of Tasks stands for the pair of sender and task id.  The *)
(* random execution_token is the pair <<task, m>> of the m-th run of the   *)
(* task, and runs[t] lists the claims the runs were started under: its     *)
(* length is the attempts column, its last element gives owner,            *)
(* claim_token and request_packet_id.                                      *)
(***************************************************************************)
EXTENDS ConsumerGroups, SequencesExt

CONSTANTS
    Tasks,      \* sender and task id
    Task,       \* Packets -> Tasks
    Kind,       \* Packets -> {"request", "cancel"}
    Body,       \* Packets -> bodies, compared through their hash
    NoBody,     \* no row yet
    Allowed,    \* packets inside the sender and capability policies
    MaxRuns     \* bound on the runs of one task

Bodies == {Body[p] : p \in Packets}

ASSUME TaskAssumption ==
    /\ Task \in [Packets -> Tasks]
    /\ Kind \in [Packets -> {"request", "cancel"}]
    /\ NoBody \notin Bodies
    /\ Allowed \subseteq Packets
    /\ MaxRuns \in Nat \ {0}
    /\ \A p, q \in Packets : Task[p] = Task[q] => Sender[p] = Sender[q]

VARIABLES
    exec,       \* agent_task_executions.state, "none" when there is no row
    runs,       \* claims of the successive runs
    bound,      \* request_hash
    cancel,     \* agent_task_cancellations.state, "none" when there is no row
    cancelBound,\* cancel_hash
    decidedBy,  \* history: number of the run that settled the task last
    bypassed    \* history: tasks with a message acknowledged outside the protocol

taskVars == <<exec, runs, bound, cancel, cancelBound, decidedBy, bypassed>>
vars == <<cgVars, taskVars>>

Terminal == {"completed", "failed", "canceled"}    \* rejected is like failed

\* The tables and local variables hold only values the code can put there.
TypeOK ==
    /\ CGTypeOK
    /\ exec \in [Tasks -> Terminal \cup {"none", "working", "canceling", "retry"}]
    /\ runs \in [Tasks -> Seq(Packets \X Nat)]
    /\ bound \in [Tasks -> Bodies \cup {NoBody}]
    /\ cancel \in [Tasks -> {"none", "requested", "applied", "too_late"}]
    /\ cancelBound \in [Tasks -> Bodies \cup {NoBody}]
    /\ decidedBy \in [Tasks -> Nat]
    /\ bypassed \subseteq Tasks

\* Every message has arrived, in some order, while its sender was trusted, and
\* the group was opened after that, from the earliest on: which came first is
\* what the claims can tell.
Arrived ==
    /\ rowid \in {r \in [Packets -> 1..Cardinality(Packets)] : IsInjective(r)}
    /\ trusted = [p \in Packets |-> TRUE]
    /\ opened = TRUE
    /\ startAfter = 0
    /\ state = [p \in Packets |-> "none"]
    /\ live = [p \in Packets |-> FALSE]
    /\ attempts = [p \in Packets |-> 0]
    /\ denied \in SUBSET Senders /\ cleaned = {}
    /\ verdicts = {} /\ overtaken = {}
    /\ seen = Packets
    /\ after = {}

\* The ledgers are empty.
TaskInit ==
    /\ exec = [t \in Tasks |-> "none"]
    /\ runs = [t \in Tasks |-> <<>>]
    /\ bound = [t \in Tasks |-> NoBody]
    /\ cancel = [t \in Tasks |-> "none"]
    /\ cancelBound = [t \in Tasks |-> NoBody]
    /\ decidedBy = [t \in Tasks |-> 0]
    /\ bypassed = {}

Init == Arrived /\ TaskInit

-----------------------------------------------------------------------------
(* Guards shared by the handlers.                                          *)

InProgress(t) == exec[t] \in {"working", "canceling"}

\* The execution row names the claim <<p, n>>.
OwnClaim(t, p, n) == InProgress(t) /\ Last(runs[t]) = <<p, n>>

\* The claim of the execution row is leased and its lease has not run out.
AlwaysActive(t) == TRUE                                       \* mutant
ActiveClaim(t) ==
    LET c == Last(runs[t]) IN Current(c[1], c[2]) /\ live[c[1]]

\* The checks that open both typed handlers: a live leased claim on a trusted
\* message of the right kind inside the local policy.
LiveClaim(p, n, kind) ==
    /\ Current(p, n)
    /\ live[p]
    /\ trusted[p]
    /\ Kind[p] = kind
    /\ p \in Allowed

\* The request repeats the body the task was first begun with.
SameBody(p) == bound[Task[p]] \in {NoBody, Body[p]}

\* The task has not run yet or waits for a retry.
MayStart(t) == exec[t] \in {"none", "retry"}

\* A cancellation in state requested or applied.
CancelPending(t) == cancel[t] \in {"requested", "applied"}

\* NOT EXISTS (... working or canceling execution under this claim).
TypedTask(p, n) == \E t \in Tasks : OwnClaim(t, p, n)

-----------------------------------------------------------------------------
(* begin_agent_task, by what it returns.                                   *)

\* The task is canceled before it ran, or taken over from a worker that
\* disappeared while canceling: the claim is acknowledged, execute=false.
BeginCanceled(p, n) ==
    LET t == Task[p] IN
    /\ LiveClaim(p, n, "request") /\ SameBody(p)
    /\ \/ MayStart(t) /\ CancelPending(t)
       \/ exec[t] = "canceling" /\ ~OwnClaim(t, p, n) /\ ~ActiveClaim(t)
    /\ exec' = [exec EXCEPT ![t] = "canceled"]
    /\ bound' = [bound EXCEPT ![t] = Body[p]]
    /\ cancel' = [cancel EXCEPT ![t] = "applied"]
    /\ Settle(p, n, "acked")
    /\ UNCHANGED <<runs, cancelBound, decidedBy, bypassed>>

\* The task is finished or runs under another live claim: this copy of the
\* request is acknowledged, execute=false.
BeginDuplicate(p, n) ==
    LET t == Task[p] IN
    /\ LiveClaim(p, n, "request") /\ SameBody(p)
    /\ \/ exec[t] \in Terminal
       \/ InProgress(t) /\ ~OwnClaim(t, p, n) /\ ActiveClaim(t)
    /\ Settle(p, n, "acked")
    /\ UNCHANGED taskVars

\* A first run, a retry, or the takeover of a run whose lease ran out: a new
\* execution token, execute=true.  (A call that repeats the claim of the
\* running execution returns its token again and changes nothing.)
BeginExecute(p, n) ==
    LET t == Task[p] IN
    /\ LiveClaim(p, n, "request") /\ SameBody(p)
    /\ \/ MayStart(t) /\ ~CancelPending(t)
       \/ exec[t] = "working" /\ ~OwnClaim(t, p, n) /\ ~ActiveClaim(t)
    /\ Len(runs[t]) < MaxRuns
    /\ exec' = [exec EXCEPT ![t] = "working"]
    /\ runs' = [runs EXCEPT ![t] = Append(@, <<p, n>>)]
    /\ bound' = [bound EXCEPT ![t] = Body[p]]
    /\ UNCHANGED <<cgVars, cancel, cancelBound, decidedBy, bypassed>>

-----------------------------------------------------------------------------
(* settle_agent_task and apply_agent_task_cancellation.                    *)

\* The execution row and the claim row still carry the caller's tokens.  One
\* claim may start several runs: a lapsed lease that lost the task to another
\* copy of the request can be renewed and begun again.
ClaimOnly(t, m) == InProgress(t) /\ Current(runs[t][m][1], runs[t][m][2])   \* mutant
CurrentRun(t, m) ==
    /\ InProgress(t)
    /\ m = Len(runs[t])
    /\ Current(runs[t][m][1], runs[t][m][2])

\* While canceling only a canceled settlement is accepted.
AnyOutcome(t, outcome) == TRUE                                \* mutant
OutcomeAllowed(t, outcome) == exec[t] = "canceling" => outcome = "canceled"

\* The outcome and the claim are settled in one transaction.
SettleAgentTask(t, m, outcome) ==
    /\ CurrentRun(t, m)
    /\ OutcomeAllowed(t, outcome)
    /\ outcome = "retry" => MayReturn(runs[t][m][1])
    /\ exec' = [exec EXCEPT ![t] = outcome]
    /\ cancel' = [cancel EXCEPT ![t] = IF outcome = "canceled" /\ @ = "requested"
                                       THEN "applied" ELSE @]
    /\ decidedBy' = [decidedBy EXCEPT ![t] = m]
    /\ Settle(runs[t][m][1], runs[t][m][2], IF outcome = "retry" THEN "retry" ELSE "acked")
    /\ UNCHANGED <<runs, bound, cancelBound, bypassed>>

\* What the cancellation row becomes.
CancelState(t) ==
    CASE exec[t] = "canceled" -> "applied"
      [] exec[t] \in Terminal \ {"canceled"} -> "too_late"
      [] exec[t] = "retry" -> "applied"
      [] OTHER -> "requested"

\* What the execution row becomes: running work is asked to stop, work that
\* waits for a retry is canceled on the spot.
CancelExec(t) ==
    CASE InProgress(t) -> "canceling"
      [] exec[t] = "retry" -> "canceled"
      [] OTHER -> exec[t]

\* The request packet of a task that waits for a retry is acknowledged with it.
ApplyAgentTaskCancellation(p, n) ==
    LET t == Task[p]
        hit == {p} \cup (IF exec[t] = "retry" THEN {Last(runs[t])[1]} ELSE {})
    IN
    /\ LiveClaim(p, n, "cancel")
    /\ cancelBound[t] \in {NoBody, Body[p]}
    /\ cancelBound' = [cancelBound EXCEPT ![t] = Body[p]]
    /\ cancel' = [cancel EXCEPT ![t] = CancelState(t)]
    /\ exec' = [exec EXCEPT ![t] = CancelExec(t)]
    /\ state' = [q \in Packets |-> IF q \in hit THEN "acked" ELSE state[q]]
    /\ live' = [q \in Packets |-> q \notin hit /\ live[q]]
    /\ UNCHANGED <<inboxVars, groupVars, attempts, trustVars, runs, bound, decidedBy, bypassed>>

-----------------------------------------------------------------------------

\* A claim that the typed handlers refuse for good: AGENT_TASK_PROTOCOL.md
\* leaves such a message to the generic settlement.
Refused(p) ==
    \/ ~trusted[p] \/ p \notin Allowed
    \/ Kind[p] = "request" /\ ~SameBody(p)
    \/ Kind[p] = "cancel" /\ cancelBound[Task[p]] \notin {NoBody, Body[p]}

\* acknowledge_claim: nothing stops a worker from using it on other messages.
GenericAck(p, n) ==
    /\ ~TypedTask(p, n)
    /\ AcknowledgeClaim(p, n)
    /\ bypassed' = IF Refused(p) THEN bypassed ELSE bypassed \cup {Task[p]}
    /\ UNCHANGED <<exec, runs, bound, cancel, cancelBound, decidedBy>>

GenericReject(p, n) ==
    /\ ~TypedTask(p, n)
    /\ RejectClaim(p, n)
    /\ UNCHANGED taskVars

Begin(p, n) == BeginCanceled(p, n) \/ BeginDuplicate(p, n) \/ BeginExecute(p, n)

SettleRun(t) ==
    \E m \in DOMAIN runs[t], outcome \in Terminal \cup {"retry"} :
        SettleAgentTask(t, m, outcome)

Next ==
    \/ /\ \/ \E p \in Packets : Lapse(p)
          \/ \E s \in Senders : Deny(s) \/ RevokePeer(s)
          \/ \E p \in Packets : Claim(p)
          \/ \E p \in Packets : \E n \in 1..attempts[p] : RenewClaim(p, n)
       /\ UNCHANGED taskVars
    \/ \E p \in Packets : \E n \in 1..attempts[p] :
          \/ Begin(p, n)
          \/ ApplyAgentTaskCancellation(p, n)
          \/ GenericAck(p, n)
          \/ GenericReject(p, n)
    \/ \E t \in Tasks : SettleRun(t)

Spec == Init /\ [][Next]_vars

\* Workers keep claiming, and one that holds a live claim begins the task but
\* settles nothing at all: leases of workers that died run out, except that
\* the claim the bound keeps alive belongs to a worker that settles.
Fairness ==
    /\ \A p \in Packets : SF_vars(Claim(p) /\ UNCHANGED taskVars)
    /\ \A p \in Packets : SF_vars(\E n \in 1..attempts[p] :
                                    Begin(p, n) \/ ApplyAgentTaskCancellation(p, n))
    /\ \A p \in Packets : WF_vars(Lapse(p) /\ UNCHANGED taskVars)
    /\ \A t \in Tasks : WF_vars(runs[t] # <<>> /\ ~MayReturn(Last(runs[t])[1]) /\ SettleRun(t))

FairSpec == Spec /\ Fairness

-----------------------------------------------------------------------------
(* Properties.                                                             *)

\* The execution ledger and the cancellation ledger never tell different
\* stories: a recorded request means the work is stopping or never started,
\* an applied one that it is canceled, a late one that another outcome won.
LedgersAgree ==
    \A t \in Tasks :
        /\ cancel[t] = "requested" => exec[t] \in {"none", "canceling"}
        /\ cancel[t] = "applied" => exec[t] = "canceled"
        /\ cancel[t] = "too_late" => exec[t] \in Terminal \ {"canceled"}
        /\ exec[t] = "canceling" => cancel[t] = "requested"

\* The tokens of a run fence it: a terminal outcome is never rewritten, by a
\* late worker, a duplicate request, a cancellation or a lease takeover; only
\* the newest run decides a task, never a worker whose lease was taken over
\* (settle_agent_task); and no token is issued once a cancellation is on
\* record, although the takeover never looks at the cancellation table.
RunsAreFenced ==
    [][\A t \in Tasks :
          /\ exec[t] \in Terminal => exec'[t] = exec[t] /\ runs'[t] = runs[t]
          /\ exec'[t] # exec[t] /\ exec'[t] \in {"completed", "failed", "retry"} =>
                decidedBy'[t] = Len(runs[t])
          /\ runs'[t] # runs[t] => cancel[t] = "none"]_vars

\* Workers that keep to the protocol never lose a task: while it has no
\* outcome, the request it last ran under has not been acknowledged.
NoLostTask ==
    \A t \in Tasks \ bypassed : exec[t] \in {"working", "canceling", "retry"} =>
        state[Last(runs[t])[1]] # "acked"

\* The ledgers of a task agree with each other and with the inbox.
LedgersSound == LedgersAgree /\ NoLostTask

\* Every cancellation that reaches running work is applied in the end, also
\* when the worker has disappeared: the lease runs out and the next claim
\* finalises it.
CancellationConcludes ==
    []<>(\A t \in Tasks : exec[t] = "canceling" =>
            \/ t \in bypassed
            \/ \E p \in Packets : Task[p] = t /\ Sender[p] \in cleaned)
=============================================================================
