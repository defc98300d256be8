-------------------------- MODULE AgentTasksProofs --------------------------
(***************************************************************************)
(* Proofs about consumer groups and the typed task ledger, for every set   *)
(* of packets, senders and tasks, every number of workers and of claims.   *)
(***************************************************************************)
EXTENDS AgentTasks, SequenceTheorems, TLAPS

-----------------------------------------------------------------------------
(* Consumer groups.                                                        *)

DeliveryStates == {"none", "leased", "retry", "acked", "revoked"}

\* A delivery belongs to a message of the inbox, a leased one to a trusted
\* message.  A verdict of trust about a denied sender was taken before the
\* denial, and only such a verdict leaves a trusted row behind the clean-up.
GroupInv ==
    /\ state \in [Packets -> DeliveryStates]
    /\ trusted \in [Packets -> BOOLEAN]
    /\ rowid = [p \in Packets |-> rowid[p]]
    /\ Inbox \subseteq seen
    /\ \A p \in Packets : state[p] # "none" => p \in Inbox
    /\ \A p \in Packets : state[p] = "leased" => trusted[p]
    /\ cleaned \subseteq denied
    /\ \A p \in Packets : Sender[p] \in denied /\ <<p, TRUE>> \in verdicts => p \in overtaken
    /\ \A p \in Inbox : Sender[p] \in cleaned /\ trusted[p] => p \in overtaken

\* A settlement, of whichever claim, keeps it.
LEMMA SettleKeeps ==
    ASSUME GroupInv, NEW p \in Packets, NEW n, NEW outcome \in {"acked", "retry"}, Settle(p, n, outcome)
    PROVE  GroupInv'
  BY DEF GroupInv, Settle, Current, Inbox, inboxVars, trustVars, DeliveryStates

\* So does every step of the group.
LEMMA GroupStep == GroupInv /\ [CGNext]_cgVars => GroupInv'
<1> SUFFICES ASSUME GroupInv, [CGNext]_cgVars PROVE GroupInv'
  OBVIOUS
<1>1. ASSUME NEW p \in Packets, NEW trust \in BOOLEAN, Receive(p, trust) PROVE GroupInv'
  <2>1. p \notin Inbox /\ state[p] = "none"
    BY <1>1 DEF Receive, GroupInv
  <2>2. \A q \in Packets \ {p} : /\ rowid'[q] = rowid[q] /\ trusted'[q] = trusted[q]
                                 /\ q \in Inbox' <=> q \in Inbox
    BY <1>1 DEF Receive, GroupInv, Inbox
  <2>3. rowid' = [q \in Packets |-> rowid'[q]] /\ trusted' \in [Packets -> BOOLEAN]
    BY <1>1 DEF Receive, GroupInv
  <2>4. Inbox' \subseteq seen'
    BY <1>1, <2>2 DEF Receive, GroupInv, Inbox
  <2>5. /\ UNCHANGED <<deliveries, denied, cleaned, overtaken>>
        /\ verdicts' \subseteq verdicts /\ <<p, trust>> \in verdicts
        /\ trusted'[p] = trust
    BY <1>1 DEF Receive, GroupInv
  <2>6. \A q \in Inbox' : Sender[q] \in cleaned /\ trusted'[q] => q \in overtaken
    <3>1. Sender[p] \in cleaned /\ trust => p \in overtaken
      <4> SUFFICES ASSUME Sender[p] \in cleaned, trust PROVE p \in overtaken
        OBVIOUS
      <4>1. <<p, TRUE>> \in verdicts
        <5>1. trust = TRUE
          OBVIOUS
        <5>. QED  BY <2>5, <5>1
      <4>. QED  BY <4>1 DEF GroupInv
    <3>. QED  BY <2>2, <2>5, <3>1 DEF GroupInv, Inbox
  <2>7. \A q \in Packets : state'[q] # "none" => q \in Inbox'
    BY <2>1, <2>2, <2>5 DEF GroupInv, deliveries
  <2>8. \A q \in Packets : state'[q] = "leased" => trusted'[q]
    BY <2>1, <2>2, <2>5 DEF GroupInv, deliveries
  <2>9. \A q \in Packets : Sender[q] \in denied' /\ <<q, TRUE>> \in verdicts' => q \in overtaken'
    BY <2>5 DEF GroupInv
  <2>. QED
    BY <2>3, <2>4, <2>5, <2>6, <2>7, <2>8, <2>9 DEF GroupInv, deliveries
<1>10. ASSUME NEW p \in Packets, DecideTrust(p) PROVE GroupInv'
  <2>1. \A q \in Packets : Sender[q] \in denied /\ <<q, TRUE>> \in verdicts' => <<q, TRUE>> \in verdicts
    BY <1>10 DEF DecideTrust
  <2>. QED  BY <1>10, <2>1 DEF DecideTrust, GroupInv, Inbox, inboxVars, deliveries
<1>11. ASSUME NEW s \in Senders, Deny(s) PROVE GroupInv'
  BY <1>11 DEF Deny, GroupInv, Inbox, inboxVars, deliveries
<1>2. ASSUME NEW p \in Packets, Lapse(p) PROVE GroupInv'
  BY <1>2 DEF Lapse, GroupInv, Inbox, inboxVars, trustVars
<1>3. ASSUME NEW old \in SUBSET (Transient \cap Inbox), Purge(old) PROVE GroupInv'
  <2>1. \A p \in Packets : p \in Inbox' <=> p \in Inbox /\ p \notin old
    BY <1>3 DEF Purge, Inbox
  <2>. QED  BY <1>3, <2>1 DEF Purge, GroupInv, Inbox, trustVars, DeliveryStates
<1>4. ASSUME NEW s \in Senders, RevokePeer(s) PROVE GroupInv'
  BY <1>4 DEF RevokePeer, GroupInv, Inbox, DeliveryStates
<1>5. ASSUME NEW start \in {"latest", "earliest"}, OpenConsumerGroup(start) PROVE GroupInv'
  BY <1>5 DEF OpenConsumerGroup, GroupInv, Inbox, inboxVars, deliveries, trustVars
<1>6. ASSUME NEW p \in Packets, Claim(p) PROVE GroupInv'
  BY <1>6 DEF Claim, ConsumerFilters, GroupInv, Inbox, inboxVars, trustVars, DeliveryStates
<1>7. ASSUME NEW p \in Packets, NEW n \in 1..attempts[p], AcknowledgeClaim(p, n) \/ RejectClaim(p, n)
      PROVE  GroupInv'
  BY <1>7, SettleKeeps DEF AcknowledgeClaim, RejectClaim
<1>8. ASSUME NEW p \in Packets, NEW n \in 1..attempts[p], RenewClaim(p, n) PROVE GroupInv'
  BY <1>8 DEF RenewClaim, GroupInv, Inbox, inboxVars, trustVars
<1>9. CASE UNCHANGED cgVars
  BY <1>9 DEF cgVars, inboxVars, deliveries, trustVars, GroupInv, Inbox
<1>. QED
  BY <1>1, <1>2, <1>3, <1>4, <1>5, <1>6, <1>7, <1>8, <1>9, <1>10, <1>11 DEF CGNext

\* A revocation ends the claims on the sender's messages for good, except on one
\* whose handler had its verdict before the deny list was written and committed
\* it later (revoke_peer, claim_consumer_messages, commit_local_message).
THEOREM GroupRespectsRevocation == CGSpec => []RevocationReaches
<1>1. CGInit => GroupInv
  BY DEF CGInit, GroupInv, Inbox, DeliveryStates
<1>2. GroupInv => RevocationReaches
  BY DEF GroupInv, RevocationReaches, Inbox
<1>. QED  BY <1>1, <1>2, GroupStep, PTL DEF CGSpec

-----------------------------------------------------------------------------
(* The task ledger.                                                        *)

ExecStates == Terminal \cup {"none", "working", "canceling", "retry"}

\* The part of TypeOK that the argument needs; every message is in the inbox.
TaskTypes ==
    /\ GroupInv /\ Inbox = Packets
    /\ exec \in [Tasks -> ExecStates]
    /\ runs \in [Tasks -> Seq(Packets \X Nat)]
    /\ bound \in [Tasks -> Bodies \cup {NoBody}]
    /\ cancel \in [Tasks -> {"none", "requested", "applied", "too_late"}]
    /\ decidedBy \in [Tasks -> Nat]
    /\ attempts \in [Packets -> Nat]

\* A task that has run and has no outcome last ran under a claim on a copy of
\* its own request, inside the policy and with the body it is bound to.
RunsAreOwn ==
    \A t \in Tasks : exec[t] \in {"working", "canceling", "retry"} =>
        LET p == Last(runs[t])[1] IN
        /\ runs[t] # <<>>
        /\ p \in Packets /\ Task[p] = t /\ Kind[p] = "request" /\ p \in Allowed
        /\ bound[t] = Body[p]

TaskInv == TaskTypes /\ RunsAreOwn /\ LedgersAgree /\ NoLostTask

\* Steps of the inbox under the task ledger leave it alone, and acknowledge
\* nothing.
LEMMA InboxSteps ==
    ASSUME TaskInv, UNCHANGED taskVars,
           \/ \E p \in Packets : Lapse(p)
           \/ \E s \in Senders : Deny(s) \/ RevokePeer(s)
           \/ \E p \in Packets : Claim(p)
           \/ \E p \in Packets : \E n \in 1..attempts[p] : RenewClaim(p, n)
    PROVE  TaskInv'
<1>1. GroupInv'
  BY GroupStep DEF TaskInv, TaskTypes, CGNext
<1>2. UNCHANGED rowid /\ \A p \in Packets : state'[p] = "acked" => state[p] = "acked"
  BY DEF TaskInv, TaskTypes, GroupInv, Lapse, Deny, RevokePeer, Claim, RenewClaim, inboxVars, deliveries
<1>3. attempts' \in [Packets -> Nat]
  <2>1. attempts \in [Packets -> Nat]
    BY DEF TaskInv, TaskTypes
  <2>2. ASSUME NEW p \in Packets, Claim(p) PROVE attempts' \in [Packets -> Nat]
    BY <2>1, <2>2 DEF Claim
  <2>. QED  BY <2>1, <2>2 DEF Lapse, Deny, RevokePeer, RenewClaim, deliveries
<1>4. TaskTypes' /\ RunsAreOwn' /\ LedgersAgree'
  BY <1>1, <1>2, <1>3 DEF TaskInv, TaskTypes, RunsAreOwn, LedgersAgree, taskVars, Inbox
<1>5. NoLostTask'
  BY <1>2 DEF TaskInv, NoLostTask, RunsAreOwn, taskVars
<1>. QED  BY <1>4, <1>5 DEF TaskInv

\* A settlement of the claim on p that leaves alone what tasks other than t
\* run under.
LEMMA SettleTask ==
    ASSUME TaskInv, NEW p \in Packets, NEW n, NEW outcome \in {"acked", "retry"},
           Settle(p, n, outcome)
    PROVE  /\ GroupInv' /\ Inbox' = Packets /\ attempts' \in [Packets -> Nat]
           /\ state[p] = "leased" /\ state'[p] = outcome
           /\ \A q \in Packets \ {p} : state'[q] = state[q]
<1>1. GroupInv'
  BY SettleKeeps DEF TaskInv, TaskTypes
<1>. QED  BY <1>1 DEF TaskInv, TaskTypes, GroupInv, Settle, Current, Inbox, inboxVars

\* Every step of workers on tasks keeps the invariant.
LEMMA TaskStep == TaskInv /\ [Next]_vars => TaskInv'
<1> SUFFICES ASSUME TaskInv, [Next]_vars PROVE TaskInv'
  OBVIOUS
<1> USE TaskAssumption
<1>1. ASSUME NEW p \in Packets, NEW n \in 1..attempts[p], BeginCanceled(p, n) PROVE TaskInv'
  <2>1. /\ GroupInv' /\ Inbox' = Packets /\ attempts' \in [Packets -> Nat]
        /\ \A q \in Packets \ {p} : state'[q] = state[q]
    BY <1>1, SettleTask DEF BeginCanceled
  <2>2. Task[p] \in Tasks /\ Body[p] \in Bodies
    BY DEF Bodies
  <2>3. TaskTypes'
    BY <1>1, <2>1, <2>2 DEF TaskInv, TaskTypes, BeginCanceled, ExecStates, Terminal
  <2>4. /\ exec'[Task[p]] = "canceled" /\ cancel'[Task[p]] = "applied"
        /\ \A t \in Tasks \ {Task[p]} :
              exec'[t] = exec[t] /\ cancel'[t] = cancel[t] /\ bound'[t] = bound[t]
        /\ UNCHANGED <<runs, bypassed>>
    BY <1>1, <2>2 DEF TaskInv, TaskTypes, BeginCanceled
  <2>5. RunsAreOwn' /\ LedgersAgree'
    BY <2>4 DEF TaskInv, RunsAreOwn, LedgersAgree, Terminal
  <2>6. NoLostTask'
    BY <2>1, <2>4 DEF TaskInv, RunsAreOwn, NoLostTask
  <2>. QED  BY <2>3, <2>5, <2>6 DEF TaskInv
<1>2. ASSUME NEW p \in Packets, NEW n \in 1..attempts[p], BeginDuplicate(p, n) PROVE TaskInv'
  <2>1. /\ GroupInv' /\ Inbox' = Packets /\ attempts' \in [Packets -> Nat]
        /\ \A q \in Packets \ {p} : state'[q] = state[q]
    BY <1>2, SettleTask DEF BeginDuplicate
  <2>2. TaskTypes' /\ RunsAreOwn' /\ LedgersAgree'
    BY <1>2, <2>1 DEF TaskInv, TaskTypes, BeginDuplicate, RunsAreOwn, LedgersAgree, taskVars
  <2>3. ASSUME NEW t \in Tasks, exec[t] \in {"working", "canceling", "retry"} PROVE Last(runs[t])[1] # p
    <3> SUFFICES ASSUME Last(runs[t])[1] = p PROVE FALSE
      OBVIOUS
    <3>1. t = Task[p] /\ runs[t] # <<>>
      BY <2>3 DEF TaskInv, RunsAreOwn
    <3>2. InProgress(t) /\ ~OwnClaim(t, p, n) /\ ActiveClaim(t) /\ n = attempts[p]
      BY <1>2, <2>3, <3>1 DEF BeginDuplicate, LiveClaim, Current, Terminal
    <3>3. Last(runs[t]) \in Packets \X Nat
      BY <3>1 DEF TaskInv, TaskTypes, Last
    <3>4. Last(runs[t])[2] = attempts[p]
      BY <3>2 DEF ActiveClaim, Current
    <3>5. Last(runs[t]) = <<p, n>>
      BY <3>2, <3>3, <3>4
    <3>. QED  BY <3>2, <3>5 DEF OwnClaim
  <2>4. NoLostTask'
    BY <1>2, <2>1, <2>3 DEF TaskInv, BeginDuplicate, RunsAreOwn, NoLostTask, taskVars
  <2>. QED  BY <2>2, <2>4 DEF TaskInv
<1>3. ASSUME NEW p \in Packets, NEW n \in 1..attempts[p], BeginExecute(p, n) PROVE TaskInv'
  <2>1. Task[p] \in Tasks /\ Body[p] \in Bodies /\ n \in Nat
    BY DEF Bodies, TaskInv, TaskTypes
  <2>2. /\ UNCHANGED <<cgVars, cancel, cancelBound, decidedBy, bypassed>>
        /\ exec' = [exec EXCEPT ![Task[p]] = "working"]
        /\ runs' = [runs EXCEPT ![Task[p]] = Append(@, <<p, n>>)]
        /\ bound' = [bound EXCEPT ![Task[p]] = Body[p]]
        /\ state[p] = "leased" /\ Kind[p] = "request" /\ p \in Allowed
    BY <1>3 DEF BeginExecute, LiveClaim, Current
  <2>3. runs[Task[p]] \in Seq(Packets \X Nat)
    BY <2>1 DEF TaskInv, TaskTypes
  <2>4. /\ runs'[Task[p]] = Append(runs[Task[p]], <<p, n>>) /\ runs'[Task[p]] # <<>>
        /\ Last(runs'[Task[p]]) = <<p, n>>
        /\ \A t \in Tasks \ {Task[p]} : runs'[t] = runs[t]
    <3>1. /\ runs'[Task[p]] = Append(runs[Task[p]], <<p, n>>)
          /\ \A t \in Tasks \ {Task[p]} : runs'[t] = runs[t]
      BY <2>1, <2>2 DEF TaskInv, TaskTypes
    <3> DEFINE one == <<p, n>>
               log == runs[Task[p]]
               S == Packets \X Nat
    <3>2. one \in S /\ log \in Seq(S)
      BY <2>1, <2>3
    <3> HIDE DEF one, log, S
    <3>3. Append(log, one) # <<>> /\ Last(Append(log, one)) = one
      <4>1. /\ Append(log, one) # <<>> /\ Len(Append(log, one)) = Len(log) + 1
            /\ Append(log, one)[Len(log) + 1] = one
        BY <3>2, AppendProperties
      <4>. QED  BY <4>1 DEF Last
    <3>. QED  BY <3>1, <3>3 DEF one, log
  <2>5. TaskTypes'
    <3>1. GroupInv' /\ Inbox' = Packets
      BY <2>2 DEF TaskInv, TaskTypes, GroupInv, Inbox, cgVars, inboxVars, deliveries, trustVars
    <3>2. <<p, n>> \in Packets \X Nat
      BY <2>1
    <3>3. runs' \in [Tasks -> Seq(Packets \X Nat)]
      BY <2>1, <2>2, <2>3, <3>2 DEF TaskInv, TaskTypes
    <3>. QED
      BY <2>1, <2>2, <3>1, <3>3 DEF TaskInv, TaskTypes, ExecStates, cgVars, deliveries
  <2>6. RunsAreOwn' /\ NoLostTask'
    <3>1. /\ Last(runs'[Task[p]])[1] = p
          /\ exec'[Task[p]] = "working" /\ bound'[Task[p]] = Body[p]
          /\ \A t \in Tasks \ {Task[p]} : exec'[t] = exec[t] /\ bound'[t] = bound[t]
          /\ UNCHANGED <<state, bypassed>>
      BY <2>1, <2>2, <2>4 DEF TaskInv, TaskTypes, cgVars, deliveries
    <3>2. RunsAreOwn'
      BY <2>1, <2>2, <2>4, <3>1 DEF TaskInv, RunsAreOwn
    <3>3. NoLostTask'
      BY <2>1, <2>2, <2>4, <3>1 DEF TaskInv, NoLostTask
    <3>. QED  BY <3>2, <3>3
  <2>7. LedgersAgree'
    BY <1>3, <2>1, <2>2
       DEF TaskInv, TaskTypes, LedgersAgree, BeginExecute, MayStart, CancelPending, Terminal
  <2>. QED  BY <2>5, <2>6, <2>7 DEF TaskInv
<1>4. ASSUME NEW p \in Packets, NEW n \in 1..attempts[p], ApplyAgentTaskCancellation(p, n) PROVE TaskInv'
  <2> DEFINE t == Task[p]
             hit == {p} \cup (IF exec[t] = "retry" THEN {Last(runs[t])[1]} ELSE {})
  <2>1. /\ state' = [q \in Packets |-> IF q \in hit THEN "acked" ELSE state[q]]
        /\ cancel' = [cancel EXCEPT ![t] = CancelState(t)]
        /\ exec' = [exec EXCEPT ![t] = CancelExec(t)]
        /\ UNCHANGED <<inboxVars, groupVars, attempts, trustVars, runs, bound, decidedBy, bypassed>>
        /\ Kind[p] = "cancel" /\ t \in Tasks
    BY <1>4 DEF ApplyAgentTaskCancellation, LiveClaim
  <2>2. \A q \in hit : q \in Packets /\ Task[q] = t
    BY <2>1 DEF TaskInv, RunsAreOwn
  <2>3. CancelState(t) \in {"requested", "applied", "too_late"} /\ CancelExec(t) \in ExecStates
    BY <2>1 DEF CancelState, CancelExec, TaskInv, TaskTypes, ExecStates, Terminal, InProgress
  <2> HIDE DEF t, hit
  <2>4. GroupInv' /\ Inbox' = Packets
    BY <2>1, <2>2 DEF TaskInv, TaskTypes, GroupInv, Inbox, inboxVars, trustVars, DeliveryStates
  <2>5. TaskTypes'
    BY <2>1, <2>3, <2>4 DEF TaskInv, TaskTypes
  <2>6. LedgersAgree'
    BY <2>1
       DEF CancelState, CancelExec, TaskInv, TaskTypes, LedgersAgree, ExecStates, Terminal, InProgress
  <2>7. RunsAreOwn'
    BY <2>1
       DEF CancelExec, TaskInv, TaskTypes, RunsAreOwn, ExecStates, Terminal, InProgress
  <2>8. NoLostTask'
    <3> SUFFICES ASSUME NEW u \in Tasks \ bypassed, exec'[u] \in {"working", "canceling", "retry"}
                 PROVE state'[Last(runs[u])[1]] # "acked"
      BY <2>1 DEF NoLostTask
    <3>1. exec[u] \in {"working", "canceling", "retry"} /\ (u = t => exec[t] # "retry")
      BY <2>1 DEF CancelExec, TaskInv, TaskTypes, ExecStates, Terminal, InProgress
    <3>2. /\ Last(runs[u])[1] \in Packets /\ Kind[Last(runs[u])[1]] = "request"
          /\ Task[Last(runs[u])[1]] = u
      BY <3>1 DEF TaskInv, RunsAreOwn
    <3>3. Last(runs[u])[1] \notin hit
      BY <2>1, <2>2, <3>1, <3>2 DEF hit
    <3>. QED  BY <2>1, <3>1, <3>2, <3>3 DEF TaskInv, NoLostTask
  <2>. QED  BY <2>5, <2>6, <2>7, <2>8 DEF TaskInv
<1>5. ASSUME NEW p \in Packets, NEW n \in 1..attempts[p], GenericAck(p, n) PROVE TaskInv'
  <2>1. /\ GroupInv' /\ Inbox' = Packets /\ attempts' \in [Packets -> Nat]
        /\ state[p] = "leased" /\ n = attempts[p]
        /\ \A q \in Packets \ {p} : state'[q] = state[q]
    BY <1>5, SettleTask DEF GenericAck, AcknowledgeClaim, Settle, Current
  <2>2. /\ UNCHANGED <<exec, runs, bound, cancel, cancelBound, decidedBy>>
        /\ bypassed' = IF Refused(p) THEN bypassed ELSE bypassed \cup {Task[p]}
    BY <1>5 DEF GenericAck
  <2>3. TaskTypes' /\ RunsAreOwn' /\ LedgersAgree'
    BY <2>1, <2>2 DEF TaskInv, TaskTypes, RunsAreOwn, LedgersAgree
  <2>4. ASSUME NEW t \in Tasks \ bypassed', exec[t] \in {"working", "canceling", "retry"}
        PROVE Last(runs[t])[1] # p
    <3> SUFFICES ASSUME Last(runs[t])[1] = p PROVE FALSE
      OBVIOUS
    <3>1. t = Task[p] /\ Kind[p] = "request" /\ p \in Allowed /\ bound[t] = Body[p]
      BY <2>4 DEF TaskInv, RunsAreOwn
    <3>2. trusted[p]
      BY <2>1 DEF TaskInv, TaskTypes, GroupInv
    <3>3. ~Refused(p)
      BY <3>1, <3>2 DEF Refused, SameBody
    <3>. QED  BY <2>2, <2>4, <3>1, <3>3
  <2>5. NoLostTask'
    BY <2>1, <2>2, <2>4 DEF TaskInv, RunsAreOwn, NoLostTask
  <2>. QED  BY <2>3, <2>5 DEF TaskInv
<1>6. ASSUME NEW p \in Packets, NEW n \in 1..attempts[p], GenericReject(p, n) PROVE TaskInv'
  <2>1. /\ GroupInv' /\ Inbox' = Packets /\ attempts' \in [Packets -> Nat]
        /\ state'[p] = "retry"
        /\ \A q \in Packets \ {p} : state'[q] = state[q]
    BY <1>6, SettleTask DEF GenericReject, RejectClaim
  <2>2. TaskTypes' /\ RunsAreOwn' /\ LedgersAgree'
    BY <1>6, <2>1 DEF TaskInv, TaskTypes, GenericReject, RunsAreOwn, LedgersAgree, taskVars
  <2>3. NoLostTask'
    BY <1>6, <2>1 DEF TaskInv, GenericReject, RunsAreOwn, NoLostTask, taskVars
  <2>. QED  BY <2>2, <2>3 DEF TaskInv
<1>7. ASSUME NEW t \in Tasks, NEW m \in DOMAIN runs[t], NEW outcome \in Terminal \cup {"retry"},
             SettleAgentTask(t, m, outcome)
      PROVE  TaskInv'
  <2> DEFINE p == runs[t][m][1]
             final == IF outcome = "retry" THEN "retry" ELSE "acked"
  <2>1. /\ InProgress(t) /\ m = Len(runs[t]) /\ OutcomeAllowed(t, outcome)
        /\ Settle(p, runs[t][m][2], final)
        /\ exec' = [exec EXCEPT ![t] = outcome]
        /\ cancel' = [cancel EXCEPT ![t] = IF outcome = "canceled" /\ @ = "requested"
                                           THEN "applied" ELSE @]
        /\ decidedBy' = [decidedBy EXCEPT ![t] = m]
        /\ UNCHANGED <<runs, bound, cancelBound, bypassed>>
    BY <1>7 DEF SettleAgentTask, CurrentRun
  <2>2. p = Last(runs[t])[1] /\ p \in Packets /\ Task[p] = t /\ m \in Nat
    <3>1. p = Last(runs[t])[1]
      BY <2>1 DEF Last
    <3>2. Len(runs[t]) \in Nat
      BY DEF TaskInv, TaskTypes
    <3>. QED  BY <2>1, <3>1, <3>2 DEF TaskInv, RunsAreOwn, InProgress
  <2> HIDE DEF p
  <2>3. /\ GroupInv' /\ Inbox' = Packets /\ attempts' \in [Packets -> Nat]
        /\ state'[p] = final
        /\ \A q \in Packets \ {p} : state'[q] = state[q]
    BY <2>1, <2>2, SettleTask
  <2>4. TaskTypes'
    BY <2>1, <2>2, <2>3 DEF TaskInv, TaskTypes, ExecStates, Terminal
  <2>5. RunsAreOwn'
    BY <2>1, <2>2 DEF TaskInv, TaskTypes, RunsAreOwn, InProgress
  <2>6. LedgersAgree'
    BY <2>1, <2>2
       DEF TaskInv, TaskTypes, LedgersAgree, OutcomeAllowed, InProgress, Terminal
  <2>7. NoLostTask'
    <3>1. /\ exec'[t] = outcome
          /\ \A u \in Tasks \ {t} : exec'[u] = exec[u]
      BY <2>1 DEF TaskInv, TaskTypes
    <3>2. \A u \in Tasks \ {t} : exec[u] \in {"working", "canceling", "retry"} =>
             Last(runs[u])[1] \in Packets \ {p}
      BY <2>2 DEF TaskInv, RunsAreOwn
    <3>3. outcome \in {"working", "canceling", "retry"} => state'[p] = "retry"
      BY <2>3 DEF Terminal
    <3>. QED  BY <2>1, <2>2, <2>3, <3>1, <3>2, <3>3 DEF TaskInv, NoLostTask
  <2>. QED  BY <2>4, <2>5, <2>6, <2>7 DEF TaskInv
<1>8. CASE UNCHANGED vars
  <2>1. UNCHANGED <<rowid, trusted, seen, state, attempts, denied, cleaned, verdicts, overtaken, taskVars>>
    BY <1>8 DEF vars, cgVars, inboxVars, deliveries, trustVars
  <2>2. GroupInv' /\ Inbox' = Packets
    BY <2>1 DEF TaskInv, TaskTypes, GroupInv, Inbox
  <2>3. TaskTypes' /\ RunsAreOwn' /\ LedgersAgree'
    BY <2>1, <2>2 DEF taskVars, TaskInv, TaskTypes, RunsAreOwn, LedgersAgree
  <2>4. NoLostTask'
    BY <2>1 DEF taskVars, TaskInv, NoLostTask
  <2>. QED  BY <2>3, <2>4 DEF TaskInv
<1>. QED
  BY <1>1, <1>2, <1>3, <1>4, <1>5, <1>6, <1>7, <1>8, InboxSteps DEF Next, Begin, SettleRun

\* The first state of a node whose messages have all arrived.
LEMMA TaskInitially == Init => TaskInv
<1> SUFFICES ASSUME Init PROVE TaskInv
  OBVIOUS
<1>1. Inbox = Packets
  BY DEF Init, Arrived, Inbox
<1>2. GroupInv
  BY <1>1 DEF Init, Arrived, GroupInv, DeliveryStates
<1>3. TaskTypes
  BY <1>1, <1>2 DEF Init, Arrived, TaskInit, TaskTypes, ExecStates
<1>. QED  BY <1>3 DEF Init, TaskInit, TaskInv, RunsAreOwn, LedgersAgree, NoLostTask, Terminal

\* However leases run out, duplicates are claimed and senders revoked, the
\* execution ledger, the cancellation ledger and the inbox tell one story
\* (begin_agent_task, settle_agent_task, apply_agent_task_cancellation).
THEOREM TaskLedgersSound == Spec => [](RevocationReaches /\ LedgersSound)
<1>1. TaskInv => RevocationReaches /\ LedgersSound
  BY DEF TaskInv, TaskTypes, GroupInv, RevocationReaches, LedgersSound
<1>. QED  BY <1>1, TaskInitially, TaskStep, PTL DEF Spec

\* The execution token fences every run: no outcome is rewritten, only the
\* newest run decides, and no run begins once a cancellation is on record
\* (settle_agent_task, begin_agent_task).
THEOREM TaskRunsFenced == Spec => RunsAreFenced
<1> DEFINE Fenced ==
      \A t \in Tasks :
          /\ exec[t] \in Terminal => exec'[t] = exec[t] /\ runs'[t] = runs[t]
          /\ exec'[t] # exec[t] /\ exec'[t] \in {"completed", "failed", "retry"} =>
                decidedBy'[t] = Len(runs[t])
          /\ runs'[t] # runs[t] => cancel[t] = "none"
<1>1. TaskInv /\ [Next]_vars => [Fenced]_vars
  <2> SUFFICES ASSUME TaskInv, Next PROVE Fenced
    OBVIOUS
  <2>1. CASE UNCHANGED taskVars
    BY <2>1 DEF taskVars
  <2>2. ASSUME NEW p \in Packets, NEW n \in 1..attempts[p], BeginCanceled(p, n) PROVE Fenced
    BY <2>2 DEF BeginCanceled, MayStart, TaskInv, TaskTypes, Terminal
  <2>3. ASSUME NEW p \in Packets, NEW n \in 1..attempts[p], BeginExecute(p, n) PROVE Fenced
    <3>1. /\ Task[p] \in Tasks /\ exec'[Task[p]] = "working"
          /\ \A t \in Tasks \ {Task[p]} : exec'[t] = exec[t] /\ runs'[t] = runs[t]
      BY <2>3, TaskAssumption DEF BeginExecute, TaskInv, TaskTypes
    <3>2. exec[Task[p]] \notin Terminal /\ cancel[Task[p]] = "none"
      BY <2>3, <3>1
         DEF BeginExecute, MayStart, CancelPending, TaskInv, TaskTypes, LedgersAgree, Terminal
    <3>. QED  BY <3>1, <3>2
  <2>4. ASSUME NEW p \in Packets, NEW n \in 1..attempts[p], ApplyAgentTaskCancellation(p, n) PROVE Fenced
    BY <2>4
       DEF ApplyAgentTaskCancellation, CancelExec, InProgress, TaskInv, TaskTypes, ExecStates, Terminal
  <2>5. ASSUME NEW p \in Packets, NEW n \in 1..attempts[p], GenericAck(p, n) PROVE Fenced
    BY <2>5 DEF GenericAck
  <2>6. ASSUME NEW t \in Tasks, NEW m \in DOMAIN runs[t], NEW outcome \in Terminal \cup {"retry"},
               SettleAgentTask(t, m, outcome)
        PROVE  Fenced
    BY <2>6 DEF SettleAgentTask, CurrentRun, InProgress, TaskInv, TaskTypes, Terminal
  <2>. QED
    BY <2>1, <2>2, <2>3, <2>4, <2>5, <2>6 DEF Next, Begin, BeginDuplicate, GenericReject, SettleRun
<1>. QED  BY <1>1, TaskInitially, TaskStep, PTL DEF Spec, RunsAreFenced
=============================================================================
