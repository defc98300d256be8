----------------------------- MODULE NodeProofs -----------------------------
(***************************************************************************)
(* Proofs about what a node believes and lets others do: the peer book,    *)
(* companion approvals, the sources of control pages, the Discord bridge   *)
(* and the relationship book, for any number of processes, cards,          *)
(* decisions, effects, pages, messages, replies, actors and claims.        *)
(***************************************************************************)
EXTENDS PeerBook, CompanionApproval, ControlPages, DiscordSocial, Relations,
        FiniteSetTheorems, SequenceTheorems, TLAPS

-----------------------------------------------------------------------------
(* The peer book.                                                          *)

\* With one revoking process nothing that was revoked ever leaves the deny
\* ledger: its copy in memory is the ledger.
LedgerIsComplete ==
    /\ denyFile = revoked
    /\ \A v \in Revokers : pc[v] # "closed" => deny[v] = denyFile

\* What was revoked before a reload is denied from the reload on.
KnownIsDenied ==
    /\ \A w \in Procs : pc[w] # "closed" => known[w] \subseteq deny[w]
    /\ \A w \in Procs : pc[w] \notin {"closed", "reading"} => peers[w] \cap known[w] = {}

BookInv == BookTypeOK /\ LedgerIsComplete /\ KnownIsDenied

\* Processes with stale copies, concurrent writers and crashes between the two
\* writes never make a reloading process trust a peer whose deny record was
\* written before, as long as one process revokes (reload, add_many, revoke;
\* with two revokers the ledger itself can lose a record).
THEOREM RevocationHolds ==
    ASSUME \A v, w \in Revokers : v = w
    PROVE  BookSpec => []RevokedNeverTrusted
<1> USE BookAssumption
<1>1. BookInit => BookInv
  BY DEF BookInit, BookInv, BookTypeOK, LedgerIsComplete, KnownIsDenied
<1>2. BookInv /\ [BookNext]_bookVars => BookInv'
  <2> SUFFICES ASSUME BookInv, [BookNext]_bookVars PROVE BookInv'
    OBVIOUS
  <2> USE DEF BookInv
  <2>1. ASSUME NEW w \in Procs, ReloadDeny(w) PROVE BookInv'
    BY <2>1 DEF ReloadDeny, BookTypeOK, LedgerIsComplete, KnownIsDenied, files
  <2>2. ASSUME NEW w \in Procs, ReloadPeers(w) PROVE BookInv'
    BY <2>2 DEF ReloadPeers, ReadCards, BookTypeOK, LedgerIsComplete, KnownIsDenied, files
  <2>3. ASSUME NEW w \in Procs, RevokeCard(w) PROVE BookInv'
    BY <2>3 DEF RevokeCard, RemainingCards, BookTypeOK, LedgerIsComplete, KnownIsDenied
  <2>4. ASSUME NEW w \in Procs, Crash(w) PROVE BookInv'
    BY <2>4 DEF Crash, BookTypeOK, LedgerIsComplete, KnownIsDenied, files
  <2>5. ASSUME NEW w \in Adders, NEW c \in Cards, Add(w, c) PROVE BookInv'
    BY <2>5 DEF Add, BookTypeOK, LedgerIsComplete, KnownIsDenied
  <2>6. ASSUME NEW w \in Revokers, NEW c \in Cards, RevokeDeny(w, c) PROVE BookInv'
    BY <2>6 DEF RevokeDeny, BookTypeOK, LedgerIsComplete, KnownIsDenied
  <2>7. CASE UNCHANGED bookVars
    BY <2>7 DEF bookVars, files, memory, BookTypeOK, LedgerIsComplete, KnownIsDenied
  <2>. QED  BY <2>1, <2>2, <2>3, <2>4, <2>5, <2>6, <2>7 DEF BookNext
<1>3. BookInv => RevokedNeverTrusted
  BY DEF BookInv, KnownIsDenied, RevokedNeverTrusted
<1>. QED  BY <1>1, <1>2, <1>3, PTL DEF BookSpec

-----------------------------------------------------------------------------
(* Companion approvals.                                                    *)

Activations == [op : {"activate"}, packet : Packets, claim : Nat]
Begins == [op : {"begin"}, slot : Slots, lapsed : Nat]

\* The values of tables and local variables, the inbox included.
ApprovalTypes ==
    /\ state \in [Packets -> {"none", "leased", "retry", "acked", "revoked"}]
    /\ attempts \in [Packets -> Nat]
    /\ decidedBy \in [Requests -> Packets \cup {NoDecision}]
    /\ effect \in [Slots -> Terminal \cup {"none", "working", "retry"}]
    /\ runs \in [Slots -> Nat] /\ settledRun \in [Slots -> Nat]
    /\ doing \in [Servers -> {Idle} \cup Activations \cup Begins]

\* A recorded decision answers the request, comes from the device that was
\* asked, and its packet is acknowledged.
DecisionsAreBound ==
    \A r \in Requests : decidedBy[r] # NoDecision =>
        /\ decidedBy[r] \in Packets
        /\ Sender[decidedBy[r]] = Device[r]
        /\ state[decidedBy[r]] = "acked"

\* What a server checked before its transaction still holds in it.
ChecksHold ==
    \A v \in Servers :
        /\ doing[v].op = "activate" => Sender[doing[v].packet] = Device[Answers[doing[v].packet]]
        /\ doing[v].op = "begin" => Active(doing[v].slot[1])

\* An effect has an approval behind it; a run that has not settled is working.
EffectsAreApproved ==
    \A s \in Slots :
        /\ effect[s] # "none" => Active(s[1])
        /\ settledRun[s] # runs[s] => effect[s] = "working"

\* No more uses are reserved than the scope has.
UsesAreBounded ==
    \A r \in Requests : IsFiniteSet(Reserved(r)) /\ Cardinality(Reserved(r)) <= MaxUses[r]

ApprovalInv ==
    ApprovalTypes /\ DecisionsAreBound /\ ChecksHold /\ EffectsAreApproved /\ UsesAreBounded

\* Steps of the inbox leave acknowledged packets alone: nothing is purged.
LEMMA InboxKeepsApprovals ==
    ApprovalInv /\ CGNext /\ UNCHANGED approvalVars => ApprovalInv'
<1> SUFFICES ASSUME ApprovalInv, CGNext, UNCHANGED approvalVars PROVE ApprovalInv'
  OBVIOUS
<1>1. /\ state' \in [Packets -> {"none", "leased", "retry", "acked", "revoked"}]
      /\ attempts' \in [Packets -> Nat]
      /\ \A p \in Packets : state[p] = "acked" => state'[p] = "acked"
  <2> DEFINE Kept ==
        /\ state' \in [Packets -> {"none", "leased", "retry", "acked", "revoked"}]
        /\ attempts' \in [Packets -> Nat]
        /\ \A p \in Packets : state[p] = "acked" => state'[p] = "acked"
  <2> USE DEF ApprovalInv, ApprovalTypes
  <2>1. ASSUME NEW p \in Packets, DecideTrust(p) \/ Lapse(p) PROVE Kept
    BY <2>1 DEF DecideTrust, Lapse, deliveries
  <2>7. ASSUME NEW p \in Packets, NEW trust \in BOOLEAN, Receive(p, trust) PROVE Kept
    BY <2>7 DEF Receive, deliveries
  <2>2. ASSUME NEW old \in SUBSET (Transient \cap Inbox), Purge(old) PROVE Kept
    BY <2>2, ApprovalAssumption DEF Purge
  <2>3. ASSUME NEW s \in Senders, Deny(s) \/ RevokePeer(s) PROVE Kept
    BY <2>3 DEF Deny, RevokePeer, deliveries
  <2>4. ASSUME NEW start \in {"latest", "earliest"}, OpenConsumerGroup(start) PROVE Kept
    BY <2>4 DEF OpenConsumerGroup, deliveries
  <2>5. ASSUME NEW p \in Packets, Claim(p) PROVE Kept
    BY <2>5 DEF Claim, Available
  <2>6. ASSUME NEW p \in Packets, NEW n \in 1..attempts[p],
               AcknowledgeClaim(p, n) \/ RejectClaim(p, n) \/ RenewClaim(p, n)
        PROVE  Kept
    BY <2>6 DEF AcknowledgeClaim, RejectClaim, RenewClaim, Settle, Current
  <2>. QED  BY <2>1, <2>2, <2>3, <2>4, <2>5, <2>6, <2>7 DEF CGNext
<1>. QED
  BY <1>1
     DEF ApprovalInv, ApprovalTypes, DecisionsAreBound, ChecksHold, EffectsAreApproved, UsesAreBounded,
         Active, Reserved, approvalVars

\* No effect runs without the approval of the device that was asked, nor more
\* effects than the scope allows: a check that is stale when its transaction
\* commits, rival decisions, late settlements, revocations and crashes do not
\* matter (activate_, begin_ and settle_companion_approval_effect).
THEOREM ApprovalsSound == CompanionSpec => []ApprovalSound
<1> USE GroupAssumption, ApprovalAssumption
<1>1. CompanionInit => ApprovalInv
  <2> SUFFICES ASSUME CompanionInit PROVE ApprovalInv
    OBVIOUS
  <2>1. ApprovalTypes /\ DecisionsAreBound /\ EffectsAreApproved
    BY DEF CompanionInit, CGInit, ApprovalInit, ApprovalTypes, DecisionsAreBound, EffectsAreApproved, Active
  <2>2. ChecksHold
    BY DEF CompanionInit, ApprovalInit, ChecksHold, Idle
  <2>3. \A r \in Requests : Reserved(r) = {}
    BY DEF CompanionInit, ApprovalInit, Reserved, Slots
  <2>4. UsesAreBounded
    <3>1. IsFiniteSet({}) /\ Cardinality({}) = 0
      BY FS_EmptySet
    <3>2. ASSUME NEW r \in Requests
          PROVE IsFiniteSet(Reserved(r)) /\ Cardinality(Reserved(r)) <= MaxUses[r]
      <4>1. MaxUses[r] \in Nat /\ Reserved(r) = {}
        BY <2>3
      <4>2. Cardinality(Reserved(r)) = 0 /\ IsFiniteSet(Reserved(r))
        BY <3>1, <4>1
      <4>. QED  BY <4>1, <4>2
    <3>. QED  BY <3>2 DEF UsesAreBounded
  <2>. QED  BY <2>1, <2>2, <2>4 DEF ApprovalInv
<1>2. ApprovalInv /\ [CompanionNext]_companionVars => ApprovalInv'
  <2> SUFFICES ASSUME ApprovalInv, [CompanionNext]_companionVars PROVE ApprovalInv'
    OBVIOUS
  <2> USE DEF ApprovalInv
  <2>1. ASSUME NEW r \in Requests, Register(r) \/ GrantScopeEnds(r) PROVE ApprovalInv'
    BY <2>1
       DEF Register, GrantScopeEnds, ApprovalTypes, DecisionsAreBound, ChecksHold, EffectsAreApproved,
           UsesAreBounded, Active, Reserved, cgVars, deliveries
  <2>2. ASSUME NEW v \in Servers, NEW p \in Packets, NEW n \in 1..attempts[p], CheckActivation(v, p, n)
        PROVE  ApprovalInv'
    <3>1. /\ doing' = [doing EXCEPT ![v] = [op |-> "activate", packet |-> p, claim |-> n]]
          /\ Sender[p] = Device[Answers[p]]
          /\ UNCHANGED <<state, attempts, decidedBy, effect, runs, settledRun>>
      BY <2>2 DEF CheckActivation, BoundToRequest, cgVars, deliveries
    <3>2. n \in Nat
      BY DEF ApprovalTypes
    <3>3. ApprovalTypes'
      BY <3>1, <3>2 DEF ApprovalTypes, Activations
    <3>4. ChecksHold'
      BY <3>1 DEF ApprovalTypes, ChecksHold, Active
    <3>. QED
      BY <3>1, <3>3, <3>4
         DEF DecisionsAreBound, EffectsAreApproved, UsesAreBounded, Active, Reserved
  <2>3. ASSUME NEW v \in Servers, NEW s \in Slots, CheckBegin(v, s) PROVE ApprovalInv'
    <3>1. PICK lapsed \in Nat : doing' = [doing EXCEPT ![v] = [op |-> "begin", slot |-> s, lapsed |-> lapsed]]
      BY <2>3 DEF CheckBegin, ApprovalTypes
    <3>2. UNCHANGED <<state, attempts, decidedBy, effect, runs, settledRun>> /\ Active(s[1])
      BY <2>3 DEF CheckBegin, cgVars, deliveries
    <3>3. ApprovalTypes'
      BY <3>1, <3>2 DEF ApprovalTypes, Begins
    <3>4. ChecksHold'
      BY <3>1, <3>2 DEF ApprovalTypes, ChecksHold, Active
    <3>. QED
      BY <3>2, <3>3, <3>4
         DEF DecisionsAreBound, EffectsAreApproved, UsesAreBounded, Active, Reserved
  <2>4. ASSUME NEW v \in Servers, CommitActivation(v) PROVE ApprovalInv'
    <3> DEFINE p == doing[v].packet
               n == doing[v].claim
    <3>1. /\ p \in Packets /\ Sender[p] = Device[Answers[p]] /\ Answers[p] \in Requests
      BY <2>4 DEF CommitActivation, ApprovalTypes, ChecksHold, Begins, Activations, Idle
    <3>2. /\ \/ /\ AcknowledgeClaim(p, n)
                /\ decidedBy' = [decidedBy EXCEPT ![Answers[p]] = IF @ = NoDecision THEN p ELSE @]
             \/ UNCHANGED <<cgVars, decidedBy>>
          /\ doing' = [doing EXCEPT ![v] = Idle]
          /\ UNCHANGED <<effect, runs, settledRun>>
      BY <2>4 DEF CommitActivation
    <3> HIDE DEF p, n
    <3>3. /\ state' \in [Packets -> {"none", "leased", "retry", "acked", "revoked"}]
          /\ attempts' \in [Packets -> Nat]
          /\ decidedBy' \in [Requests -> Packets \cup {NoDecision}]
          /\ \A q \in Packets : state[q] = "acked" => state'[q] = "acked"
          /\ \A r \in Requests : \/ decidedBy'[r] = decidedBy[r]
                                 \/ /\ decidedBy[r] = NoDecision /\ r = Answers[p]
                                    /\ decidedBy'[r] = p /\ state'[p] = "acked"
      BY <3>1, <3>2 DEF ApprovalTypes, AcknowledgeClaim, Settle, cgVars, deliveries
    <3>4. ApprovalTypes'
      BY <3>2, <3>3 DEF ApprovalTypes
    <3>5. DecisionsAreBound'
      BY <3>1, <3>3 DEF DecisionsAreBound
    <3>6. \A r \in Requests : Active(r) => Active(r)'
      BY <3>3 DEF Active
    <3>7. Idle.op # "activate" /\ Idle.op # "begin"
      BY DEF Idle
    <3>8. \A u \in Servers : doing[u].op = "begin" => doing[u].slot[1] \in Requests
      BY DEF ApprovalTypes, Activations, Begins, Idle, Slots
    <3>9. ChecksHold'
      BY <3>2, <3>6, <3>7, <3>8 DEF ApprovalTypes, ChecksHold
    <3>10. \A s \in Slots : s[1] \in Requests
      BY DEF Slots
    <3>11. EffectsAreApproved'
      BY <3>2, <3>6, <3>10 DEF EffectsAreApproved
    <3>12. UsesAreBounded'
      BY <3>2 DEF UsesAreBounded, Reserved
    <3>. QED  BY <3>4, <3>5, <3>9, <3>11, <3>12
  <2>5. ASSUME NEW v \in Servers, CommitBegin(v) PROVE ApprovalInv'
    <3> DEFINE s == doing[v].slot
    <3>1. s \in Slots /\ s[1] \in Requests /\ s[2] \in Effects /\ s = <<s[1], s[2]>> /\ Active(s[1])
      BY <2>5 DEF CommitBegin, ApprovalTypes, ChecksHold, Begins, Activations, Idle, Slots
    <3>2. /\ \/ /\ \/ effect[s] = "none" /\ Cardinality(Reserved(s[1])) < MaxUses[s[1]]
                   \/ effect[s] \in {"retry", "working"}
                /\ effect' = [effect EXCEPT ![s] = "working"]
                /\ runs' = [runs EXCEPT ![s] = @ + 1]
             \/ UNCHANGED <<effect, runs>>
          /\ doing' = [doing EXCEPT ![v] = Idle]
          /\ UNCHANGED <<state, attempts, decidedBy, settledRun>>
      BY <2>5 DEF CommitBegin, MayBegin, Update, cgVars, deliveries
    <3> HIDE DEF s
    <3>3. ApprovalTypes'
      BY <3>1, <3>2 DEF ApprovalTypes
    <3>4. DecisionsAreBound'
      BY <3>2 DEF DecisionsAreBound
    <3>5. Idle.op # "activate" /\ Idle.op # "begin"
      BY DEF Idle
    <3>6. ChecksHold'
      BY <3>2, <3>5 DEF ApprovalTypes, ChecksHold, Active
    <3>7. EffectsAreApproved'
      BY <3>1, <3>2 DEF ApprovalTypes, EffectsAreApproved, Active
    <3>8. UsesAreBounded'
      <4> SUFFICES ASSUME NEW r \in Requests
                   PROVE IsFiniteSet(Reserved(r))' /\ (Cardinality(Reserved(r)) <= MaxUses[r])'
        BY DEF UsesAreBounded
      <4>1. IsFiniteSet(Reserved(r)) /\ Cardinality(Reserved(r)) <= MaxUses[r]
        BY DEF UsesAreBounded
      <4>2. CASE Reserved(r)' = Reserved(r)
        BY <4>1, <4>2
      <4>3. CASE /\ Reserved(r)' = Reserved(r) \cup {s[2]}
                 /\ Cardinality(Reserved(r)) < MaxUses[r]
        <5> DEFINE S == Reserved(r)
                   x == s[2]
        <5>1. IsFiniteSet(S) /\ Cardinality(S) < MaxUses[r] /\ MaxUses[r] \in Nat
          BY <4>1, <4>3
        <5> HIDE DEF S, x
        <5>2. Cardinality(S) \in Nat
          BY <5>1, FS_CardinalityType
        <5>3. /\ IsFiniteSet(S \cup {x})
              /\ Cardinality(S \cup {x}) = IF x \in S THEN Cardinality(S) ELSE Cardinality(S) + 1
          BY <5>1, FS_AddElement
        <5>4. Cardinality(S \cup {x}) <= MaxUses[r]
          BY <5>1, <5>2, <5>3
        <5>. QED  BY <4>3, <5>3, <5>4 DEF S, x
      <4>4. \A e \in Effects : <<r, e>> \in Slots /\ (<<r, e>> = s <=> r = s[1] /\ e = s[2])
        BY <3>1 DEF Slots
      <4>5. \/ Reserved(r)' = Reserved(r)
            \/ Reserved(r)' = Reserved(r) \cup {s[2]} /\ Cardinality(Reserved(r)) < MaxUses[r]
        <5>1. CASE effect' = effect
          BY <5>1 DEF Reserved
        <5>2. CASE effect' = [effect EXCEPT ![s] = "working"] /\ effect[s] \in {"retry", "working"}
          BY <3>1, <4>4, <5>2 DEF Reserved, ApprovalTypes
        <5>3. CASE /\ effect' = [effect EXCEPT ![s] = "working"]
                   /\ Cardinality(Reserved(s[1])) < MaxUses[s[1]]
          <6>1. CASE r = s[1]
            BY <3>1, <4>4, <5>3, <6>1 DEF Reserved, ApprovalTypes
          <6>2. CASE r # s[1]
            BY <3>1, <4>4, <5>3, <6>2 DEF Reserved, ApprovalTypes
          <6>. QED  BY <6>1, <6>2
        <5>. QED  BY <3>2, <5>1, <5>2, <5>3
      <4>. QED  BY <4>2, <4>3, <4>5
    <3>. QED  BY <3>3, <3>4, <3>6, <3>7, <3>8
  <2>6. ASSUME NEW s \in Slots, NEW outcome \in Terminal \cup {"retry"}, NEW n \in 1..runs[s],
               SettleEffect(s, n, outcome)
        PROVE  ApprovalInv'
    <3>1. /\ effect[s] = "working" /\ n = runs[s]
          /\ effect' = [effect EXCEPT ![s] = outcome]
          /\ settledRun' = [settledRun EXCEPT ![s] = n]
          /\ UNCHANGED <<state, attempts, decidedBy, runs, doing>>
      BY <2>6 DEF SettleEffect, TokenIsCurrent, Update, cgVars, deliveries
    <3>2. ApprovalTypes'
      BY <3>1 DEF ApprovalTypes
    <3>3. DecisionsAreBound' /\ ChecksHold'
      BY <3>1 DEF DecisionsAreBound, ChecksHold, Active
    <3>4. EffectsAreApproved'
      BY <3>1 DEF ApprovalTypes, EffectsAreApproved, Active
    <3>5. \A r \in Requests : Reserved(r)' \subseteq Reserved(r)
      BY <3>1 DEF ApprovalTypes, Reserved, Slots
    <3>6. UsesAreBounded'
      <4> SUFFICES ASSUME NEW r \in Requests
                   PROVE IsFiniteSet(Reserved(r))' /\ (Cardinality(Reserved(r)) <= MaxUses[r])'
        BY DEF UsesAreBounded
      <4>1. IsFiniteSet(Reserved(r)) /\ Cardinality(Reserved(r)) <= MaxUses[r]
        BY DEF UsesAreBounded
      <4>2. /\ IsFiniteSet(Reserved(r)') /\ Cardinality(Reserved(r)') <= Cardinality(Reserved(r))
            /\ Cardinality(Reserved(r)') \in Nat /\ Cardinality(Reserved(r)) \in Nat
        BY <3>5, <4>1, FS_Subset, FS_CardinalityType
      <4>. QED  BY <4>1, <4>2
    <3>. QED  BY <3>2, <3>3, <3>4, <3>6
  <2>7. ASSUME NEW s \in Slots, EffectLapses(s) PROVE ApprovalInv'
    <3>1. UNCHANGED <<state, attempts, decidedBy, effect, runs, settledRun, doing>>
      BY <2>7 DEF EffectLapses, Update, ApprovalTypes, cgVars, deliveries
    <3>. QED
      BY <3>1
         DEF ApprovalTypes, DecisionsAreBound, ChecksHold, EffectsAreApproved, UsesAreBounded, Active, Reserved
  <2>8. ASSUME NEW r \in Requests, NEW to \in {"none", "current", "revoked"}, GrantMoves(Device[r], to)
        PROVE  ApprovalInv'
    BY <2>8
       DEF GrantMoves, ApprovalTypes, DecisionsAreBound, ChecksHold, EffectsAreApproved, UsesAreBounded,
           Active, Reserved, cgVars, deliveries
  <2>9. ASSUME NEW v \in Servers, ServerDies(v) PROVE ApprovalInv'
    <3>1. /\ doing' = [doing EXCEPT ![v] = Idle]
          /\ UNCHANGED <<state, attempts, decidedBy, effect, runs, settledRun>>
      BY <2>9 DEF ServerDies, cgVars, deliveries
    <3>2. Idle.op # "activate" /\ Idle.op # "begin"
      BY DEF Idle
    <3>. QED
      BY <3>1, <3>2
         DEF ApprovalTypes, DecisionsAreBound, ChecksHold, EffectsAreApproved, UsesAreBounded, Active, Reserved
  <2>10. CASE UNCHANGED companionVars
    BY <2>10
       DEF companionVars, cgVars, deliveries, approvalVars, ApprovalTypes, DecisionsAreBound, ChecksHold,
           EffectsAreApproved, UsesAreBounded, Active, Reserved
  <2>. QED
    BY <2>1, <2>2, <2>3, <2>4, <2>5, <2>6, <2>7, <2>8, <2>9, <2>10, InboxKeepsApprovals
       DEF CompanionNext, ApprovalNext
<1>3. ApprovalInv => ApprovalSound
  <2> SUFFICES ASSUME ApprovalInv, NEW s \in Slots, effect[s] # "none"
               PROVE  /\ Active(s[1])
                      /\ Sender[decidedBy[s[1]]] = Device[s[1]]
                      /\ state[decidedBy[s[1]]] = "acked"
                      /\ Cardinality(Spent(s[1])) <= MaxUses[s[1]]
    BY DEF ApprovalSound
  <2>1. s[1] \in Requests /\ Active(s[1])
    BY DEF Slots, ApprovalInv, EffectsAreApproved
  <2>2. Sender[decidedBy[s[1]]] = Device[s[1]] /\ state[decidedBy[s[1]]] = "acked"
    BY <2>1 DEF ApprovalInv, DecisionsAreBound, Active
  <2>3. Spent(s[1]) \subseteq Reserved(s[1])
    BY <2>1 DEF ApprovalInv, EffectsAreApproved, Spent, Reserved, Slots
  <2>4. IsFiniteSet(Reserved(s[1])) /\ Cardinality(Reserved(s[1])) <= MaxUses[s[1]]
    BY <2>1 DEF ApprovalInv, UsesAreBounded
  <2>5. /\ Cardinality(Spent(s[1])) <= Cardinality(Reserved(s[1]))
        /\ Cardinality(Spent(s[1])) \in Nat /\ Cardinality(Reserved(s[1])) \in Nat
    BY <2>3, <2>4, FS_Subset, FS_CardinalityType
  <2>. QED  BY <2>1, <2>2, <2>4, <2>5
<1>. QED  BY <1>1, <1>2, <1>3, PTL DEF CompanionSpec
-----------------------------------------------------------------------------
(* The sources of a control page.                                          *)

PageFrames == [url : Urls, pin : PageKeys \cup {""}, keys : SUBSET PageKeys, depth : Nat]

\* A link whose page has been verified under the link's own pin.
Vouched(l) ==
    IF l.pin = "" THEN web[l.url].signer \in trustedKeys
    ELSE web[l.url].signer = l.pin /\ l.pin \in trustedKeys \cup web[RootUrl].delegates

Pending(l) == \E f \in Range(todo) : f.url = l.url /\ f.pin = l.pin

PagesTypes ==
    /\ web \in [Urls -> Page] /\ trustedKeys \subseteq LocalKeys /\ rootPin \in trustedKeys \cup {""}
    /\ todo \in Seq(PageFrames) /\ visited \subseteq Urls

RootComesFirst ==
    RootUrl \notin visited =>
        visited = {} /\ todo = <<Frame(RootUrl, rootPin, trustedKeys, 0)>> /\ verdict # "accepted"

\* The root page is signed as the local settings ask and delegates new keys only.
RootIsLocal ==
    RootUrl \in visited =>
        LET root == web[RootUrl] IN
        /\ root.delegates \cap trustedKeys = {}
        /\ rootPin # "" => root.signer = rootPin
        /\ IF trustedKeys = {} THEN root.delegates = {} ELSE root.signer \in trustedKeys

\* Below the root the local keys are in force, and for pinned pages possibly the delegated ones.
KeysAreLayered ==
    RootUrl \in visited =>
        \A f \in Range(todo) :
            /\ f.depth # 0
            /\ trustedKeys \subseteq f.keys
            /\ f.keys \subseteq trustedKeys \cup web[RootUrl].delegates
            /\ f.pin = "" => f.keys = trustedKeys

VisitedIsVerified ==
    \A u \in visited :
        /\ web[u].signer # "" => web[u].fresh
        /\ u # RootUrl => web[u].delegates = {}
        /\ trustedKeys = {} => web[u].signer = ""
        /\ trustedKeys # {} => \A l \in Range(web[u].links) : Vouched(l) \/ Pending(l)

PagesInv ==
    /\ PagesTypes /\ RootComesFirst /\ RootIsLocal /\ KeysAreLayered /\ VisitedIsVerified
    /\ verdict = "accepted" => todo = <<>>

\* The nested calls of a page are one frame per link (_normalise_document).
LEMMA NestedFrames ==
    ASSUME PagesTypes, NEW f \in PageFrames
    PROVE  /\ Nested(f) \in Seq(PageFrames)
           /\ Range(Nested(f)) = {Nested(f)[i] : i \in DOMAIN web[f.url].links}
<1>0. \A d \in Nat : d + 1 \in Nat
  OBVIOUS
<1> USE PagesAssumption
<1>1. web[f.url] \in Page /\ web[RootUrl] \in Page
  BY DEF PagesTypes, PageFrames
<1>2. web[f.url].links \in Seq(Link) /\ web[f.url].delegates \subseteq PageKeys
  BY <1>1 DEF Page
<1> DEFINE n == Len(web[f.url].links)
<1>3. n \in Nat /\ web[f.url].links \in [1..n -> Link]
  BY <1>2, LenProperties
<1> HIDE DEF n
<1>4. DOMAIN web[f.url].links = 1..n
  BY <1>3
<1>5. ASSUME NEW i \in 1..n
      PROVE  Frame(web[f.url].links[i].url, web[f.url].links[i].pin,
                   KeysFor(f.keys \cup web[f.url].delegates, web[f.url].links[i].pin), f.depth + 1) \in PageFrames
  <2>1. web[f.url].links[i] \in Link
    BY <1>3, <1>5
  <2>2. KeysFor(f.keys \cup web[f.url].delegates, web[f.url].links[i].pin) \subseteq PageKeys
    BY <1>2 DEF KeysFor, PageFrames
  <2>3. f.depth \in Nat
    BY DEF PageFrames
  <2>4. f.depth + 1 \in Nat
    BY <1>0, <2>3
  <2>5. web[f.url].links[i].url \in Urls /\ web[f.url].links[i].pin \in PageKeys \cup {""}
    BY <2>1 DEF Link
  <2>. QED  BY <2>2, <2>4, <2>5 DEF Frame, PageFrames
<1>6. Nested(f) \in [1..n -> PageFrames]
  BY <1>4, <1>5 DEF Nested
<1>7. Nested(f) \in Seq(PageFrames)
  <2>1. Seq(PageFrames) = UNION {[1..m -> PageFrames] : m \in Nat}
    BY SeqDef
  <2>. QED  BY <1>3, <1>6, <2>1
<1>8. DOMAIN Nested(f) = DOMAIN web[f.url].links
  BY <1>4, <1>6
<1>. QED  BY <1>7, <1>8 DEF Range

\* Replacing the frame in front by its nested frames keeps the others.
LEMMA FramesAfter ==
    ASSUME NEW S, NEW s \in Seq(S), s # <<>>, NEW t \in Seq(S)
    PROVE  /\ t \o Tail(s) \in Seq(S)
           /\ Range(t \o Tail(s)) = Range(t) \cup Range(Tail(s))
           /\ Range(Tail(s)) \cup {Head(s)} = Range(s)
           /\ <<>> \o Tail(s) = Tail(s) /\ Range(<<>>) = {} /\ Range(s) \subseteq S
<1>1. /\ Tail(s) \in Seq(S) /\ Len(s) \in Nat /\ Len(s) > 0 /\ Len(Tail(s)) = Len(s) - 1
      /\ \A i \in 1..Len(Tail(s)) : Tail(s)[i] = s[i + 1]
      /\ Head(s) = s[1]
  BY HeadTailProperties, EmptySeq, LenProperties
<1>2. Range(s) = {s[i] : i \in 1..Len(s)} /\ Range(Tail(s)) = {Tail(s)[i] : i \in 1..Len(Tail(s))}
  BY <1>1, RangeEquality
<1>3. Range(Tail(s)) \cup {Head(s)} = Range(s)
  <2>1. ASSUME NEW i \in 1..Len(Tail(s)) PROVE Tail(s)[i] \in Range(s)
    BY <1>1, <1>2
  <2>2. ASSUME NEW i \in 1..Len(s) PROVE s[i] \in Range(Tail(s)) \cup {Head(s)}
    <3>1. CASE i = 1
      BY <3>1, <1>1
    <3>2. CASE i # 1
      <4>1. i - 1 \in 1..Len(Tail(s)) /\ Tail(s)[i - 1] = s[i]
        BY <3>2, <1>1
      <4>. QED  BY <4>1, <1>2
    <3>. QED  BY <3>1, <3>2
  <2>3. Head(s) \in Range(s)
    BY <1>1, <1>2
  <2>. QED  BY <2>1, <2>2, <2>3, <1>2
<1>4. t \o Tail(s) \in Seq(S) /\ Range(t \o Tail(s)) = Range(t) \cup Range(Tail(s))
  BY <1>1, ConcatProperties, RangeConcatenation
<1>5. <<>> \o Tail(s) = Tail(s) /\ Range(<<>>) = {}
  BY <1>1, ConcatEmptySeq DEF Range
<1>6. Range(s) \subseteq S
  BY <1>2, ElementOfSeq
<1>. QED  BY <1>3, <1>4, <1>5, <1>6

\* Every source of an accepted composition has a publisher the operator answers
\* for, whatever the pages, their depth and the order of their links: the pin
\* of the link decides which keys verify it (_normalise_document).
THEOREM SourcesAreVouchedFor == PagesSpec => []SourcesVouchedFor
<1>a. ASSUME NEW x PROVE Head(<<x>>) = x /\ Tail(<<x>>) = <<>>
  OBVIOUS
<1>b. ASSUME NEW S, NEW x \in S PROVE <<x>> \in Seq(S)
  OBVIOUS
<1>c. Range(<<>>) = {} /\ \A S : <<>> \in Seq(S)
  BY EmptySeq DEF Range
<1>d. \A d \in Nat : d + 1 # 0
  OBVIOUS
<1>1. PagesInit => PagesInv
  <2> SUFFICES ASSUME PagesInit PROVE PagesInv
    OBVIOUS
  <2>1. trustedKeys \subseteq PageKeys /\ rootPin \in PageKeys \cup {""}
    BY DEF PagesInit, PageKeys
  <2>2. Frame(RootUrl, rootPin, trustedKeys, 0) \in PageFrames
    BY <2>1, PagesAssumption DEF PageFrames, Frame
  <2>3. todo \in Seq(PageFrames)
    BY <1>b, <2>2 DEF PagesInit
  <2>. QED
    BY <2>3, PagesAssumption DEF PagesInit, PagesInv, PagesTypes, RootComesFirst, RootIsLocal, KeysAreLayered, VisitedIsVerified
<1>2. PagesInv /\ [PagesNext]_pageVars => PagesInv'
  <2> SUFFICES ASSUME PagesInv, [PagesNext]_pageVars PROVE PagesInv'
    OBVIOUS
  <2> USE DEF PagesInv
  <2>1. ASSUME VisitPage, PageAccepted(Head(todo)) PROVE PagesInv'
    <3> DEFINE f == Head(todo)
               new == IF f.url \in visited THEN <<>> ELSE Nested(f)
               T == trustedKeys
               D == web[RootUrl].delegates
    <3>1. /\ visited' = visited \cup {f.url} /\ todo' = new \o Tail(todo) /\ todo # <<>>
          /\ verdict = "open" /\ verdict' = "open" /\ UNCHANGED <<web, trustedKeys, rootPin>>
      <4>1. todo # <<>> /\ <<>> \o Tail(todo) = Tail(todo)
        BY <2>1, FramesAfter, EmptySeq DEF VisitPage, PagesTypes
      <4>. QED  BY <2>1, <4>1 DEF VisitPage
    <3>2. /\ f \in PageFrames /\ new \in Seq(PageFrames)
          /\ Range(new) = IF f.url \in visited THEN {} ELSE {Nested(f)[i] : i \in DOMAIN web[f.url].links}
      <4>1. f \in PageFrames
        BY <3>1, HeadTailProperties DEF PagesTypes
      <4> HIDE DEF f
      <4>. QED  BY <4>1, <1>c, NestedFrames
    <3>3. /\ todo' \in Seq(PageFrames)
          /\ Range(todo') = Range(new) \cup Range(Tail(todo))
          /\ Range(todo) = Range(Tail(todo)) \cup {f}
      <4> HIDE DEF new
      <4>1. todo \in Seq(PageFrames) /\ new \in Seq(PageFrames) /\ todo # <<>>
        BY <3>1, <3>2 DEF PagesTypes
      <4>2. /\ new \o Tail(todo) \in Seq(PageFrames)
            /\ Range(new \o Tail(todo)) = Range(new) \cup Range(Tail(todo))
            /\ Range(Tail(todo)) \cup {Head(todo)} = Range(todo)
        BY <4>1, FramesAfter
      <4>. QED  BY <3>1, <4>2
    <3>4. /\ T \subseteq f.keys /\ f.keys \subseteq T \cup D /\ (f.pin = "" => f.keys = T)
          /\ (T = {} => f.keys = {})
          /\ RootUrl \in visited => f.depth # 0
          /\ RootUrl \notin visited => /\ f = Frame(RootUrl, rootPin, T, 0) /\ Range(Tail(todo)) = {}
                                       /\ visited = {}
      <4>1. CASE RootUrl \in visited
        BY <4>1, <3>3 DEF KeysAreLayered, RootIsLocal
      <4>2. CASE RootUrl \notin visited
        <5>1. f = Frame(RootUrl, rootPin, T, 0) /\ Tail(todo) = <<>> /\ visited = {}
          BY <4>2, <1>a DEF RootComesFirst
        <5>2. f.keys = T /\ f.pin = rootPin
          BY <5>1 DEF Frame
        <5>. QED  BY <4>2, <5>1, <5>2, <1>c
      <4>. QED  BY <4>1, <4>2
    <3> HIDE DEF f, new
    <3>5. /\ web[f.url].signer # "" => web[f.url].fresh
          /\ T = {} => web[f.url].signer = ""
          /\ T # {} => web[f.url].signer \in f.keys
          /\ f.pin # "" => f.pin \in f.keys /\ web[f.url].signer = f.pin
          /\ web[f.url].delegates # {} => f.depth = 0 /\ web[f.url].signer # "" /\ web[f.url].delegates \cap f.keys = {}
      BY <2>1, <3>4 DEF PageAccepted, SignatureHolds, PinHolds, DelegationHolds, f
    <3>6. f.url \in Urls /\ f.depth \in Nat /\ web[f.url] \in Page /\ web[RootUrl] \in Page
      BY <3>2, PagesAssumption DEF PageFrames, PagesTypes
    <3>7. RootUrl \in visited' /\ D \cap T = {} /\ (f.url # RootUrl => web[f.url].delegates = {})
      <4>1. CASE RootUrl \in visited
        BY <4>1, <3>1, <3>4, <3>5 DEF RootIsLocal
      <4>2. CASE RootUrl \notin visited
        <5>1. f = Frame(RootUrl, rootPin, T, 0)
          BY <4>2, <3>4
        <5>2. f.url = RootUrl /\ f.keys = T
          BY <5>1 DEF Frame
        <5>. QED  BY <5>2, <3>1, <3>5
      <4>. QED  BY <4>1, <4>2
    <3>8. PagesTypes'
      BY <3>1, <3>3, <3>6 DEF PagesTypes
    <3>9. RootComesFirst' /\ (verdict = "accepted" => todo = <<>>)'
      BY <3>1, <3>7 DEF RootComesFirst
    <3>10. RootIsLocal'
      <4>1. CASE RootUrl \in visited
        BY <4>1, <3>1 DEF RootIsLocal
      <4>2. CASE RootUrl \notin visited
        <5>1. f = Frame(RootUrl, rootPin, T, 0)
          BY <4>2, <3>4
        <5>2. f.url = RootUrl /\ f.keys = T /\ f.pin = rootPin
          BY <5>1 DEF Frame
        <5>. QED  BY <5>2, <3>1, <3>5, <3>7 DEF RootIsLocal
      <4>. QED  BY <4>1, <4>2
    <3>11. ASSUME NEW i \in DOMAIN web[f.url].links
           PROVE  LET g == Nested(f)[i]
                      l == web[f.url].links[i]
                  IN /\ g.url = l.url /\ g.pin = l.pin /\ g.depth # 0
                     /\ T \subseteq g.keys /\ g.keys \subseteq T \cup D /\ (l.pin = "" => g.keys = T)
      <4> DEFINE K == f.keys \cup web[f.url].delegates
                 l == web[f.url].links[i]
      <4>1. Nested(f)[i] = Frame(l.url, l.pin, KeysFor(K, l.pin), f.depth + 1)
        BY DEF Nested
      <4>2. T \subseteq K /\ K \subseteq T \cup D
        BY <3>4, <3>7
      <4> HIDE DEF K, l
      <4>3. T \subseteq KeysFor(K, l.pin) /\ KeysFor(K, l.pin) \subseteq T \cup D /\ (l.pin = "" => KeysFor(K, l.pin) = T)
        BY <4>2, <3>7 DEF KeysFor
      <4>4. f.depth + 1 # 0
        BY <3>6, <1>d
      <4>5. LET g == Nested(f)[i] IN /\ g.url = l.url /\ g.pin = l.pin /\ g.depth = f.depth + 1
                                    /\ g.keys = KeysFor(K, l.pin)
        BY <4>1 DEF Frame
      <4>. QED  BY <4>3, <4>4, <4>5 DEF l
    <3>12. KeysAreLayered'
      <4> SUFFICES ASSUME NEW g \in Range(todo')
                   PROVE  /\ g.depth # 0 /\ T \subseteq g.keys /\ g.keys \subseteq T \cup D
                          /\ g.pin = "" => g.keys = T
        BY <3>1 DEF KeysAreLayered
      <4>1. CASE g \in Range(new)
        <5>1. PICK i \in DOMAIN web[f.url].links : g = Nested(f)[i]
          BY <4>1, <3>2
        <5>. QED  BY <5>1, <3>11
      <4>2. CASE g \in Range(Tail(todo))
        BY <4>2, <3>3, <3>4 DEF KeysAreLayered
      <4>. QED  BY <4>1, <4>2, <3>3
    <3>13. VisitedIsVerified'
      <4> SUFFICES ASSUME NEW u \in visited'
                   PROVE  /\ web[u].signer # "" => web[u].fresh
                          /\ u # RootUrl => web[u].delegates = {}
                          /\ T = {} => web[u].signer = ""
                          /\ T # {} => \A l \in Range(web[u].links) : Vouched(l) \/ Pending(l)'
        <5>1. \A l : Vouched(l)' <=> Vouched(l)
          BY <3>1 DEF Vouched
        <5>. QED  BY <3>1, <5>1 DEF VisitedIsVerified
      <4>1. CASE u \in visited
        <5>1. ASSUME NEW l, Pending(l), T # {} PROVE Vouched(l) \/ (\E g \in Range(todo') : g.url = l.url /\ g.pin = l.pin)
          <6>1. CASE l.url = f.url /\ l.pin = f.pin
            BY <6>1, <5>1, <3>4, <3>5 DEF Vouched
          <6>2. CASE ~(l.url = f.url /\ l.pin = f.pin)
            BY <6>2, <5>1, <3>3 DEF Pending
          <6>. QED  BY <6>1, <6>2
        <5>. QED  BY <4>1, <5>1, <3>1 DEF VisitedIsVerified, Pending
      <4>2. CASE u = f.url /\ u \notin visited
        <5>1. ASSUME NEW l \in Range(web[u].links) PROVE Pending(l)'
          <6>1. PICK i \in DOMAIN web[f.url].links : l = web[f.url].links[i]
            BY <4>2 DEF Range
          <6>2. Nested(f)[i] \in Range(todo')
            BY <4>2, <3>2, <3>3
          <6>. QED  BY <6>1, <6>2, <3>11 DEF Pending
        <5>. QED  BY <4>2, <5>1, <3>5, <3>7
      <4>. QED  BY <4>1, <4>2, <3>1
    <3>. QED  BY <3>8, <3>9, <3>10, <3>12, <3>13
  <2>2. ASSUME UNCHANGED <<web, trustedKeys, rootPin, todo, visited>>,
               verdict' \in {verdict, "refused"} \/ (verdict' = "accepted" /\ todo = <<>>)
        PROVE  PagesInv'
    <3>1. PagesTypes' /\ RootIsLocal'
      BY <2>2 DEF PagesTypes, RootIsLocal
    <3>2. todo = <<>> => RootUrl \in visited
      BY DEF RootComesFirst
    <3>3. RootComesFirst' /\ (verdict = "accepted" => todo = <<>>)'
      BY <2>2, <3>2 DEF RootComesFirst
    <3>4. KeysAreLayered'
      BY <2>2 DEF KeysAreLayered
    <3>5. VisitedIsVerified'
      <4>1. \A l : (Vouched(l)' <=> Vouched(l)) /\ (Pending(l)' <=> Pending(l))
        BY <2>2 DEF Vouched, Pending
      <4>. QED  BY <2>2, <4>1 DEF VisitedIsVerified
    <3>. QED  BY <3>1, <3>3, <3>4, <3>5
  <2>3. ASSUME VisitPage, ~PageAccepted(Head(todo)) PROVE PagesInv'
    BY <2>2, <2>3 DEF VisitPage
  <2>4. CASE AcceptDocument
    BY <2>2, <2>4 DEF AcceptDocument
  <2>5. CASE UNCHANGED pageVars
    BY <2>2, <2>5 DEF pageVars
  <2>. QED  BY <2>1, <2>3, <2>4, <2>5 DEF PagesNext
<1>3. PagesInv => SourcesVouchedFor
  <2> SUFFICES ASSUME PagesInv, verdict = "accepted" PROVE SourcesVouchedFor
    BY DEF SourcesVouchedFor
  <2>1. RootUrl \in visited /\ Range(todo) = {}
    BY <1>c DEF PagesInv, RootComesFirst
  <2>2. \A u \in visited : trustedKeys # {} => \A i \in DOMAIN web[u].links : Vouched(web[u].links[i])
    BY <2>1 DEF PagesInv, VisitedIsVerified, Pending, Range
  <2>. QED  BY <2>1, <2>2 DEF PagesInv, RootIsLocal, VisitedIsVerified, SourcesVouchedFor, Vouched
<1>. QED  BY <1>1, <1>2, <1>3, PTL DEF PagesSpec
-----------------------------------------------------------------------------
(* The Discord bridge.                                                     *)

Snapshots == [message : Messages, revision : Revisions, reactions : Nat]
ActorStats == [mentions : Nat, replies : Nat, reactions : Nat, pinned : Nat, seen : BOOLEAN]
EventRows == [digest : Int, allowed : SUBSET {"surface", "reply"}, routed : Nat, reply : Nat]
ReplyRows == [text : Texts \cup {"none"}, state : {"none", "pending", "sent"}, id : Nat]
NoKey == <<0, "create">>
Commands == [step : {"idle", "reserve", "send", "settle"}, key : Keys \cup {NoKey},
             text : Texts \cup {"none"}, had : Nat, id : Nat]

\* The types of the bridge's state.  The pause of the poll is left open.
DiscordTypes ==
    /\ newest \in 0 .. MaxMessage /\ cursor \in 0 .. MaxMessage
    /\ reactions \in [Messages -> Nat] /\ revision \in [Messages -> Revisions]
    /\ accounts \in [Accounts -> ActorStats]
    /\ entries \in [Keys -> EventRows] /\ queued \in [Keys -> Nat]
    /\ poll = [step |-> poll.step, page |-> poll.page, key |-> poll.key, wait |-> poll.wait]
    /\ poll.step \in {"idle", "ingest", "queue", "mark", "pass"}
    /\ poll.page \in Seq(Snapshots)
    /\ outbound \in [Keys -> ReplyRows] /\ posted \in [Keys -> Seq(Texts)]
    /\ recent \subseteq Keys
    /\ replier \in [Repliers -> Commands]

\* A stored event is told from none by its digest, which no step changes.
StoredIsKept == \A k \in Keys : entries[k].digest < 0 => entries[k] = NoEvent

\* The row of a reply comes before its first post, and names one of them.
RowsAreReserved ==
    \A k \in Keys :
      /\ outbound[k].state = "none" => outbound[k] = NoReply /\ posted[k] = << >>
      /\ outbound[k].state # "none" => entries[k].digest >= 0
      /\ outbound[k].state = "sent" <=> outbound[k].id > 0
      /\ outbound[k].id = entries[k].reply /\ outbound[k].id <= Len(posted[k])
      /\ \A i \in 1 .. Len(posted[k]) : posted[k][i] = outbound[k].text
      /\ k \in recent => Len(posted[k]) > 0

\* A command past its reservation holds the text of the row.
CommandsAreReserved ==
    \A r \in Repliers :
      LET me == replier[r]
      IN  /\ me.step # "idle" => me.key \in Keys /\ me.text \in Texts /\ entries[me.key].digest >= 0
          /\ me.step \in {"send", "settle"} =>
               outbound[me.key].state # "none" /\ outbound[me.key].text = me.text
          /\ me.step = "settle" => me.id > 0 /\ me.id <= Len(posted[me.key])

\* The message is the bridge's own, or its event is stored and its signal
\* is in the outbox.
Earned(m) ==
    Author[m] # Bot =>
      \E k \in Keys : /\ k[1] = m /\ entries[k] # NoEvent
                      /\ Surfaces(entries[k]) => entries[k].routed > 0 /\ queued[k] > 0

\* What the poll has done for the head of its page, step by step.
PollIsEarned ==
    /\ poll.step # "idle" => poll.page # << >>
    /\ poll.step \in {"queue", "mark"} =>
         /\ poll.key \in Keys /\ poll.key[1] = poll.page[1].message
         /\ entries[poll.key].digest >= 0
    /\ poll.step = "mark" => queued[poll.key] > 0
    /\ poll.step = "pass" => Earned(poll.page[1].message)

RoutedIsQueued == \A k \in Keys : entries[k].routed > 0 => queued[k] > 0

CursorEarned == cursor > 0 => Earned(cursor)

Mentions(a) ==
    {k \in Keys : /\ entries[k] # NoEvent /\ Author[k[1]] = a
                  /\ "interaction:mention" \in EventLabels[k[1]]}

MentionsCounted == \A a \in Accounts : accounts[a].mentions = Cardinality(Mentions(a))

DiscordInv ==
    /\ DiscordTypes /\ StoredIsKept /\ RowsAreReserved /\ CommandsAreReserved
    /\ PollIsEarned /\ RoutedIsQueued /\ CursorEarned

\* A bounded counter stays a natural number.
LEMMA AtMostIsNat ==
  ASSUME NEW n \in Nat, NEW bound \in Nat
  PROVE  AtMost(n, bound) \in Nat /\ (n <= bound => AtMost(n, bound) = n)
BY DEF AtMost

\* The policy only allows actions it knows.
LEMMA VerdictIsTyped ==
  ASSUME NEW stats, NEW age, NEW manual, NEW derived
  PROVE  Allowed(stats, age, manual, derived) \in SUBSET {"surface", "reply"}
BY DEF Allowed

\* A poll that starts reads at least one message.
LEMMA PageIsRead ==
  ASSUME DiscordTypes, newest > cursor
  PROVE  channel_messages \in Seq(Snapshots) /\ channel_messages # << >>
<1> DEFINE first == IF cursor > 0 THEN cursor + 1
                    ELSE IF newest > PageLimit THEN newest - PageLimit + 1 ELSE 1
           last == AtMost(newest, first + PageLimit - 1)
<1>1. MaxMessage \in Nat /\ PageLimit \in Nat \ {0} /\ newest \in Nat /\ newest <= MaxMessage
      /\ cursor \in Nat
  BY DiscordAssumption DEF DiscordTypes
<1>2. first \in Nat /\ 1 <= first /\ first <= newest
  BY <1>1
<1>3. last \in Nat /\ first <= last /\ last <= newest
  BY <1>1, <1>2 DEF AtMost
<1>4. channel_messages = [i \in 1 .. last + 1 - first |-> Snapshot(first + i - 1)]
  BY DEF channel_messages
<1> HIDE DEF first, last
<1>5. \A i \in 1 .. last + 1 - first : Snapshot(first + i - 1) \in Snapshots
  <2> SUFFICES ASSUME NEW i \in 1 .. last + 1 - first
               PROVE  Snapshot(first + i - 1) \in Snapshots
    OBVIOUS
  <2>1. first + i - 1 \in Messages
    BY <1>1, <1>2, <1>3 DEF Messages
  <2> QED
    BY <2>1 DEF Snapshot, Snapshots, DiscordTypes
<1>6. last + 1 - first \in Nat /\ last + 1 - first >= 1
  BY <1>2, <1>3
<1> DEFINE n == last + 1 - first
           page == [i \in 1 .. n |-> Snapshot(first + i - 1)]
<1>7. page \in Seq(Snapshots) /\ Len(page) = n
  <2>1. n \in Nat
    BY <1>6
  <2>2. \A i \in 1 .. n : Snapshot(first + i - 1) \in Snapshots
    BY <1>5
  <2> HIDE DEF n
  <2> QED
    BY <2>1, <2>2
<1> QED
  BY <1>4, <1>6, <1>7

\* The steps of the channel and of the operator's labels touch nothing the
\* poll or a reply rests on.
LEMMA ChannelMoves ==
  ASSUME DiscordInv,
         \/ Post
         \/ \E m \in Messages : React(m) \/ Edit(m)
         \/ \E a \in Accounts, l \in ManualLabels : update_labels(a, l)
  PROVE  DiscordInv'
<1>1. /\ UNCHANGED <<accounts, entries, cursor, queued, poll, outbound, posted, recent, replier>>
      /\ newest' \in 0 .. MaxMessage
      /\ reactions' \in [Messages -> Nat] /\ revision' \in [Messages -> Revisions]
  <2>1. CASE Post
    BY <2>1, DiscordAssumption DEF Post, DiscordInv, DiscordTypes, ledgerVars, replyVars
  <2>2. ASSUME NEW m \in Messages, React(m)
        PROVE  <1>1
    BY <2>2 DEF React, DiscordInv, DiscordTypes, ledgerVars, replyVars
  <2>3. ASSUME NEW m \in Messages, Edit(m)
        PROVE  <1>1
    BY <2>3 DEF Edit, DiscordInv, DiscordTypes, ledgerVars, replyVars, Revisions
  <2>4. ASSUME NEW a \in Accounts, NEW l \in ManualLabels, update_labels(a, l)
        PROVE  <1>1
    BY <2>4 DEF update_labels, DiscordInv, DiscordTypes, ledgerVars, replyVars, channelVars
  <2> QED
    BY <2>1, <2>2, <2>3, <2>4
<1>2. DiscordTypes'
  BY <1>1 DEF DiscordInv, DiscordTypes
<1>3. StoredIsKept' /\ RowsAreReserved' /\ CommandsAreReserved'
  BY <1>1 DEF DiscordInv, StoredIsKept, RowsAreReserved, CommandsAreReserved
<1>4. PollIsEarned' /\ RoutedIsQueued' /\ CursorEarned'
  BY <1>1 DEF DiscordInv, PollIsEarned, RoutedIsQueued, CursorEarned, Earned, Surfaces
<1> QED
  BY <1>2, <1>3, <1>4 DEF DiscordInv

\* A poll that starts, waits, fails or dies has done nothing for its page.
LEMMA PollRests ==
  ASSUME DiscordInv, PollStart \/ Pause \/ PollFails \/ NodeRestart
  PROVE  DiscordInv'
<1>1. /\ UNCHANGED <<newest, reactions, revision, accounts, entries, cursor, queued, outbound,
                     posted, recent, replier>>
      /\ poll' = [step |-> poll'.step, page |-> poll'.page, key |-> poll'.key, wait |-> poll'.wait]
      /\ poll'.step \in {"idle", "ingest"} /\ poll'.page \in Seq(Snapshots)
      /\ poll'.step = "ingest" => poll'.page # << >>
  <2> USE DEF channelVars, ledgerVars, replyVars
  <2>1. CASE PollStart
    BY <2>1, PageIsRead DEF PollStart, DiscordInv, DiscordTypes
  <2>2. CASE Pause
    BY <2>2 DEF Pause, DiscordInv, DiscordTypes
  <2>3. CASE PollFails
    BY <2>3 DEF PollFails, PollFailure, AtRest
  <2>4. CASE NodeRestart
    BY <2>4 DEF NodeRestart, AtRest
  <2> QED
    BY <2>1, <2>2, <2>3, <2>4
<1>2. DiscordTypes'
  BY <1>1 DEF DiscordInv, DiscordTypes
<1>3. StoredIsKept' /\ RowsAreReserved' /\ CommandsAreReserved'
  BY <1>1 DEF DiscordInv, StoredIsKept, RowsAreReserved, CommandsAreReserved
<1>4. PollIsEarned' /\ RoutedIsQueued' /\ CursorEarned'
  BY <1>1 DEF DiscordInv, PollIsEarned, RoutedIsQueued, CursorEarned, Earned, Surfaces
<1> QED
  BY <1>2, <1>3, <1>4 DEF DiscordInv

\* An event is stored once and with all its fields; the poll goes on to the
\* outbox only with a stored event.
LEMMA IngestMoves ==
  ASSUME DiscordInv, ingest_message
  PROVE  DiscordInv'
<1> DEFINE snapshot == Head(poll.page)
           k == KeyOf(snapshot)
           a == Author[snapshot.message]
           stats == Counted(accounts[a], snapshot)
           row == StoredEvent(snapshot, stats)
<1> USE DEF channelVars, ledgerVars, replyVars
<1>1. /\ snapshot \in Snapshots /\ snapshot = poll.page[1] /\ k \in Keys /\ k[1] = snapshot.message
      /\ poll.step = "ingest" /\ poll.page # << >> /\ poll.page \in Seq(Snapshots)
  <2>1. poll.step = "ingest" /\ poll.page # << >> /\ poll.page \in Seq(Snapshots)
    BY DEF ingest_message, DiscordInv, DiscordTypes, PollIsEarned
  <2>2. snapshot \in Snapshots /\ snapshot = poll.page[1]
    BY <2>1
  <2> QED
    BY <2>1, <2>2 DEF KeyOf, Keys, Snapshots
<1>2. UNCHANGED <<newest, reactions, revision, cursor, queued, outbound, posted, recent, replier>>
  BY DEF ingest_message
<1>3. poll = [step |-> poll.step, page |-> poll.page, key |-> poll.key, wait |-> poll.wait]
  BY DEF DiscordInv, DiscordTypes
<1>4. CASE /\ a = Bot /\ poll' = [poll EXCEPT !.step = "pass"]
           /\ UNCHANGED <<accounts, entries>>
  <2>1. /\ poll' = [step |-> "pass", page |-> poll.page, key |-> poll.key, wait |-> poll.wait]
    BY <1>3, <1>4
  <2>2. DiscordTypes'
    BY <1>1, <1>2, <1>4, <2>1 DEF DiscordInv, DiscordTypes
  <2>3. StoredIsKept' /\ RowsAreReserved' /\ CommandsAreReserved'
    BY <1>2, <1>4 DEF DiscordInv, StoredIsKept, RowsAreReserved, CommandsAreReserved
  <2>4. PollIsEarned' /\ RoutedIsQueued' /\ CursorEarned'
    BY <1>1, <1>2, <1>4, <2>1 DEF DiscordInv, PollIsEarned, RoutedIsQueued, CursorEarned, Earned
  <2> QED
    BY <2>2, <2>3, <2>4 DEF DiscordInv
<1>5. CASE PollFailure /\ UNCHANGED <<accounts, entries>>
  <2>1. /\ poll' = [step |-> poll'.step, page |-> poll'.page, key |-> poll'.key, wait |-> poll'.wait]
        /\ poll'.step = "idle" /\ poll'.page = << >>
    BY <1>5 DEF PollFailure, AtRest
  <2>2. DiscordTypes'
    BY <1>2, <1>5, <2>1 DEF DiscordInv, DiscordTypes
  <2>3. StoredIsKept' /\ RowsAreReserved' /\ CommandsAreReserved'
    BY <1>2, <1>5 DEF DiscordInv, StoredIsKept, RowsAreReserved, CommandsAreReserved
  <2>4. PollIsEarned' /\ RoutedIsQueued' /\ CursorEarned'
    BY <1>2, <1>5, <2>1 DEF DiscordInv, PollIsEarned, RoutedIsQueued, CursorEarned, Earned
  <2> QED
    BY <2>2, <2>3, <2>4 DEF DiscordInv
<1>6. CASE /\ entries[k] # NoEvent
           /\ poll' = [poll EXCEPT !.key = k, !.step = IF ToRoute(entries[k]) THEN "queue" ELSE "pass"]
           /\ UNCHANGED <<accounts, entries>>
  <2>1. poll' = [step |-> IF ToRoute(entries[k]) THEN "queue" ELSE "pass", page |-> poll.page,
                 key |-> k, wait |-> poll.wait]
    <3> HIDE DEF k
    <3> QED  BY <1>3, <1>6
  <2>2. DiscordTypes'
    BY <1>1, <1>2, <1>6, <2>1 DEF DiscordInv, DiscordTypes
  <2>3. StoredIsKept' /\ RowsAreReserved' /\ CommandsAreReserved'
    BY <1>2, <1>6 DEF DiscordInv, StoredIsKept, RowsAreReserved, CommandsAreReserved
  <2>4. RoutedIsQueued' /\ CursorEarned'
    BY <1>2, <1>6 DEF DiscordInv, RoutedIsQueued, CursorEarned, Earned
  <2>5. entries[k] \in EventRows /\ entries[k].digest >= 0
    <3> HIDE DEF k
    <3> QED  BY <1>1, <1>6 DEF DiscordInv, DiscordTypes, StoredIsKept, EventRows
  <2>6. ~ToRoute(entries[k]) => Earned(poll.page[1].message)'
    <3> HIDE DEF k
    <3> QED
      BY <1>1, <1>2, <1>6, <2>1, <2>5 DEF DiscordInv, RoutedIsQueued, Earned, ToRoute, EventRows
  <2>7. PollIsEarned'
    <3> HIDE DEF k
    <3> QED  BY <1>1, <1>6, <2>1, <2>5, <2>6 DEF PollIsEarned
  <2> QED
    BY <2>2, <2>3, <2>4, <2>7 DEF DiscordInv
<1>7. CASE /\ a # Bot /\ entries[k] = NoEvent
           /\ accounts' = [accounts EXCEPT ![a] = stats]
           /\ entries' = [entries EXCEPT ![k] = row]
           /\ poll' = [poll EXCEPT !.key = k, !.step = IF ToRoute(row) THEN "queue" ELSE "pass"]
  <2>1. poll' = [step |-> IF ToRoute(row) THEN "queue" ELSE "pass", page |-> poll.page,
                 key |-> k, wait |-> poll.wait]
    <3> HIDE DEF k, row
    <3> QED  BY <1>3, <1>7
  <2>2. a \in Accounts /\ stats \in ActorStats
    <3>1. a \in Accounts
      BY <1>1, <1>7, DiscordAssumption DEF Snapshots
    <3>2. accounts[a] \in ActorStats
      BY <3>1 DEF DiscordInv, DiscordTypes
    <3> HIDE DEF a, snapshot
    <3>3. snapshot.reactions \in Nat
      BY <1>1 DEF Snapshots
    <3> QED
      BY <3>1, <3>2, <3>3 DEF Counted, ActorStats, AtMost
  <2>3. row \in EventRows /\ row.digest >= 0 /\ row.routed = 0 /\ row.reply = 0
    <3> DEFINE allowed == Allowed(stats, AccountAge[a], labels[a], EventLabels[snapshot.message])
    <3>1. allowed \in SUBSET {"surface", "reply"}
      BY VerdictIsTyped
    <3>2. row = [digest |-> snapshot.reactions, routed |-> 0, reply |-> 0, allowed |-> allowed]
      BY DEF StoredEvent
    <3> HIDE DEF allowed, snapshot, row
    <3> QED
      BY <1>1, <3>1, <3>2 DEF EventRows, Snapshots
  <2> HIDE DEF k, row, stats, a
  <2>4. DiscordTypes'
    BY <1>1, <1>2, <1>7, <2>1, <2>2, <2>3 DEF DiscordInv, DiscordTypes
  <2>5. /\ \A j \in Keys : j # k => entries'[j] = entries[j]
        /\ entries'[k] = row /\ entries[k].reply = 0 /\ entries[k].routed = 0 /\ entries[k].digest < 0
    BY <1>1, <1>7 DEF DiscordInv, DiscordTypes, NoEvent
  <2>6. StoredIsKept'
    BY <2>3, <2>5 DEF DiscordInv, StoredIsKept, EventRows
  <2>7. RowsAreReserved'
    BY <1>1, <1>2, <2>3, <2>5 DEF DiscordInv, RowsAreReserved
  <2>8. CommandsAreReserved'
    BY <1>1, <1>2, <2>3, <2>5 DEF DiscordInv, CommandsAreReserved
  <2>9. RoutedIsQueued'
    BY <1>1, <1>2, <2>3, <2>5 DEF DiscordInv, RoutedIsQueued
  <2>10. ASSUME NEW m, Earned(m)
         PROVE  Earned(m)'
    BY <1>1, <1>2, <1>7, <2>5, <2>10 DEF Earned
  <2>11. ~ToRoute(row) => Earned(poll.page[1].message)'
    <3> SUFFICES ASSUME ~ToRoute(row) PROVE Earned(poll.page[1].message)'
      OBVIOUS
    <3>1. row # NoEvent /\ ~Surfaces(row)
      BY <2>3 DEF ToRoute, NoEvent
    <3> QED
      BY <1>1, <2>1, <2>5, <3>1 DEF Earned
  <2>12. PollIsEarned'
    BY <1>1, <2>1, <2>3, <2>5, <2>11 DEF PollIsEarned
  <2>13. CursorEarned'
    BY <1>2, <2>10 DEF DiscordInv, CursorEarned
  <2> QED
    BY <2>4, <2>6, <2>7, <2>8, <2>9, <2>12, <2>13 DEF DiscordInv
<1> QED
  BY <1>4, <1>5, <1>6, <1>7 DEF ingest_message

\* The signal is in the outbox before the event is called routed, and both
\* before the cursor passes.
LEMMA RouteMoves ==
  ASSUME DiscordInv, queue_discord_signal \/ mark_routed
  PROVE  DiscordInv'
<1> USE DEF channelVars, ledgerVars, replyVars
<1>1. /\ poll = [step |-> poll.step, page |-> poll.page, key |-> poll.key, wait |-> poll.wait]
      /\ poll.key \in Keys /\ poll.key[1] = poll.page[1].message /\ poll.page # << >>
      /\ entries[poll.key] \in EventRows /\ entries[poll.key].digest >= 0
      /\ queued \in [Keys -> Nat] /\ entries \in [Keys -> EventRows]
  BY DEF queue_discord_signal, mark_routed, DiscordInv, DiscordTypes, PollIsEarned
<1>2. CASE queue_discord_signal
  <2>1. /\ UNCHANGED <<newest, reactions, revision, accounts, entries, cursor, outbound, posted,
                       recent, replier>>
        /\ poll' = [step |-> "mark", page |-> poll.page, key |-> poll.key, wait |-> poll.wait]
    BY <1>1, <1>2 DEF queue_discord_signal
  <2>2. AtMost(queued[poll.key] + 1, MaxSlips + 1) \in Nat \ {0}
    BY <1>1, DiscordAssumption DEF AtMost
  <2>3. /\ queued' \in [Keys -> Nat] /\ queued'[poll.key] > 0
        /\ \A j \in Keys : queued[j] > 0 => queued'[j] > 0
    BY <1>1, <1>2, <2>2 DEF queue_discord_signal
  <2>4. DiscordTypes'
    BY <2>1, <2>3 DEF DiscordInv, DiscordTypes
  <2>5. StoredIsKept' /\ RowsAreReserved' /\ CommandsAreReserved'
    BY <2>1 DEF DiscordInv, StoredIsKept, RowsAreReserved, CommandsAreReserved
  <2>6. RoutedIsQueued' /\ CursorEarned'
    BY <2>1, <2>3 DEF DiscordInv, RoutedIsQueued, CursorEarned, Earned
  <2>7. PollIsEarned'
    BY <1>1, <2>1, <2>3 DEF DiscordInv, PollIsEarned
  <2> QED
    BY <2>4, <2>5, <2>6, <2>7 DEF DiscordInv
<1>3. CASE mark_routed
  <2>1. /\ UNCHANGED <<newest, reactions, revision, accounts, queued, cursor, outbound, posted,
                       recent, replier>>
        /\ poll' = [step |-> "pass", page |-> poll.page, key |-> poll.key, wait |-> poll.wait]
        /\ queued[poll.key] > 0
    BY <1>1, <1>3 DEF mark_routed, DiscordInv, PollIsEarned
  <2>2. /\ entries' \in [Keys -> EventRows]
        /\ \A j \in Keys : j # poll.key => entries'[j] = entries[j]
        /\ entries'[poll.key].routed = queued[poll.key]
        /\ entries'[poll.key].digest = entries[poll.key].digest
        /\ entries'[poll.key].reply = entries[poll.key].reply
    BY <1>1, <1>3 DEF mark_routed, EventRows
  <2>3. DiscordTypes'
    BY <2>1, <2>2 DEF DiscordInv, DiscordTypes
  <2>4. StoredIsKept'
    <3>1. ASSUME NEW j \in Keys, entries'[j].digest < 0
          PROVE  j # poll.key
      BY <1>1, <2>2, <3>1 DEF EventRows
    <3> QED
      BY <2>2, <3>1 DEF DiscordInv, StoredIsKept
  <2>5. RowsAreReserved'
    BY <1>1, <2>1, <2>2 DEF DiscordInv, RowsAreReserved
  <2>6. CommandsAreReserved'
    BY <1>1, <2>1, <2>2 DEF DiscordInv, CommandsAreReserved
  <2>7. RoutedIsQueued'
    BY <1>1, <2>1, <2>2 DEF DiscordInv, RoutedIsQueued
  <2>8. entries'[poll.key] # NoEvent
    BY <1>1, <2>2 DEF NoEvent
  <2>9. Earned(poll.page[1].message)'
    BY <1>1, <2>1, <2>2, <2>8 DEF Earned
  <2>10. PollIsEarned'
    BY <1>1, <2>1, <2>9 DEF PollIsEarned
  <2>11. CursorEarned'
    BY <1>1, <2>1, <2>2, <2>8 DEF DiscordInv, CursorEarned, Earned
  <2> QED
    BY <2>3, <2>4, <2>5, <2>6, <2>7, <2>10, <2>11 DEF DiscordInv
<1> QED
  BY <1>2, <1>3

\* The cursor moves to the message the poll is done with.
LEMMA CursorMoves ==
  ASSUME DiscordInv, update_cursor
  PROVE  DiscordInv'
<1> USE DEF channelVars, ledgerVars, replyVars
<1>1. /\ poll = [step |-> poll.step, page |-> poll.page, key |-> poll.key, wait |-> poll.wait]
      /\ poll.step = "pass" /\ poll.page # << >> /\ poll.page \in Seq(Snapshots)
      /\ Earned(poll.page[1].message)
  BY DEF update_cursor, DiscordInv, DiscordTypes, PollIsEarned
<1>2. Head(poll.page) = poll.page[1] /\ poll.page[1] \in Snapshots
  BY <1>1
<1>3. /\ UNCHANGED <<newest, reactions, revision, accounts, entries, queued, outbound, posted,
                     recent, replier>>
      /\ cursor' \in {cursor, poll.page[1].message} /\ cursor' \in 0 .. MaxMessage
  BY <1>2, DiscordAssumption DEF update_cursor, DiscordInv, DiscordTypes, Snapshots, Messages
<1>4. /\ poll' = [step |-> poll'.step, page |-> poll'.page, key |-> poll'.key, wait |-> poll'.wait]
      /\ poll'.step \in {"idle", "ingest"} /\ poll'.page \in Seq(Snapshots)
      /\ poll'.step = "ingest" => poll'.page # << >>
  <2>1. CASE Len(poll.page) > 1
    <3> DEFINE rest == Tail(poll.page)
    <3>1. rest \in Seq(Snapshots) /\ Len(rest) = Len(poll.page) - 1
      BY <1>1, HeadTailProperties
    <3>2. poll' = [step |-> "ingest", page |-> rest, key |-> poll.key, wait |-> poll.wait]
      BY <1>1, <2>1 DEF update_cursor, NextOfPage
    <3>3. Len(poll.page) \in Nat
      BY <1>1
    <3> HIDE DEF rest
    <3>4. rest # << >>
      BY <2>1, <3>1, <3>3
    <3> QED
      BY <3>1, <3>2, <3>4
  <2>2. CASE ~(Len(poll.page) > 1)
    <3>1. poll' = AtRest
      BY <2>2 DEF update_cursor, NextOfPage
    <3> QED
      BY <3>1 DEF AtRest
  <2> QED
    BY <2>1, <2>2
<1>5. DiscordTypes'
  BY <1>3, <1>4 DEF DiscordInv, DiscordTypes
<1>6. StoredIsKept' /\ RowsAreReserved' /\ CommandsAreReserved'
  BY <1>3 DEF DiscordInv, StoredIsKept, RowsAreReserved, CommandsAreReserved
<1>7. PollIsEarned' /\ RoutedIsQueued'
  BY <1>3, <1>4 DEF DiscordInv, PollIsEarned, RoutedIsQueued
<1>8. CursorEarned'
  BY <1>1, <1>3 DEF DiscordInv, CursorEarned, Earned
<1> QED
  BY <1>5, <1>6, <1>7, <1>8 DEF DiscordInv

\* The steps of a reply leave the poll and its cursor alone, as long as the
\* events keep what the poll wrote.
LEMMA RepliesSparePoll ==
  ASSUME DiscordInv, UNCHANGED <<newest, reactions, revision, accounts, cursor, queued, poll>>,
         entries' \in [Keys -> EventRows],
         \A k \in Keys : /\ entries'[k].digest = entries[k].digest
                         /\ entries'[k].routed = entries[k].routed
                         /\ entries'[k].allowed = entries[k].allowed,
         outbound' \in [Keys -> ReplyRows], posted' \in [Keys -> Seq(Texts)], recent' \subseteq Keys,
         replier' \in [Repliers -> Commands],
         \A k \in Keys : entries[k] = NoEvent => entries'[k] = NoEvent,
         RowsAreReserved', CommandsAreReserved'
  PROVE  DiscordInv'
<1>1. DiscordTypes'
  BY DEF DiscordInv, DiscordTypes
<1>2. StoredIsKept'
  BY DEF DiscordInv, StoredIsKept
<1>3. \A k \in Keys : entries'[k] = NoEvent => entries[k] = NoEvent
  <2> SUFFICES ASSUME NEW k \in Keys, entries'[k] = NoEvent
               PROVE  entries[k] = NoEvent
    OBVIOUS
  <2>1. entries'[k].digest < 0
    BY DEF NoEvent
  <2> QED
    BY <2>1 DEF DiscordInv, StoredIsKept
<1>4. CursorEarned'
  BY <1>3 DEF DiscordInv, CursorEarned, Earned, Surfaces
<1>5. RoutedIsQueued'
  BY DEF DiscordInv, RoutedIsQueued
<1>6. PollIsEarned'
  <2>1. /\ poll'.step # "idle" => poll'.page # << >>
        /\ poll'.step \in {"queue", "mark"} =>
             /\ poll'.key \in Keys /\ poll'.key[1] = poll'.page[1].message
             /\ entries'[poll'.key].digest >= 0
        /\ poll'.step = "mark" => queued'[poll'.key] > 0
    BY DEF DiscordInv, PollIsEarned
  <2>2. poll'.step = "pass" => Earned(poll.page[1].message)'
    BY <1>3 DEF DiscordInv, PollIsEarned, Earned, Surfaces
  <2> QED
    BY <2>1, <2>2 DEF PollIsEarned
<1> QED
  BY <1>1, <1>2, <1>4, <1>5, <1>6 DEF DiscordInv

\* A command starts for a stored event, and may end at any time.
LEMMA CommandMoves ==
  ASSUME DiscordInv, NEW r \in Repliers,
         (\E k \in Keys, t \in Texts : ReplyStart(r, k, t)) \/ ReplyAborts(r)
  PROVE  DiscordInv'
<1> USE DEF channelVars, ledgerVars, replyVars
<1>1. /\ UNCHANGED <<newest, reactions, revision, accounts, cursor, queued, poll, entries, outbound,
                     posted, recent>>
      /\ \E c \in Commands : /\ replier' = [replier EXCEPT ![r] = c]
                             /\ c.step = "idle" \/ /\ c.step = "reserve" /\ c.key \in Keys
                                                   /\ c.text \in Texts /\ entries[c.key].digest >= 0
  <2>1. ASSUME NEW k \in Keys, NEW t \in Texts, ReplyStart(r, k, t)
        PROVE  <1>1
    <3> DEFINE c == [step |-> "reserve", key |-> k, text |-> t, had |-> entries[k].reply, id |-> 0]
    <3>1. entries[k] \in EventRows /\ entries[k].digest >= 0
      BY <2>1 DEF ReplyStart, DiscordInv, DiscordTypes, StoredIsKept, EventRows
    <3>2. c \in Commands /\ c.step = "reserve" /\ c.key = k /\ c.text = t
      BY <3>1 DEF Commands, EventRows
    <3>3. replier' = [replier EXCEPT ![r] = c]
      BY <2>1 DEF ReplyStart
    <3>4. UNCHANGED <<newest, reactions, revision, accounts, cursor, queued, poll, entries, outbound,
                      posted, recent>>
      BY <2>1 DEF ReplyStart
    <3> HIDE DEF c
    <3> QED
      BY <3>1, <3>2, <3>3, <3>4
  <2>2. CASE ReplyAborts(r)
    <3>1. NoCommand \in Commands /\ NoCommand.step = "idle"
      BY DEF NoCommand, Commands, NoKey
    <3> QED
      BY <2>2, <3>1 DEF ReplyAborts
  <2> QED
    BY <2>1, <2>2
<1>2. PICK c \in Commands : /\ replier' = [replier EXCEPT ![r] = c]
                            /\ c.step = "idle" \/ /\ c.step = "reserve" /\ c.key \in Keys
                                                  /\ c.text \in Texts /\ entries[c.key].digest >= 0
  BY <1>1
<1>3. /\ replier' \in [Repliers -> Commands] /\ replier'[r] = c
      /\ \A q \in Repliers : q # r => replier'[q] = replier[q]
  BY <1>2 DEF DiscordInv, DiscordTypes
<1>4. CommandsAreReserved'
  BY <1>1, <1>2, <1>3 DEF DiscordInv, CommandsAreReserved
<1>5. RowsAreReserved'
  BY <1>1 DEF DiscordInv, RowsAreReserved
<1>6. /\ entries' \in [Keys -> EventRows] /\ outbound' \in [Keys -> ReplyRows]
      /\ posted' \in [Keys -> Seq(Texts)] /\ recent' \subseteq Keys
  BY <1>1 DEF DiscordInv, DiscordTypes
<1> QED
  BY <1>1, <1>3, <1>4, <1>5, <1>6, RepliesSparePoll

\* Only the reservation makes a row, and a command goes on with the text of
\* the row only.
LEMMA ReserveMoves ==
  ASSUME DiscordInv, NEW r \in Repliers, reserve_reply(r)
  PROVE  DiscordInv'
<1> USE DEF channelVars, ledgerVars, replyVars
<1> DEFINE me == replier[r]
           k == me.key
<1>1. /\ UNCHANGED <<newest, reactions, revision, accounts, cursor, queued, poll, entries, posted,
                     recent>>
      /\ me \in Commands /\ me.step = "reserve" /\ k \in Keys /\ me.text \in Texts
      /\ entries[k].digest >= 0 /\ outbound[k] \in ReplyRows
  BY DEF reserve_reply, DiscordInv, DiscordTypes, CommandsAreReserved
<1>2. /\ replier \in [Repliers -> Commands] /\ outbound \in [Keys -> ReplyRows]
  BY DEF DiscordInv, DiscordTypes
<1>3. CASE /\ outbound[k] = NoReply
           /\ outbound' = [outbound EXCEPT ![k] = [text |-> me.text, state |-> "pending", id |-> 0]]
           /\ replier' = [replier EXCEPT ![r].step = "send"]
  <2>1. [text |-> me.text, state |-> "pending", id |-> 0] \in ReplyRows
    BY <1>1 DEF ReplyRows
  <2>2. /\ outbound' \in [Keys -> ReplyRows]
        /\ outbound'[k] = [text |-> me.text, state |-> "pending", id |-> 0]
        /\ \A j \in Keys : j # k => outbound'[j] = outbound[j]
    <3> HIDE DEF k
    <3> QED  BY <1>1, <1>2, <1>3, <2>1
  <2>3. /\ replier' \in [Repliers -> Commands]
        /\ replier'[r].step = "send" /\ replier'[r].key = k /\ replier'[r].text = me.text
        /\ \A q \in Repliers : q # r => replier'[q] = replier[q]
    BY <1>1, <1>2, <1>3 DEF Commands
  <2>4. posted[k] = << >> /\ outbound[k].id = 0 /\ entries[k].reply = 0 /\ k \notin recent
    <3> HIDE DEF k
    <3> QED  BY <1>1, <1>3 DEF DiscordInv, RowsAreReserved, NoReply
  <2>5. RowsAreReserved'
    <3> HIDE DEF k
    <3> QED  BY <1>1, <2>2, <2>4 DEF DiscordInv, RowsAreReserved
  <2>6. CommandsAreReserved'
    <3> SUFFICES ASSUME NEW q \in Repliers
                 PROVE  /\ replier'[q].step # "idle" =>
                            /\ replier'[q].key \in Keys /\ replier'[q].text \in Texts
                            /\ entries'[replier'[q].key].digest >= 0
                        /\ replier'[q].step \in {"send", "settle"} =>
                            /\ outbound'[replier'[q].key].state # "none"
                            /\ outbound'[replier'[q].key].text = replier'[q].text
                        /\ replier'[q].step = "settle" =>
                            replier'[q].id > 0 /\ replier'[q].id <= Len(posted'[replier'[q].key])
      BY DEF CommandsAreReserved
    <3>1. CASE q = r
      BY <1>1, <2>2, <2>3, <3>1
    <3>2. CASE q # r /\ replier[q].step \in {"send", "settle"}
      <4>1. replier[q].key # k
        BY <1>1, <1>3, <3>2 DEF DiscordInv, CommandsAreReserved, NoReply
      <4> QED
        BY <1>1, <2>2, <2>3, <3>2, <4>1 DEF DiscordInv, CommandsAreReserved
    <3>3. CASE q # r /\ replier[q].step \notin {"send", "settle"}
      BY <1>1, <2>3, <3>3 DEF DiscordInv, CommandsAreReserved
    <3> QED
      BY <3>1, <3>2, <3>3
  <2>7. entries' \in [Keys -> EventRows] /\ posted' \in [Keys -> Seq(Texts)] /\ recent' \subseteq Keys
    BY <1>1 DEF DiscordInv, DiscordTypes
  <2> QED
    BY <1>1, <2>2, <2>3, <2>5, <2>6, <2>7, RepliesSparePoll
<1>4. CASE /\ outbound[k] # NoReply /\ outbound[k].text = me.text
           /\ replier' = [replier EXCEPT ![r].step = "send"]
           /\ UNCHANGED outbound
  <2>1. /\ replier' \in [Repliers -> Commands]
        /\ replier'[r].step = "send" /\ replier'[r].key = k /\ replier'[r].text = me.text
        /\ \A q \in Repliers : q # r => replier'[q] = replier[q]
    BY <1>1, <1>2, <1>4 DEF Commands
  <2>2. outbound[k].state # "none"
    BY <1>1, <1>4 DEF DiscordInv, RowsAreReserved
  <2>3. CommandsAreReserved'
    BY <1>1, <1>4, <2>1, <2>2 DEF DiscordInv, CommandsAreReserved
  <2>4. RowsAreReserved'
    BY <1>1, <1>4 DEF DiscordInv, RowsAreReserved
  <2>5. /\ entries' \in [Keys -> EventRows] /\ outbound' \in [Keys -> ReplyRows]
        /\ posted' \in [Keys -> Seq(Texts)] /\ recent' \subseteq Keys
    BY <1>1, <1>4 DEF DiscordInv, DiscordTypes
  <2> QED
    BY <1>1, <2>1, <2>3, <2>4, <2>5, RepliesSparePoll
<1>5. CASE replier' = [replier EXCEPT ![r] = NoCommand] /\ UNCHANGED outbound
  <2>1. NoCommand \in Commands /\ NoCommand.step = "idle"
    BY DEF NoCommand, Commands, NoKey
  <2>2. /\ replier' \in [Repliers -> Commands] /\ replier'[r] = NoCommand
        /\ \A q \in Repliers : q # r => replier'[q] = replier[q]
    BY <1>2, <1>5, <2>1
  <2>3. CommandsAreReserved'
    BY <1>1, <1>5, <2>1, <2>2 DEF DiscordInv, CommandsAreReserved
  <2>4. RowsAreReserved'
    BY <1>1, <1>5 DEF DiscordInv, RowsAreReserved
  <2>5. /\ entries' \in [Keys -> EventRows] /\ outbound' \in [Keys -> ReplyRows]
        /\ posted' \in [Keys -> Seq(Texts)] /\ recent' \subseteq Keys
    BY <1>1, <1>5 DEF DiscordInv, DiscordTypes
  <2> QED
    BY <1>1, <2>2, <2>3, <2>4, <2>5, RepliesSparePoll
<1> QED
  BY <1>3, <1>4, <1>5 DEF reserve_reply, SameText

\* A post carries the text of the row.
LEMMA SendMoves ==
  ASSUME DiscordInv, NEW r \in Repliers, send_reply(r)
  PROVE  DiscordInv'
<1> USE DEF channelVars, ledgerVars, replyVars
<1> DEFINE me == replier[r]
           k == me.key
<1>1. /\ UNCHANGED <<newest, reactions, revision, accounts, cursor, queued, poll, entries, outbound>>
      /\ me \in Commands /\ me.step = "send" /\ k \in Keys /\ me.text \in Texts
      /\ outbound[k].state # "none" /\ outbound[k].text = me.text
      /\ posted[k] \in Seq(Texts) /\ recent \subseteq Keys
  BY DEF send_reply, DiscordInv, DiscordTypes, CommandsAreReserved
<1>2. /\ posted' \in [Keys -> Seq(Texts)] /\ recent' \subseteq Keys
      /\ Len(posted'[k]) > 0 /\ Len(posted'[k]) \in Nat
      /\ \A j \in Keys : /\ Len(posted[j]) <= Len(posted'[j])
                         /\ j \in recent' => Len(posted'[j]) > 0
                         /\ \A i \in 1 .. Len(posted'[j]) : posted'[j][i] = outbound[j].text
                         /\ posted[j] = << >> => posted'[j] = << >> \/ j = k
  <2>1. CASE k \in recent /\ UNCHANGED <<posted, recent>>
    BY <1>1, <2>1 DEF DiscordInv, DiscordTypes, RowsAreReserved
  <2>2. CASE /\ posted' = [posted EXCEPT ![k] = Append(@, me.text)]
             /\ recent' = recent \cup {k}
    <3> DEFINE old == posted[k]
               new == Append(old, me.text)
    <3>1. /\ new \in Seq(Texts) /\ Len(new) = Len(old) + 1 /\ Len(old) \in Nat
          /\ \A i \in 1 .. Len(old) : new[i] = old[i]
          /\ new[Len(old) + 1] = me.text
      BY <1>1, AppendProperties
    <3>2. \A i \in 1 .. Len(old) : old[i] = outbound[k].text
      BY <1>1 DEF DiscordInv, RowsAreReserved
    <3> HIDE DEF new
    <3>3. \A i \in 1 .. Len(new) : new[i] = outbound[k].text
      BY <1>1, <3>1, <3>2
    <3>4. /\ posted' \in [Keys -> Seq(Texts)] /\ posted'[k] = new
          /\ \A j \in Keys : j # k => posted'[j] = posted[j]
      <4>1. posted' = [posted EXCEPT ![k] = new] /\ posted \in [Keys -> Seq(Texts)]
        BY <2>2 DEF new, DiscordInv, DiscordTypes
      <4> HIDE DEF k
      <4> QED
        BY <1>1, <3>1, <4>1
    <3>5. ASSUME NEW j \in Keys, j # k
          PROVE  /\ Len(posted[j]) <= Len(posted'[j])
                 /\ j \in recent' => Len(posted'[j]) > 0
                 /\ \A i \in 1 .. Len(posted'[j]) : posted'[j][i] = outbound[j].text
                 /\ posted[j] = << >> => posted'[j] = << >>
      <4>1. posted'[j] = posted[j] /\ posted[j] \in Seq(Texts) /\ (j \in recent' => j \in recent)
        BY <2>2, <3>4, <3>5 DEF DiscordInv, DiscordTypes
      <4>2. Len(posted[j]) \in Nat
        BY <4>1
      <4> QED
        BY <4>1, <4>2 DEF DiscordInv, RowsAreReserved
    <3> HIDE DEF old, k
    <3>6. Len(posted[k]) = Len(old)
      BY DEF old
    <3>7. recent' \subseteq Keys
      BY <1>1, <2>2
    <3>8. /\ Len(posted[k]) <= Len(posted'[k]) /\ Len(posted'[k]) > 0 /\ Len(posted'[k]) \in Nat
          /\ \A i \in 1 .. Len(posted'[k]) : posted'[k][i] = outbound[k].text
      BY <3>1, <3>3, <3>4, <3>6
    <3> QED
      BY <3>4, <3>5, <3>7, <3>8
  <2> QED
    BY <2>1, <2>2 DEF send_reply
<1>3. /\ replier' \in [Repliers -> Commands]
      /\ replier'[r].step = "settle" /\ replier'[r].key = k /\ replier'[r].text = me.text
      /\ replier'[r].id = Len(posted'[k])
      /\ \A q \in Repliers : q # r => replier'[q] = replier[q]
  <2>1. replier' = [replier EXCEPT ![r].step = "settle", ![r].id = Len(posted'[k])]
    BY DEF send_reply
  <2> DEFINE n == Len(posted'[k])
  <2>2. n \in Nat /\ replier' = [replier EXCEPT ![r].step = "settle", ![r].id = n]
    BY <1>2, <2>1
  <2> HIDE DEF n
  <2>3. /\ replier' \in [Repliers -> Commands]
        /\ replier'[r].step = "settle" /\ replier'[r].key = k /\ replier'[r].text = me.text
        /\ replier'[r].id = n
        /\ \A q \in Repliers : q # r => replier'[q] = replier[q]
    BY <1>1, <2>2 DEF DiscordInv, DiscordTypes, Commands
  <2> QED
    BY <2>3 DEF n
<1>4. RowsAreReserved'
  <2> SUFFICES ASSUME NEW j \in Keys
               PROVE  /\ outbound[j].state = "none" => outbound[j] = NoReply /\ posted'[j] = << >>
                      /\ outbound[j].state # "none" => entries[j].digest >= 0
                      /\ outbound[j].state = "sent" <=> outbound[j].id > 0
                      /\ outbound[j].id = entries[j].reply /\ outbound[j].id <= Len(posted'[j])
                      /\ \A i \in 1 .. Len(posted'[j]) : posted'[j][i] = outbound[j].text
                      /\ j \in recent' => Len(posted'[j]) > 0
    BY <1>1 DEF RowsAreReserved
  <2>1. outbound[j].state = "none" => posted'[j] = << >>
    BY <1>1, <1>2 DEF DiscordInv, RowsAreReserved
  <2>2. outbound[j].id <= Len(posted'[j])
    <3>1. /\ outbound[j].id <= Len(posted[j]) /\ Len(posted[j]) <= Len(posted'[j])
          /\ outbound[j].id \in Nat /\ posted[j] \in Seq(Texts) /\ posted'[j] \in Seq(Texts)
      BY <1>2 DEF DiscordInv, DiscordTypes, RowsAreReserved, ReplyRows
    <3>2. Len(posted[j]) \in Nat /\ Len(posted'[j]) \in Nat
      BY <3>1
    <3> QED
      BY <3>1, <3>2
  <2> QED
    BY <1>2, <2>1, <2>2 DEF DiscordInv, RowsAreReserved
<1>5. CommandsAreReserved'
  <2> SUFFICES ASSUME NEW q \in Repliers
               PROVE  /\ replier'[q].step # "idle" =>
                          /\ replier'[q].key \in Keys /\ replier'[q].text \in Texts
                          /\ entries[replier'[q].key].digest >= 0
                      /\ replier'[q].step \in {"send", "settle"} =>
                          /\ outbound[replier'[q].key].state # "none"
                          /\ outbound[replier'[q].key].text = replier'[q].text
                      /\ replier'[q].step = "settle" =>
                          replier'[q].id > 0 /\ replier'[q].id <= Len(posted'[replier'[q].key])
    BY <1>1 DEF CommandsAreReserved
  <2>1. CASE q = r
    BY <1>1, <1>2, <1>3, <2>1 DEF DiscordInv, CommandsAreReserved
  <2>2. CASE q # r
    <3>1. /\ replier'[q] = replier[q] /\ replier[q].id \in Nat
      BY <1>3, <2>2 DEF DiscordInv, DiscordTypes, Commands
    <3>2. ASSUME replier[q].step = "settle"
          PROVE  replier[q].id <= Len(posted'[replier[q].key])
      <4>1. /\ replier[q].key \in Keys /\ replier[q].id <= Len(posted[replier[q].key])
        BY <3>2 DEF DiscordInv, CommandsAreReserved
      <4>2. /\ Len(posted[replier[q].key]) <= Len(posted'[replier[q].key])
            /\ posted[replier[q].key] \in Seq(Texts) /\ posted'[replier[q].key] \in Seq(Texts)
        BY <1>2, <4>1 DEF DiscordInv, DiscordTypes
      <4>3. Len(posted[replier[q].key]) \in Nat /\ Len(posted'[replier[q].key]) \in Nat
        BY <4>2
      <4> QED
        BY <3>1, <4>1, <4>2, <4>3
    <3> QED
      BY <3>1, <3>2 DEF DiscordInv, CommandsAreReserved
  <2> QED
    BY <2>1, <2>2
<1>6. entries' \in [Keys -> EventRows] /\ outbound' \in [Keys -> ReplyRows]
  BY <1>1 DEF DiscordInv, DiscordTypes
<1> QED
  BY <1>1, <1>2, <1>3, <1>4, <1>5, <1>6, RepliesSparePoll

\* The first settled id stays the reply of its event.
LEMMA SettleMoves ==
  ASSUME DiscordInv, NEW r \in Repliers, settle_reply(r)
  PROVE  DiscordInv'
<1> USE DEF channelVars, ledgerVars, replyVars
<1> DEFINE me == replier[r]
           k == me.key
<1>1. /\ UNCHANGED <<newest, reactions, revision, accounts, cursor, queued, poll, posted, recent>>
      /\ me \in Commands /\ me.step = "settle" /\ k \in Keys
      /\ outbound[k].state # "none" /\ outbound[k] \in ReplyRows
      /\ entries[k].digest >= 0 /\ entries[k] \in EventRows
      /\ me.id \in Nat /\ me.id > 0 /\ me.id <= Len(posted[k])
      /\ outbound \in [Keys -> ReplyRows] /\ entries \in [Keys -> EventRows]
  BY DEF settle_reply, DiscordInv, DiscordTypes, CommandsAreReserved, Commands
<1>2. /\ replier' \in [Repliers -> Commands] /\ replier'[r].step = "idle"
      /\ \A q \in Repliers : q # r => replier'[q] = replier[q]
  <2>1. NoCommand \in Commands /\ NoCommand.step = "idle"
    BY DEF NoCommand, Commands, NoKey
  <2>2. replier' = [replier EXCEPT ![r] = NoCommand]
    BY DEF settle_reply
  <2> QED
    BY <2>1, <2>2 DEF DiscordInv, DiscordTypes
<1>3. CASE /\ outbound' = [outbound EXCEPT ![k].state = "sent", ![k].id = me.id]
           /\ entries' = [entries EXCEPT ![k].reply = me.id]
  <2>1. /\ outbound' \in [Keys -> ReplyRows]
        /\ outbound'[k].state = "sent" /\ outbound'[k].id = me.id /\ outbound'[k].text = outbound[k].text
        /\ \A j \in Keys : j # k => outbound'[j] = outbound[j]
    <3> DEFINE n == me.id
    <3>1. n \in Nat /\ outbound' = [outbound EXCEPT ![k].state = "sent", ![k].id = n]
      BY <1>1, <1>3
    <3> HIDE DEF n, k
    <3>2. /\ outbound' \in [Keys -> ReplyRows]
          /\ outbound'[k].state = "sent" /\ outbound'[k].id = n /\ outbound'[k].text = outbound[k].text
          /\ \A j \in Keys : j # k => outbound'[j] = outbound[j]
      BY <1>1, <3>1 DEF ReplyRows
    <3> QED
      BY <3>2 DEF n
  <2>2. /\ entries' \in [Keys -> EventRows]
        /\ entries'[k].reply = me.id /\ entries'[k].digest = entries[k].digest
        /\ entries'[k].routed = entries[k].routed /\ entries'[k].allowed = entries[k].allowed
        /\ \A j \in Keys : j # k => entries'[j] = entries[j]
    <3> DEFINE n == me.id
    <3>1. n \in Nat /\ entries' = [entries EXCEPT ![k].reply = n]
      BY <1>1, <1>3
    <3> HIDE DEF n, k
    <3>2. /\ entries' \in [Keys -> EventRows]
          /\ entries'[k].reply = n /\ entries'[k].digest = entries[k].digest
          /\ entries'[k].routed = entries[k].routed /\ entries'[k].allowed = entries[k].allowed
          /\ \A j \in Keys : j # k => entries'[j] = entries[j]
      BY <1>1, <3>1 DEF EventRows
    <3> QED
      BY <3>2 DEF n
  <2>3. RowsAreReserved'
    <3> HIDE DEF k, me
    <3> QED  BY <1>1, <2>1, <2>2 DEF DiscordInv, RowsAreReserved
  <2>4. CommandsAreReserved'
    <3> HIDE DEF k
    <3> QED  BY <1>1, <1>2, <2>1, <2>2 DEF DiscordInv, CommandsAreReserved
  <2>5. entries[k] # NoEvent
    BY <1>1 DEF NoEvent
  <2>6. \A j \in Keys : /\ entries'[j].digest = entries[j].digest
                        /\ entries'[j].routed = entries[j].routed
                        /\ entries'[j].allowed = entries[j].allowed
                        /\ entries[j] = NoEvent => entries'[j] = NoEvent
    <3> HIDE DEF k
    <3> QED  BY <2>2, <2>5
  <2>7. posted' \in [Keys -> Seq(Texts)] /\ recent' \subseteq Keys
    BY <1>1 DEF DiscordInv, DiscordTypes
  <2> QED
    BY <1>1, <1>2, <2>1, <2>2, <2>3, <2>4, <2>6, <2>7, RepliesSparePoll
<1>4. CASE UNCHANGED <<outbound, entries>>
  <2>1. RowsAreReserved'
    BY <1>1, <1>4 DEF DiscordInv, RowsAreReserved
  <2>2. CommandsAreReserved'
    BY <1>1, <1>2, <1>4 DEF DiscordInv, CommandsAreReserved
  <2>3. /\ entries' \in [Keys -> EventRows] /\ outbound' \in [Keys -> ReplyRows]
        /\ posted' \in [Keys -> Seq(Texts)] /\ recent' \subseteq Keys
    BY <1>1, <1>4 DEF DiscordInv, DiscordTypes
  <2> QED
    BY <1>1, <1>2, <1>4, <2>1, <2>2, <2>3, RepliesSparePoll
<1> QED
  BY <1>3, <1>4 DEF settle_reply

\* Discord may forget a nonce: only what it shows matters.
LEMMA NonceMoves ==
  ASSUME DiscordInv, NEW k \in Keys, NonceForgotten(k)
  PROVE  DiscordInv'
<1>1. /\ UNCHANGED <<newest, reactions, revision, accounts, cursor, queued, poll, entries, outbound,
                     posted, replier>>
      /\ recent' \subseteq recent
  BY DEF NonceForgotten, channelVars, ledgerVars
<1>2. RowsAreReserved' /\ CommandsAreReserved'
  BY <1>1 DEF DiscordInv, RowsAreReserved, CommandsAreReserved
<1>3. /\ entries' \in [Keys -> EventRows] /\ outbound' \in [Keys -> ReplyRows]
      /\ posted' \in [Keys -> Seq(Texts)] /\ recent' \subseteq Keys /\ replier' \in [Repliers -> Commands]
  BY <1>1 DEF DiscordInv, DiscordTypes
<1> QED
  BY <1>1, <1>2, <1>3, RepliesSparePoll

\* The invariant of the bridge holds from the start and through every step.
THEOREM BridgeHolds == DiscordSpec => []DiscordInv
<1>1. DiscordInit => DiscordInv
  <2> SUFFICES ASSUME DiscordInit PROVE DiscordInv
    OBVIOUS
  <2> USE DEF DiscordInit
  <2>1. NoActor \in ActorStats /\ NoEvent \in EventRows /\ NoReply \in ReplyRows /\ NoCommand \in Commands
    BY DEF NoActor, ActorStats, NoEvent, EventRows, NoReply, ReplyRows, NoCommand, Commands, NoKey
  <2>2. MaxMessage \in Nat
    BY DiscordAssumption
  <2>3. poll = [step |-> "idle", page |-> << >>, key |-> <<0, "create">>, wait |-> 0]
    BY DEF AtRest
  <2>4. DiscordTypes
    BY <2>1, <2>2, <2>3 DEF DiscordTypes, Revisions
  <2>5. StoredIsKept
    BY DEF StoredIsKept
  <2>6. RowsAreReserved
    BY DEF RowsAreReserved, NoReply, NoEvent
  <2>7. CommandsAreReserved
    BY DEF CommandsAreReserved, NoCommand
  <2>8. PollIsEarned /\ RoutedIsQueued /\ CursorEarned
    BY <2>3 DEF PollIsEarned, RoutedIsQueued, CursorEarned, NoEvent
  <2> QED
    BY <2>4, <2>5, <2>6, <2>7, <2>8 DEF DiscordInv
<1>2. DiscordInv /\ [DiscordNext]_discordVars => DiscordInv'
  <2> SUFFICES ASSUME DiscordInv, [DiscordNext]_discordVars PROVE DiscordInv'
    OBVIOUS
  <2>1. CASE UNCHANGED discordVars
    <3> USE <2>1 DEF discordVars, channelVars, ledgerVars, replyVars
    <3>1. DiscordTypes' /\ StoredIsKept' /\ RowsAreReserved' /\ CommandsAreReserved'
      BY DEF DiscordInv, DiscordTypes, StoredIsKept, RowsAreReserved, CommandsAreReserved
    <3>2. PollIsEarned' /\ RoutedIsQueued' /\ CursorEarned'
      BY DEF DiscordInv, PollIsEarned, RoutedIsQueued, CursorEarned, Earned, Surfaces
    <3> QED
      BY <3>1, <3>2 DEF DiscordInv
  <2>2. CASE DiscordNext
    BY <2>2, ChannelMoves, PollRests, IngestMoves, RouteMoves, CursorMoves, CommandMoves,
       ReserveMoves, SendMoves, SettleMoves, NonceMoves DEF DiscordNext, PollStep
  <2> QED
    BY <2>1, <2>2
<1> QED
  BY <1>1, <1>2, PTL DEF DiscordSpec

\* However many commands answer one event, die or repeat themselves, Discord
\* shows one text for it, and the reply of the ledger is one of its posts
\* (reserve_reply, settle_reply).
THEOREM RepliesAreOne == DiscordSpec => []OneReplyText
<1>1. DiscordInv => OneReplyText
  <2> SUFFICES ASSUME DiscordInv, NEW k \in Keys
               PROVE  /\ \A i \in DOMAIN posted[k] : posted[k][i] = outbound[k].text
                      /\ entries[k].reply > 0 =>
                           /\ entries[k].reply \in DOMAIN posted[k]
                           /\ outbound[k].state = "sent" /\ outbound[k].id = entries[k].reply
    BY DEF OneReplyText
  <2>1. posted[k] \in Seq(Texts) /\ entries[k].reply \in Nat
    BY DEF DiscordInv, DiscordTypes, EventRows
  <2>2. DOMAIN posted[k] = 1 .. Len(posted[k]) /\ Len(posted[k]) \in Nat
    BY <2>1
  <2> QED
    BY <2>1, <2>2 DEF DiscordInv, RowsAreReserved
<1> QED
  BY <1>1, BridgeHolds, PTL

\* The events that count for an author are finitely many, and a cap of 10000
\* (discord_social.py) that all events fit under is never met.
LEMMA MentionsFit ==
  ASSUME NEW S \in SUBSET Keys
  PROVE  IsFiniteSet(S) /\ Cardinality(S) \in Nat /\ Cardinality(S) <= 2 * MaxMessage
<1>1. MaxMessage \in Nat
  BY DiscordAssumption
<1>2. IsFiniteSet(Messages) /\ Cardinality(Messages) = MaxMessage
  <2>1. IsFiniteSet(1 .. MaxMessage) /\ Cardinality(1 .. MaxMessage) = IF 1 > MaxMessage THEN 0 ELSE MaxMessage - 1 + 1
    BY <1>1, FS_Interval
  <2> QED
    BY <1>1, <2>1 DEF Messages
<1>3. IsFiniteSet(Revisions) /\ Cardinality(Revisions) = 2
  <2>1. IsFiniteSet({}) /\ Cardinality({}) = 0
    BY FS_EmptySet
  <2>2. IsFiniteSet({} \cup {"create"}) /\ Cardinality({} \cup {"create"}) = 1
    BY <2>1, FS_AddElement
  <2>3. {"create"} = {} \cup {"create"} /\ Revisions = {"create"} \cup {"edit"} /\ "edit" \notin {"create"}
    BY DEF Revisions
  <2>4. IsFiniteSet({"create"}) /\ Cardinality({"create"}) = 1
    BY <2>2, <2>3
  <2>5. IsFiniteSet({"create"} \cup {"edit"}) /\ Cardinality({"create"} \cup {"edit"}) = 2
    BY <2>3, <2>4, FS_AddElement
  <2> QED
    BY <2>3, <2>5
<1>4. IsFiniteSet(Keys) /\ Cardinality(Keys) = MaxMessage * 2
  BY <1>2, <1>3, FS_Product DEF Keys
<1>5. IsFiniteSet(S) /\ Cardinality(S) <= Cardinality(Keys)
  BY <1>4, FS_Subset
<1>6. Cardinality(S) \in Nat
  BY <1>5, FS_CardinalityType
<1> QED
  BY <1>1, <1>4, <1>5, <1>6

\* A step that stores no event keeps the counts.
LEMMA MentionsKept ==
  ASSUME MentionsCounted, UNCHANGED accounts,
         \A k \in Keys : entries'[k] = NoEvent <=> entries[k] = NoEvent
  PROVE  MentionsCounted'
<1> SUFFICES ASSUME NEW a \in Accounts
             PROVE  accounts'[a].mentions = Cardinality(Mentions(a)')
  BY DEF MentionsCounted
<1>1. Mentions(a)' = Mentions(a)
  BY DEF Mentions
<1> QED
  BY <1>1 DEF MentionsCounted

\* A new event counts once, for its author.
LEMMA MentionsMove ==
  ASSUME DiscordInv, MentionsCounted, ingest_message, 2 * MaxMessage <= 10000
  PROVE  MentionsCounted'
<1> DEFINE snapshot == Head(poll.page)
           k == KeyOf(snapshot)
           a == Author[snapshot.message]
           stats == Counted(accounts[a], snapshot)
           row == StoredEvent(snapshot, stats)
<1>1. CASE UNCHANGED <<accounts, entries>>
  BY <1>1, MentionsKept
<1>2. CASE /\ a # Bot /\ entries[k] = NoEvent
           /\ accounts' = [accounts EXCEPT ![a] = stats]
           /\ entries' = [entries EXCEPT ![k] = row]
  <2>1. snapshot \in Snapshots /\ k \in Keys /\ k[1] = snapshot.message
    <3>1. poll.page # << >> /\ poll.page \in Seq(Snapshots)
      BY DEF ingest_message, DiscordInv, DiscordTypes, PollIsEarned
    <3>2. snapshot \in Snapshots
      BY <3>1
    <3> QED
      BY <3>2 DEF KeyOf, Keys, Snapshots
  <2>2. a \in Accounts
    BY <1>2, <2>1, DiscordAssumption DEF Snapshots
  <2>3. row # NoEvent
    <3>1. row.digest = snapshot.reactions /\ snapshot.reactions \in Nat
      BY <2>1 DEF StoredEvent, Snapshots
    <3> HIDE DEF row
    <3> QED
      BY <3>1 DEF NoEvent
  <2>4. stats.mentions = AtMost(accounts[a].mentions +
                           (IF "interaction:mention" \in EventLabels[k[1]] THEN 1 ELSE 0), 10000)
    BY <2>1 DEF Counted
  <2>5. /\ \A b \in Accounts : b # a => accounts'[b] = accounts[b]
        /\ accounts'[a] = stats
    <3> HIDE DEF a, stats
    <3> QED  BY <1>2, <2>2 DEF DiscordInv, DiscordTypes
  <2>6. /\ \A j \in Keys : j # k => entries'[j] = entries[j]
        /\ entries'[k] = row
    <3> HIDE DEF k, row
    <3> QED  BY <1>2, <2>1 DEF DiscordInv, DiscordTypes
  <2>7. Author[k[1]] = a
    BY <2>1
  <2> HIDE DEF k, row, stats, a
  <2> SUFFICES ASSUME NEW b \in Accounts
               PROVE  accounts'[b].mentions = Cardinality(Mentions(b)')
    BY DEF MentionsCounted
  <2>8. CASE b = a /\ "interaction:mention" \in EventLabels[k[1]]
    <3>1. Mentions(b)' = Mentions(b) \cup {k} /\ k \notin Mentions(b)
      BY <1>2, <2>1, <2>3, <2>6, <2>7, <2>8 DEF Mentions
    <3>2. /\ IsFiniteSet(Mentions(b)) /\ Cardinality(Mentions(b)) \in Nat
          /\ Cardinality(Mentions(b)') <= 2 * MaxMessage
      <4>1. Mentions(b) \in SUBSET Keys
        BY DEF Mentions
      <4>2. Mentions(b) \cup {k} \in SUBSET Keys
        BY <2>1, <4>1
      <4> QED
        BY <3>1, <4>1, <4>2, MentionsFit
    <3>3. Cardinality(Mentions(b)') = Cardinality(Mentions(b)) + 1
      BY <3>1, <3>2, FS_AddElement
    <3>4. accounts[b].mentions = Cardinality(Mentions(b))
      BY DEF MentionsCounted
    <3>5. MaxMessage \in Nat
      BY DiscordAssumption
    <3>6. accounts[b].mentions + 1 <= 10000 /\ accounts[b].mentions \in Nat
      BY <3>2, <3>3, <3>4, <3>5
    <3>7. stats.mentions = accounts[b].mentions + 1
      BY <2>4, <2>8, <3>6 DEF AtMost
    <3> QED
      BY <2>5, <2>8, <3>3, <3>4, <3>7
  <2>9. CASE b = a /\ "interaction:mention" \notin EventLabels[k[1]]
    <3>1. Mentions(b)' = Mentions(b)
      BY <1>2, <2>1, <2>6, <2>9 DEF Mentions
    <3>2. accounts[b].mentions = Cardinality(Mentions(b))
      BY DEF MentionsCounted
    <3>3. Cardinality(Mentions(b)) \in Nat /\ Cardinality(Mentions(b)) <= 2 * MaxMessage
      <4>1. Mentions(b) \in SUBSET Keys
        BY DEF Mentions
      <4> QED
        BY <4>1, MentionsFit
    <3>4. MaxMessage \in Nat
      BY DiscordAssumption
    <3>5. stats.mentions = accounts[b].mentions
      BY <2>4, <2>9, <3>2, <3>3, <3>4 DEF AtMost
    <3> QED
      BY <2>5, <2>9, <3>1, <3>2, <3>5
  <2>10. CASE b # a
    <3>1. Mentions(b)' = Mentions(b)
      BY <1>2, <2>1, <2>6, <2>7, <2>10 DEF Mentions
    <3> QED
      BY <2>5, <2>10, <3>1 DEF MentionsCounted
  <2> QED
    BY <2>8, <2>9, <2>10
<1> QED
  BY <1>1, <1>2 DEF ingest_message

\* As long as all events fit under the cap of the counters, the cursor rests
\* on a message only when its event is stored and its signal is in the
\* outbox, and no event counts twice for its author (poll_once,
\* ingest_message, mark_routed, update_cursor).
THEOREM CursorHolds ==
  ASSUME 2 * MaxMessage <= 10000
  PROVE  DiscordSpec => []CursorIsEarned
<1>1. DiscordInit => MentionsCounted
  <2> SUFFICES ASSUME DiscordInit, NEW a \in Accounts
               PROVE  accounts[a].mentions = Cardinality(Mentions(a))
    BY DEF MentionsCounted
  <2>1. Mentions(a) = {}
    BY DEF DiscordInit, Mentions
  <2> QED
    BY <2>1, FS_EmptySet DEF DiscordInit, NoActor
<1>2. DiscordInv /\ DiscordInv' /\ MentionsCounted /\ [DiscordNext]_discordVars => MentionsCounted'
  <2> SUFFICES ASSUME DiscordInv, DiscordInv', MentionsCounted, [DiscordNext]_discordVars
               PROVE  MentionsCounted'
    OBVIOUS
  <2> USE DEF channelVars, ledgerVars, replyVars
  <2>1. CASE ingest_message
    BY <2>1, MentionsMove
  <2>2. CASE mark_routed
    <3>1. /\ UNCHANGED accounts /\ poll.key \in Keys /\ entries[poll.key].digest >= 0
          /\ entries \in [Keys -> EventRows]
          /\ entries' = [entries EXCEPT ![poll.key].routed = queued[poll.key]]
      BY <2>2 DEF mark_routed, DiscordInv, DiscordTypes, PollIsEarned
    <3>2. entries'[poll.key].digest = entries[poll.key].digest
      BY <3>1 DEF EventRows
    <3>3. entries'[poll.key] # NoEvent /\ entries[poll.key] # NoEvent
      BY <3>1, <3>2 DEF NoEvent
    <3> QED
      BY <3>1, <3>3, MentionsKept
  <2>3. ASSUME NEW r \in Repliers, settle_reply(r)
        PROVE  MentionsCounted'
    <3> DEFINE k == replier[r].key
    <3>1. UNCHANGED accounts /\ k \in Keys /\ entries[k].digest >= 0 /\ entries \in [Keys -> EventRows]
      BY <2>3 DEF settle_reply, DiscordInv, DiscordTypes, CommandsAreReserved
    <3>2. \/ UNCHANGED entries
          \/ entries' = [entries EXCEPT ![k].reply = replier[r].id]
      BY <2>3 DEF settle_reply
    <3> HIDE DEF k
    <3>3. entries'[k].digest = entries[k].digest
      BY <3>1, <3>2 DEF EventRows
    <3>4. entries'[k] # NoEvent /\ entries[k] # NoEvent
      BY <3>1, <3>3 DEF NoEvent
    <3> QED
      BY <3>1, <3>2, <3>4, MentionsKept
  <2>4. CASE UNCHANGED <<accounts, entries>>
    BY <2>4, MentionsKept
  <2>5. \/ ingest_message \/ mark_routed \/ \E r \in Repliers : settle_reply(r)
        \/ UNCHANGED <<accounts, entries>>
    <3>1. CASE UNCHANGED discordVars
      BY <3>1 DEF discordVars
    <3>2. CASE Post \/ PollStep \/ PollFails \/ NodeRestart
      BY <3>2 DEF Post, PollStep, PollStart, Pause, queue_discord_signal, update_cursor, PollFails, NodeRestart
    <3>3. CASE \E m \in Messages : React(m) \/ Edit(m)
      BY <3>3 DEF React, Edit
    <3>4. CASE \E a \in Accounts, l \in ManualLabels : update_labels(a, l)
      BY <3>4 DEF update_labels
    <3>5. ASSUME NEW r \in Repliers,
                 \/ \E k \in Keys, t \in Texts : ReplyStart(r, k, t)
                 \/ reserve_reply(r) \/ send_reply(r) \/ ReplyAborts(r)
          PROVE  UNCHANGED <<accounts, entries>>
      BY <3>5 DEF ReplyStart, reserve_reply, send_reply, ReplyAborts
    <3>6. CASE \E k \in Keys : NonceForgotten(k)
      BY <3>6 DEF NonceForgotten
    <3> QED
      BY <3>1, <3>2, <3>3, <3>4, <3>5, <3>6 DEF DiscordNext
  <2> QED
    BY <2>1, <2>2, <2>3, <2>4, <2>5
<1>3. DiscordInv /\ MentionsCounted => CursorIsEarned
  BY DEF DiscordInv, DiscordTypes, CursorEarned, Earned, MentionsCounted, Mentions, CursorIsEarned
<1> QED
  BY <1>1, <1>2, <1>3, BridgeHolds, PTL DEF DiscordSpec

-----------------------------------------------------------------------------
(* The relationship book.                                                  *)

Reasons == ClaimIds \cup {"command", "suggestion", "friend"}
EstimateType ==
    [circle : Nat, state : {"none", "active", "dormant", "ended"}, trust : BOOLEAN,
     why : SUBSET Reasons]
DecisionType ==
    [what : [kind : {"circle", "trust"}, ref : Refs, basis : SUBSET Traffic],
     how : {"accepted", "rejected"}]
MoveType == [from : SUBSET Refs, to : SUBSET Refs]
RelationshipBooks ==
    [actor : [Actors -> {"none", "active", "revoked"}],
     subject : [Refs -> {"none", "active", "superseded"}],
     links : [Refs -> SUBSET Actors],
     rel : [Refs -> EstimateType],
     seen : SUBSET (Traffic \X Refs),
     moves : SUBSET MoveType,
     decided : SUBSET DecisionType,
     noted : SUBSET ClaimIds]

\* A reason behind every circle, and both signatures behind every claim.
WellEarned(rel, claims) ==
    /\ rel.circle > 1 => rel.why # {}
    /\ \A c \in rel.why \cap ClaimIds : c \in claims /\ Countersigned(c)

\* Nothing hangs on a reference that is not taken, and none is taken that was
\* not handed out.
RefsInOrder(b, n) ==
    \A r \in Refs : /\ b.subject[r] = "none" => b.links[r] = {}
                    /\ r > n => b.subject[r] = "none"

GoodBook(b, n, claims) ==
    /\ b \in RelationshipBooks /\ Valid(b) /\ RefsInOrder(b, n)
    /\ \A r \in Refs : WellEarned(b.rel[r], claims)

Hands ==
    [at : {"off", "idle", "claims", "claim", "circle", "withdrawal", "record", "raise"},
     book : RelationshipBooks, on : Reasons \cup Traffic \cup {Nobody}, ref : Nat]

\* What a command has in hand between its saves.
CommandInHand(m, n, claims) ==
    /\ m \in Hands /\ GoodBook(m.book, n, claims)
    /\ m.at \notin {"record", "raise"}
    /\ m.at = "circle" => /\ m.ref \in Subjects(m.book) /\ m.on \in Reasons
                          /\ m.on \in ClaimIds => m.on \in claims /\ Countersigned(m.on)
    /\ m.at = "claim" => m.on \in claims /\ Countersigned(m.on)
    /\ m.at = "withdrawal" => m.on \in ClaimIds

\* What the node has in hand between its saves.
NodeInHand(m, n, claims) ==
    /\ m \in Hands /\ GoodBook(m.book, n, claims)
    /\ m.at \in {"record", "raise"} => m.on \in Traffic /\ m.ref \in Subjects(m.book)
    /\ m.at = "record" => From[m.on] \in m.book.links[m.ref]

RelationInv ==
    /\ minted \in Nat /\ agreed \subseteq ClaimIds
    /\ GoodBook(shelf, minted, agreed)
    /\ mem = [q \in {"cli", "node"} |-> mem[q]]
    /\ CommandInHand(mem["cli"], minted, agreed)
    /\ NodeInHand(mem["node"], minted, agreed)

\* References handed out and claims stored later harm no copy of the book.
LEMMA BookStaysGood ==
  ASSUME NEW b, NEW n \in Nat, NEW k \in Nat, n <= k, NEW claims, NEW more, claims \subseteq more,
         GoodBook(b, n, claims)
  PROVE  GoodBook(b, k, more)
<1>1. RefsInOrder(b, k)
  <2>1. \A r \in Refs : r > k => r > n
    BY DEF Refs
  <2> QED
    BY <2>1 DEF GoodBook, RefsInOrder
<1>2. \A r \in Refs : WellEarned(b.rel[r], more)
  BY DEF GoodBook, WellEarned
<1> QED
  BY <1>1, <1>2 DEF GoodBook

\* A command or the node changes one estimate.
LEMMA EstimateChanged ==
  ASSUME NEW b, NEW n, NEW claims, GoodBook(b, n, claims), NEW r \in Subjects(b),
         NEW e \in EstimateType, e.state # "none", WellEarned(e, claims)
  PROVE  GoodBook([b EXCEPT !.rel[r] = e], n, claims)
<1> DEFINE c == [b EXCEPT !.rel[r] = e]
<1>1. b \in RelationshipBooks /\ Valid(b) /\ RefsInOrder(b, n) /\ r \in Refs
  BY DEF GoodBook, Subjects
<1>2. b.rel \in [Refs -> EstimateType]
  BY <1>1 DEF RelationshipBooks
<1>3. [b.rel EXCEPT ![r] = e] \in [Refs -> EstimateType]
  BY <1>2
<1>4. /\ c \in RelationshipBooks /\ c.rel = [b.rel EXCEPT ![r] = e]
      /\ c.actor = b.actor /\ c.subject = b.subject /\ c.links = b.links /\ c.seen = b.seen
      /\ c.moves = b.moves /\ c.decided = b.decided
  BY <1>1, <1>3 DEF RelationshipBooks
<1> HIDE DEF c
<1>5. c.rel[r] = e /\ \A x \in Refs \ {r} : c.rel[x] = b.rel[x]
  BY <1>1, <1>2, <1>4
<1>6. Observed(c) = Observed(b) /\ Subjects(c) = Subjects(b) /\ \A a \in Actors : Primary(c, a) = Primary(b, a)
  BY <1>4 DEF Observed, Subjects, Primary, ActiveOnes
<1>7. RelationsMatch(c)
  BY <1>1, <1>5, <1>6 DEF Valid, RelationsMatch
<1>8. ActorsPlaced(c)
  BY <1>1, <1>4, <1>6 DEF Valid, ActorsPlaced, Observed
<1>9. EvidenceLinked(c) /\ MovesEnd(c) /\ NoWayBack(c.moves) /\ DecidedOnce(c)
  BY <1>1, <1>4, <1>6 DEF Valid, EvidenceLinked, MovesEnd, DecidedOnce
<1>10. \A x \in Refs : WellEarned(c.rel[x], claims)
  BY <1>5 DEF GoodBook
<1>11. RefsInOrder(c, n)
  BY <1>1, <1>4 DEF RefsInOrder
<1>12. GoodBook(c, n, claims)
  BY <1>4, <1>7, <1>8, <1>9, <1>10, <1>11 DEF GoodBook, Valid
<1> QED
  BY <1>12 DEF c

\* set_circle keeps the reasons there were and adds its own.
LEMMA CircleSet ==
  ASSUME NEW b, NEW n, NEW claims, GoodBook(b, n, claims), NEW r \in Subjects(b),
         NEW c \in Nat, NEW why \in SUBSET Reasons, c > 1 => b.rel[r].why \cup why # {},
         \A x \in why \cap ClaimIds : x \in claims /\ Countersigned(x)
  PROVE  GoodBook(SetCircle(b, r, c, why), n, claims)
<1> DEFINE old == b.rel[r]
           e == [circle |-> c, state |-> "active", trust |-> old.trust, why |-> old.why \cup why]
<1>1. old \in EstimateType /\ WellEarned(old, claims)
  BY DEF GoodBook, Subjects, RelationshipBooks
<1>2. SetCircle(b, r, c, why) = [b EXCEPT !.rel[r] = e]
  BY DEF SetCircle
<1> HIDE DEF old
<1>3. /\ e \in EstimateType /\ e.state = "active" /\ e.circle = c /\ e.why = old.why \cup why
  BY <1>1 DEF EstimateType
<1> HIDE DEF e
<1>4. WellEarned(e, claims)
  BY <1>1, <1>3 DEF WellEarned, old
<1> QED
  BY <1>2, <1>3, <1>4, EstimateChanged

\* Trust and a pause or end of a relationship leave circle and reasons alone.
LEMMA TrustSet ==
  ASSUME NEW b, NEW n, NEW claims, GoodBook(b, n, claims), NEW r \in Subjects(b)
  PROVE  /\ GoodBook(SetTrust(b, r), n, claims)
         /\ \A s \in {"dormant", "ended"} :
              GoodBook([b EXCEPT !.rel[r] = [b.rel[r] EXCEPT !.state = s]], n, claims)
<1> DEFINE old == b.rel[r]
<1>1. old \in EstimateType /\ WellEarned(old, claims) /\ old.state # "none"
  BY DEF GoodBook, Subjects, RelationshipBooks, Valid, RelationsMatch
<1>2. SetTrust(b, r) = [b EXCEPT !.rel[r] = [old EXCEPT !.trust = TRUE]]
  BY DEF SetTrust
<1>3. GoodBook([b EXCEPT !.rel[r] = [old EXCEPT !.trust = TRUE]], n, claims)
  <2> DEFINE e == [old EXCEPT !.trust = TRUE]
  <2> HIDE DEF old
  <2>1. e \in EstimateType /\ e.state = old.state /\ e.circle = old.circle /\ e.why = old.why
    BY <1>1 DEF EstimateType
  <2> HIDE DEF e
  <2>2. WellEarned(e, claims) /\ e.state # "none"
    BY <1>1, <2>1 DEF WellEarned
  <2>3. GoodBook([b EXCEPT !.rel[r] = e], n, claims)
    BY <2>1, <2>2, EstimateChanged
  <2> QED
    BY <2>3 DEF e
<1>4. ASSUME NEW s \in {"dormant", "ended"}
      PROVE  GoodBook([b EXCEPT !.rel[r] = [old EXCEPT !.state = s]], n, claims)
  <2> DEFINE e == [old EXCEPT !.state = s]
  <2> HIDE DEF old
  <2>1. e \in EstimateType /\ e.state = s /\ e.circle = old.circle /\ e.why = old.why
    BY <1>1 DEF EstimateType
  <2> HIDE DEF e
  <2>2. WellEarned(e, claims) /\ e.state # "none"
    BY <1>1, <2>1 DEF WellEarned
  <2>3. GoodBook([b EXCEPT !.rel[r] = e], n, claims)
    BY <2>1, <2>2, EstimateChanged
  <2> QED
    BY <2>3 DEF e
<1> QED
  BY <1>2, <1>3, <1>4

\* observe_typed_actor gives a new actor, whose issuer is known, a subject that
\* no copy of the book has.
LEMMA ActorObserved ==
  ASSUME NEW b, NEW n \in Nat, NEW claims, GoodBook(b, n, claims), NEW a \in Actors,
         KnownIssuer(b, a), b.actor[a] = "none", n + 1 \in Refs
  PROVE  /\ GoodBook(Observe(b, a, n + 1), n + 1, claims)
         /\ n + 1 \in Subjects(Observe(b, a, n + 1))
         /\ a \in Observe(b, a, n + 1).links[n + 1]
<1> DEFINE r == n + 1
           e == [NoRelation EXCEPT !.state = "active"]
           c == Observe(b, a, r)
<1>1. b \in RelationshipBooks /\ Valid(b) /\ RefsInOrder(b, n) /\ r \in Refs /\ r > n
  BY DEF GoodBook
<1>2. /\ b.rel \in [Refs -> EstimateType] /\ b.actor \in [Actors -> {"none", "active", "revoked"}]
      /\ b.subject \in [Refs -> {"none", "active", "superseded"}] /\ b.links \in [Refs -> SUBSET Actors]
      /\ b.seen \subseteq Traffic \X Refs /\ b.moves \subseteq MoveType
  BY <1>1 DEF RelationshipBooks
<1>3. e \in EstimateType /\ e.state = "active" /\ e.circle = 0 /\ e.why = {}
  BY DEF EstimateType, NoRelation
<1>4. c = [b EXCEPT !.actor[a] = "active", !.subject[r] = "active", !.links[r] = {a}, !.rel[r] = e]
  BY DEF Observe
<1> HIDE DEF e, c, r
<1>5. /\ c.actor = [b.actor EXCEPT ![a] = "active"] /\ c.subject = [b.subject EXCEPT ![r] = "active"]
      /\ c.links = [b.links EXCEPT ![r] = {a}] /\ c.rel = [b.rel EXCEPT ![r] = e]
      /\ c.seen = b.seen /\ c.moves = b.moves /\ c.decided = b.decided
  BY <1>1, <1>4 DEF RelationshipBooks
<1>6. /\ [b.actor EXCEPT ![a] = "active"] \in [Actors -> {"none", "active", "revoked"}]
      /\ [b.subject EXCEPT ![r] = "active"] \in [Refs -> {"none", "active", "superseded"}]
      /\ [b.links EXCEPT ![r] = {a}] \in [Refs -> SUBSET Actors]
      /\ [b.rel EXCEPT ![r] = e] \in [Refs -> EstimateType]
  BY <1>2, <1>3
<1>7. c \in RelationshipBooks
  BY <1>1, <1>4, <1>6 DEF RelationshipBooks
<1>8. /\ c.actor[a] = "active" /\ \A x \in Actors \ {a} : c.actor[x] = b.actor[x]
      /\ c.subject[r] = "active" /\ c.links[r] = {a} /\ c.rel[r] = e
      /\ \A x \in Refs \ {r} : c.subject[x] = b.subject[x] /\ c.links[x] = b.links[x] /\ c.rel[x] = b.rel[x]
  BY <1>1, <1>2, <1>5
<1>9. Observed(c) = Observed(b) \cup {a} /\ a \notin Observed(b)
  BY <1>8 DEF Observed
<1>10. Subjects(c) = Subjects(b) \cup {r} /\ r \notin Subjects(b) /\ b.links[r] = {}
  BY <1>1, <1>8 DEF Subjects, RefsInOrder
<1>11. /\ r \in Primary(c, a)
       /\ \A x \in Observed(b) : Primary(b, x) \subseteq Primary(c, x)
  BY <1>1, <1>8, <1>10 DEF Primary, ActiveOnes, Subjects
<1>12. ActorsPlaced(c)
  <2>1. Issuer[a] \in Observed(c)
    BY <1>9, RelationAssumption DEF KnownIssuer, Observed
  <2>2. \A x \in Observed(b) : Issuer[x] \in Observed(b) /\ Primary(b, x) # {}
    BY <1>1 DEF Valid, ActorsPlaced
  <2>3. \A x \in Refs : c.links[x] \subseteq Observed(c)
    BY <1>1, <1>8, <1>9 DEF Valid, ActorsPlaced
  <2> QED
    BY <1>9, <1>11, <2>1, <2>2, <2>3 DEF ActorsPlaced
<1>13. RelationsMatch(c)
  BY <1>1, <1>3, <1>8, <1>10 DEF Valid, RelationsMatch
<1>14. EvidenceLinked(c)
  <2> SUFFICES ASSUME NEW s \in b.seen PROVE From[s[1]] \in c.links[s[2]]
    BY <1>5 DEF EvidenceLinked
  <2>1. s[2] \in Refs /\ From[s[1]] \in b.links[s[2]]
    BY <1>1, <1>2 DEF Valid, EvidenceLinked
  <2> QED
    BY <1>8, <1>10, <2>1
<1>15. MovesEnd(c)
  <2> SUFFICES ASSUME NEW m \in b.moves
               PROVE  (\A x \in m.from : c.subject[x] = "superseded") /\ m.to \subseteq Subjects(c)
    BY <1>5 DEF MovesEnd
  <2>1. /\ m.from \subseteq Refs /\ m.to \subseteq Subjects(b)
        /\ \A x \in m.from : b.subject[x] = "superseded"
    BY <1>1, <1>2 DEF Valid, MovesEnd, MoveType
  <2> QED
    BY <1>1, <1>8, <1>10, <2>1 DEF Subjects
<1>16. NoWayBack(c.moves) /\ DecidedOnce(c)
  BY <1>1, <1>5, <1>10 DEF Valid, DecidedOnce
<1>17. \A x \in Refs : WellEarned(c.rel[x], claims)
  BY <1>3, <1>8 DEF GoodBook, WellEarned
<1>18. RefsInOrder(c, r)
  <2> SUFFICES ASSUME NEW x \in Refs
               PROVE  /\ c.subject[x] = "none" => c.links[x] = {}
                      /\ x > r => c.subject[x] = "none"
    BY DEF RefsInOrder
  <2>1. x > r => x > n /\ x # r
    BY DEF r, Refs
  <2> QED
    BY <1>1, <1>8, <2>1 DEF RefsInOrder
<1>19. GoodBook(c, r, claims)
  BY <1>7, <1>12, <1>13, <1>14, <1>15, <1>16, <1>17, <1>18 DEF GoodBook, Valid
<1> QED
  BY <1>8, <1>10, <1>19 DEF c, r

\* record_interaction, for a packet of an actor of the subject.
LEMMA PacketRecorded ==
  ASSUME NEW b, NEW n, NEW claims, GoodBook(b, n, claims), NEW p \in Traffic,
         NEW r \in Subjects(b), From[p] \in b.links[r]
  PROVE  /\ GoodBook(RecordOnce(b, p, r), n, claims)
         /\ Subjects(RecordOnce(b, p, r)) = Subjects(b)
<1> DEFINE c == [b EXCEPT !.seen = @ \cup {<<p, r>>}]
<1>1. b \in RelationshipBooks /\ Valid(b) /\ RefsInOrder(b, n) /\ r \in Refs
  BY DEF GoodBook, Subjects
<1>2. b.seen \subseteq Traffic \X Refs
  BY <1>1 DEF RelationshipBooks
<1>3. b.seen \cup {<<p, r>>} \in SUBSET (Traffic \X Refs)
  BY <1>1, <1>2
<1>4. /\ c \in RelationshipBooks /\ c.seen = b.seen \cup {<<p, r>>}
      /\ c.actor = b.actor /\ c.subject = b.subject /\ c.links = b.links /\ c.rel = b.rel
      /\ c.moves = b.moves /\ c.decided = b.decided
  BY <1>1, <1>3 DEF RelationshipBooks
<1>5. RecordOnce(b, p, r) \in {b, c}
  BY DEF RecordOnce, Interaction
<1> HIDE DEF c
<1>6. Observed(c) = Observed(b) /\ Subjects(c) = Subjects(b) /\ \A a \in Actors : Primary(c, a) = Primary(b, a)
  BY <1>4 DEF Observed, Subjects, Primary, ActiveOnes
<1>7. EvidenceLinked(c)
  BY <1>1, <1>4 DEF Valid, EvidenceLinked
<1>8. ActorsPlaced(c)
  BY <1>1, <1>4, <1>6 DEF Valid, ActorsPlaced, Observed
<1>9. RelationsMatch(c) /\ MovesEnd(c) /\ NoWayBack(c.moves) /\ DecidedOnce(c)
  BY <1>1, <1>4, <1>6 DEF Valid, RelationsMatch, MovesEnd, DecidedOnce
<1>10. GoodBook(c, n, claims)
  BY <1>1, <1>4, <1>7, <1>8, <1>9 DEF GoodBook, Valid, RefsInOrder
<1> QED
  BY <1>5, <1>6, <1>10

\* relation-link adds an observed actor to an active subject.
LEMMA ActorLinked ==
  ASSUME NEW b, NEW n, NEW claims, GoodBook(b, n, claims), NEW a \in Observed(b),
         NEW r \in ActiveOnes(b)
  PROVE  GoodBook([b EXCEPT !.links[r] = @ \cup {a}], n, claims)
<1> DEFINE f == [b.links EXCEPT ![r] = @ \cup {a}]
           c == [b EXCEPT !.links[r] = @ \cup {a}]
<1>1. b \in RelationshipBooks /\ Valid(b) /\ RefsInOrder(b, n) /\ r \in Refs /\ a \in Actors
  BY DEF GoodBook, ActiveOnes, Observed
<1>2. b.links \in [Refs -> SUBSET Actors] /\ b.seen \subseteq Traffic \X Refs
  BY <1>1 DEF RelationshipBooks
<1>3. f \in [Refs -> SUBSET Actors]
  BY <1>1, <1>2
<1>4. /\ c \in RelationshipBooks /\ c.links = f
      /\ c.actor = b.actor /\ c.subject = b.subject /\ c.seen = b.seen /\ c.rel = b.rel
      /\ c.moves = b.moves /\ c.decided = b.decided
  BY <1>1, <1>3 DEF RelationshipBooks
<1>5. f[r] = b.links[r] \cup {a} /\ \A x \in Refs \ {r} : f[x] = b.links[x]
  BY <1>1, <1>2
<1> HIDE DEF c, f
<1>6. \A x \in Refs : b.links[x] \subseteq c.links[x]
  BY <1>4, <1>5
<1>7. /\ Observed(c) = Observed(b) /\ Subjects(c) = Subjects(b)
      /\ \A x \in Actors : Primary(b, x) \subseteq Primary(c, x)
  BY <1>4, <1>6 DEF Observed, Subjects, Primary, ActiveOnes
<1>8. EvidenceLinked(c)
  <2> SUFFICES ASSUME NEW s \in b.seen PROVE From[s[1]] \in c.links[s[2]]
    BY <1>4 DEF EvidenceLinked
  <2>1. s[2] \in Refs /\ From[s[1]] \in b.links[s[2]]
    BY <1>1, <1>2 DEF Valid, EvidenceLinked
  <2> QED
    BY <1>6, <2>1
<1>9. ActorsPlaced(c)
  <2>1. \A x \in Observed(b) : Issuer[x] \in Observed(b) /\ Primary(b, x) # {} /\ x \in Actors
    BY <1>1 DEF Valid, ActorsPlaced, Observed
  <2>2. \A x \in Refs : c.links[x] \subseteq Observed(b)
    BY <1>1, <1>4, <1>5 DEF Valid, ActorsPlaced
  <2> QED
    BY <1>7, <2>1, <2>2 DEF ActorsPlaced
<1>10. RelationsMatch(c) /\ MovesEnd(c) /\ NoWayBack(c.moves) /\ DecidedOnce(c)
  BY <1>1, <1>4, <1>7 DEF Valid, RelationsMatch, MovesEnd, DecidedOnce
<1>11. RefsInOrder(c, n)
  <2>1. b.subject[r] = "active"
    BY DEF ActiveOnes
  <2> QED
    BY <1>1, <1>4, <1>5, <2>1 DEF RefsInOrder
<1>12. GoodBook(c, n, claims)
  BY <1>4, <1>8, <1>9, <1>10, <1>11 DEF GoodBook, Valid
<1> QED
  BY <1>12 DEF c

\* A revoked actor stays in the book with its subjects.
LEMMA ActorRevoked ==
  ASSUME NEW b, NEW n, NEW claims, GoodBook(b, n, claims), NEW a \in Actors, b.actor[a] = "active"
  PROVE  GoodBook([b EXCEPT !.actor[a] = "revoked"], n, claims)
<1> DEFINE f == [b.actor EXCEPT ![a] = "revoked"]
           c == [b EXCEPT !.actor[a] = "revoked"]
<1>1. b \in RelationshipBooks /\ Valid(b) /\ RefsInOrder(b, n)
  BY DEF GoodBook
<1>2. b.actor \in [Actors -> {"none", "active", "revoked"}]
  BY <1>1 DEF RelationshipBooks
<1>3. f \in [Actors -> {"none", "active", "revoked"}]
  BY <1>2
<1>4. /\ c \in RelationshipBooks /\ c.actor = f
      /\ c.links = b.links /\ c.subject = b.subject /\ c.seen = b.seen /\ c.rel = b.rel
      /\ c.moves = b.moves /\ c.decided = b.decided
  BY <1>1, <1>3 DEF RelationshipBooks
<1>5. f[a] = "revoked" /\ \A x \in Actors \ {a} : f[x] = b.actor[x]
  BY <1>2
<1> HIDE DEF c, f
<1>6. /\ Observed(c) = Observed(b) /\ Subjects(c) = Subjects(b)
      /\ \A x \in Actors : Primary(c, x) = Primary(b, x)
  BY <1>4, <1>5 DEF Observed, Subjects, Primary, ActiveOnes
<1>7. ActorsPlaced(c)
  BY <1>1, <1>4, <1>6 DEF Valid, ActorsPlaced, Observed
<1>8. /\ EvidenceLinked(c) /\ RelationsMatch(c) /\ MovesEnd(c) /\ NoWayBack(c.moves) /\ DecidedOnce(c)
  BY <1>1, <1>4, <1>6 DEF Valid, EvidenceLinked, RelationsMatch, MovesEnd, DecidedOnce
<1>9. GoodBook(c, n, claims)
  BY <1>1, <1>4, <1>7, <1>8 DEF GoodBook, Valid, RefsInOrder
<1> QED
  BY <1>9 DEF c

\* A withdrawal is an event of its own; the estimate stays.
LEMMA WithdrawalNoted ==
  ASSUME NEW b, NEW n, NEW claims, GoodBook(b, n, claims), NEW c \in ClaimIds
  PROVE  GoodBook([b EXCEPT !.noted = @ \cup {c}], n, claims)
<1> DEFINE d == [b EXCEPT !.noted = @ \cup {c}]
<1>1. b \in RelationshipBooks /\ Valid(b) /\ RefsInOrder(b, n)
  BY DEF GoodBook
<1>2. /\ d \in RelationshipBooks /\ d.actor = b.actor
      /\ d.links = b.links /\ d.subject = b.subject /\ d.seen = b.seen /\ d.rel = b.rel
      /\ d.moves = b.moves /\ d.decided = b.decided
  BY <1>1 DEF RelationshipBooks
<1> HIDE DEF d
<1>3. /\ Observed(d) = Observed(b) /\ Subjects(d) = Subjects(b)
      /\ \A x \in Actors : Primary(d, x) = Primary(b, x)
  BY <1>2 DEF Observed, Subjects, Primary, ActiveOnes
<1>4. ActorsPlaced(d)
  BY <1>1, <1>2, <1>3 DEF Valid, ActorsPlaced, Observed
<1>5. /\ EvidenceLinked(d) /\ RelationsMatch(d) /\ MovesEnd(d) /\ NoWayBack(d.moves) /\ DecidedOnce(d)
  BY <1>1, <1>2, <1>3 DEF Valid, EvidenceLinked, RelationsMatch, MovesEnd, DecidedOnce
<1>6. GoodBook(d, n, claims)
  BY <1>1, <1>2, <1>4, <1>5 DEF GoodBook, Valid, RefsInOrder
<1> QED
  BY <1>6 DEF d

\* What is suggested concerns an active subject and was not decided before.
LEMMA SuggestionKind ==
  ASSUME NEW b \in RelationshipBooks, NEW s \in Suggestions(b)
  PROVE  /\ s \in [kind : {"circle", "trust"}, ref : Refs, basis : SUBSET Traffic]
         /\ s.ref \in Subjects(b) /\ \A d \in b.decided : d.what # s
<1>1. \A r, outcomes : Basis(b, r, outcomes) \in SUBSET Traffic
  <2>1. b.seen \subseteq Traffic \X Refs
    BY DEF RelationshipBooks
  <2> QED
    BY <2>1 DEF Basis
<1>2. s \in CircleSuggestions(b) \cup TrustSuggestions(b) /\ \A d \in b.decided : d.what # s
  BY DEF Suggestions
<1>3. \E kind \in {"circle", "trust"}, r \in ActiveOnes(b), outcomes \in SUBSET {"submitted", "completed"} :
        s = Suggest(b, kind, r, outcomes)
  BY <1>2 DEF CircleSuggestions, TrustSuggestions
<1>4. PICK kind \in {"circle", "trust"}, r \in ActiveOnes(b), outcomes \in SUBSET {"submitted", "completed"} :
        s = Suggest(b, kind, r, outcomes)
  BY <1>3
<1>5. r \in Refs /\ r \in Subjects(b)
  BY DEF ActiveOnes, Subjects
<1>6. s = [kind |-> kind, ref |-> r, basis |-> Basis(b, r, outcomes)]
  BY <1>4 DEF Suggest
<1> QED
  BY <1>1, <1>2, <1>5, <1>6

\* decide_suggestion records the decision once and, accepted, gives its reason.
LEMMA SuggestionDecided ==
  ASSUME NEW b, NEW n, NEW claims, GoodBook(b, n, claims), NEW s \in Suggestions(b),
         NEW how \in {"accepted", "rejected"}
  PROVE  GoodBook(Decide(b, s, how), n, claims)
<1> DEFINE new == b.decided \cup {Decision(s, how)}
           d == [b EXCEPT !.decided = @ \cup {Decision(s, how)}]
<1>1. b \in RelationshipBooks /\ Valid(b) /\ RefsInOrder(b, n)
  BY DEF GoodBook
<1>2. /\ s \in [kind : {"circle", "trust"}, ref : Refs, basis : SUBSET Traffic]
      /\ s.ref \in Subjects(b) /\ \A x \in b.decided : x.what # s
  BY <1>1, SuggestionKind
<1>3. Decision(s, how) \in DecisionType /\ Decision(s, how).what = s
  BY <1>2 DEF Decision, DecisionType
<1>4. b.decided \subseteq DecisionType
  BY <1>1 DEF RelationshipBooks
<1>5. new \in SUBSET DecisionType
  BY <1>3, <1>4
<1>6. /\ d \in RelationshipBooks /\ d.decided = new /\ d.actor = b.actor
      /\ d.links = b.links /\ d.subject = b.subject /\ d.seen = b.seen /\ d.rel = b.rel
      /\ d.moves = b.moves
  BY <1>1, <1>5 DEF RelationshipBooks
<1>7. Decide(b, s, how) = IF how = "rejected" THEN d
                          ELSE IF s.kind = "circle" THEN SetCircle(d, s.ref, 2, {"suggestion"})
                          ELSE SetTrust(d, s.ref)
  BY DEF Decide
<1> HIDE DEF d
<1>8. /\ Observed(d) = Observed(b) /\ Subjects(d) = Subjects(b)
      /\ \A x \in Actors : Primary(d, x) = Primary(b, x)
  BY <1>6 DEF Observed, Subjects, Primary, ActiveOnes
<1>9. DecidedOnce(d)
  <2>1. \A x, y \in new : x.what = y.what => x = y
    BY <1>1, <1>2, <1>3 DEF Valid, DecidedOnce
  <2>2. \A x \in new : x.what.ref \in Subjects(b)
    BY <1>1, <1>2, <1>3 DEF Valid, DecidedOnce
  <2> QED
    BY <1>6, <1>8, <2>1, <2>2 DEF DecidedOnce
<1>10. ActorsPlaced(d)
  BY <1>1, <1>6, <1>8 DEF Valid, ActorsPlaced, Observed
<1>11. /\ EvidenceLinked(d) /\ RelationsMatch(d) /\ MovesEnd(d) /\ NoWayBack(d.moves)
  BY <1>1, <1>6, <1>8 DEF Valid, EvidenceLinked, RelationsMatch, MovesEnd
<1>12. GoodBook(d, n, claims)
  BY <1>1, <1>6, <1>9, <1>10, <1>11 DEF GoodBook, Valid, RefsInOrder
<1>13. GoodBook(SetCircle(d, s.ref, 2, {"suggestion"}), n, claims)
  <2>1. {"suggestion"} \in SUBSET Reasons /\ {"suggestion"} \cap ClaimIds = {}
    BY RelationAssumption DEF Reasons
  <2>2. d.rel[s.ref].why \cup {"suggestion"} # {}
    OBVIOUS
  <2> QED
    BY <1>2, <1>8, <1>12, <2>1, <2>2, CircleSet
<1>14. GoodBook(SetTrust(d, s.ref), n, claims)
  BY <1>2, <1>8, <1>12, TrustSet
<1> QED
  BY <1>7, <1>12, <1>13, <1>14

\* _commit_subject_transition: the new subjects take over an estimate or start
\* with "known"; that the model is valid is checked before it is saved.
LEMMA SubjectsReplaced ==
  ASSUME NEW b, NEW n \in Nat, NEW k \in Nat, n <= k, NEW claims, GoodBook(b, n, claims),
         NEW from \in SUBSET Refs, NEW D \in SUBSET Refs, \A x \in D : n < x /\ x <= k,
         NEW parts \in [D -> SUBSET Actors], NEW heir \in [D -> Refs \cup {0}],
         Valid(ReplaceSubjects(b, from, parts, heir)),
         \A r \in from : b.subject[r] = "active"
  PROVE  GoodBook(ReplaceSubjects(b, from, parts, heir), k, claims)
<1> DEFINE c == ReplaceSubjects(b, from, parts, heir)
           su == [r \in Refs |-> IF r \in from THEN "superseded"
                                 ELSE IF r \in D THEN "active" ELSE b.subject[r]]
           li == [r \in Refs |-> IF r \in D THEN parts[r] ELSE b.links[r]]
           re == [r \in Refs |-> IF r \in D THEN Replacement(b, heir[r])
                                 ELSE IF r \in from /\ b.rel[r].state = "active"
                                 THEN [b.rel[r] EXCEPT !.state = "dormant"] ELSE b.rel[r]]
           mo == b.moves \cup {Move(from, D)}
<1>1. b \in RelationshipBooks /\ RefsInOrder(b, n) /\ \A r \in Refs : WellEarned(b.rel[r], claims)
  BY DEF GoodBook
<1>2. /\ b.rel \in [Refs -> EstimateType] /\ b.links \in [Refs -> SUBSET Actors]
      /\ b.subject \in [Refs -> {"none", "active", "superseded"}] /\ b.moves \subseteq MoveType
  BY <1>1 DEF RelationshipBooks
<1>3. DOMAIN parts = D
  OBVIOUS
<1>4. c = [b EXCEPT !.subject = su, !.links = li, !.rel = re, !.moves = mo]
  BY <1>3 DEF ReplaceSubjects
<1>5. su \in [Refs -> {"none", "active", "superseded"}] /\ li \in [Refs -> SUBSET Actors]
  BY <1>2
<1>6. mo \in SUBSET MoveType
  BY <1>2 DEF Move, MoveType
<1>7. \A r \in Refs : re[r] \in EstimateType /\ WellEarned(re[r], claims)
  <2> SUFFICES ASSUME NEW r \in Refs PROVE re[r] \in EstimateType /\ WellEarned(re[r], claims)
    OBVIOUS
  <2>1. b.rel[r] \in EstimateType /\ WellEarned(b.rel[r], claims)
    BY <1>1, <1>2
  <2>2. CASE r \in D
    <3>1. re[r] = Replacement(b, heir[r]) /\ heir[r] \in Refs \cup {0}
      BY <2>2
    <3>2. CASE heir[r] = 0
      <4>1. re[r] = [circle |-> 1, state |-> "active", trust |-> FALSE, why |-> {}]
        BY <3>1, <3>2 DEF Replacement, NoRelation
      <4> HIDE DEF re
      <4>2. re[r] \in EstimateType
        BY <4>1 DEF EstimateType
      <4>3. re[r].circle = 1 /\ re[r].why = {}
        BY <4>1
      <4> QED
        BY <4>2, <4>3 DEF WellEarned
    <3>3. CASE heir[r] # 0
      <4>1. re[r] = b.rel[heir[r]] /\ heir[r] \in Refs
        BY <3>1, <3>3 DEF Replacement
      <4> QED
        BY <1>1, <1>2, <4>1
    <3> QED
      BY <3>2, <3>3
  <2>3. CASE r \notin D
    <3> DEFINE old == b.rel[r]
               e == [old EXCEPT !.state = "dormant"]
    <3>1. re[r] \in {old, e}
      BY <2>3
    <3> HIDE DEF old
    <3>2. old \in EstimateType /\ WellEarned(old, claims)
      BY <2>1 DEF old
    <3>3. e \in EstimateType /\ e.circle = old.circle /\ e.why = old.why
      BY <3>2 DEF EstimateType
    <3> HIDE DEF e
    <3>4. WellEarned(e, claims)
      BY <3>2, <3>3 DEF WellEarned
    <3> QED
      BY <3>1, <3>2, <3>3, <3>4
  <2> QED
    BY <2>2, <2>3
<1>8. re \in [Refs -> EstimateType]
  BY <1>7
<1>9. \A r \in Refs : /\ su[r] = IF r \in from THEN "superseded" ELSE IF r \in D THEN "active" ELSE b.subject[r]
                      /\ li[r] = IF r \in D THEN parts[r] ELSE b.links[r]
  OBVIOUS
<1> HIDE DEF su, li, re, mo, c
<1>10. c \in RelationshipBooks
  BY <1>1, <1>4, <1>5, <1>6, <1>8 DEF RelationshipBooks
<1>11. c.subject = su /\ c.links = li /\ c.rel = re
  BY <1>1, <1>4 DEF RelationshipBooks
<1>12. RefsInOrder(c, k)
  <2> SUFFICES ASSUME NEW r \in Refs
               PROVE  /\ su[r] = "none" => li[r] = {}
                      /\ r > k => su[r] = "none"
    BY <1>11 DEF RefsInOrder
  <2>1. su[r] = "none" => li[r] = {}
    BY <1>1, <1>9 DEF RefsInOrder
  <2>2. ASSUME r > k PROVE su[r] = "none"
    <3>1. r \notin D /\ r > n
      BY <2>2 DEF Refs
    <3>2. b.subject[r] = "none" /\ r \notin from
      BY <1>1, <3>1 DEF RefsInOrder
    <3> QED
      BY <1>9, <3>1, <3>2
  <2> QED
    BY <2>1, <2>2
<1>13. Valid(c)
  BY DEF c
<1>14. GoodBook(c, k, claims)
  BY <1>7, <1>10, <1>11, <1>12, <1>13 DEF GoodBook
<1> QED
  BY <1>14 DEF c

\* A process saves what it has in hand; a process opens the book.
LEMMA HandSaved ==
  ASSUME NEW at, NEW b, NEW on, NEW r, NEW c
  PROVE  /\ [[at |-> at, book |-> b, on |-> on, ref |-> r] EXCEPT !.book = c]
              = [at |-> at, book |-> c, on |-> on, ref |-> r]
         /\ BookOpen = [at |-> "idle", book |-> EmptyBook, on |-> Nobody, ref |-> 0]
<1>1. [[at |-> at, book |-> b, on |-> on, ref |-> r] EXCEPT !.book = c]
        = [at |-> at, book |-> c, on |-> on, ref |-> r]
  OBVIOUS
<1>2. BookOpen = [at |-> "idle", book |-> EmptyBook, on |-> Nobody, ref |-> 0]
  BY DEF BookOpen, NoBook
<1> QED
  BY <1>1, <1>2

\* An empty book is a good one, and so is a process that has nothing to do.
LEMMA HandsFree ==
  ASSUME NEW n \in Nat, NEW claims
  PROVE  /\ GoodBook(EmptyBook, n, claims)
         /\ CommandInHand(NoBook, n, claims) /\ NodeInHand(NoBook, n, claims)
         /\ \A b : GoodBook(b, n, claims) =>
              /\ CommandInHand([BookClosed EXCEPT !.book = b], n, claims)
              /\ CommandInHand([BookOpen EXCEPT !.book = b], n, claims)
              /\ NodeInHand([BookOpen EXCEPT !.book = b], n, claims)
<1>1. /\ EmptyBook \in RelationshipBooks
      /\ EmptyBook.moves = {} /\ EmptyBook.decided = {} /\ EmptyBook.seen = {}
      /\ \A a \in Actors : EmptyBook.actor[a] = "none"
      /\ \A r \in Refs : /\ EmptyBook.subject[r] = "none" /\ EmptyBook.links[r] = {}
                         /\ EmptyBook.rel[r] = NoRelation
  <2>1. NoRelation \in EstimateType
    BY DEF NoRelation, EstimateType
  <2> QED
    BY <2>1 DEF EmptyBook, RelationshipBooks
<1>2. Observed(EmptyBook) = {} /\ Subjects(EmptyBook) = {}
  BY <1>1 DEF Observed, Subjects
<1>3. \A r \in Refs : EmptyBook.rel[r].state = "none" /\ WellEarned(EmptyBook.rel[r], claims)
  BY <1>1 DEF NoRelation, WellEarned
<1>4. NoWayBack(EmptyBook.moves)
  BY <1>1 DEF NoWayBack
<1>5. Valid(EmptyBook)
  BY <1>1, <1>2, <1>3, <1>4
     DEF Valid, ActorsPlaced, RelationsMatch, EvidenceLinked, MovesEnd, DecidedOnce
<1>6. GoodBook(EmptyBook, n, claims)
  BY <1>1, <1>3, <1>5 DEF GoodBook, RefsInOrder
<1>7. NoBook \in Hands /\ NoBook.at = "off" /\ NoBook.book = EmptyBook
  BY <1>1 DEF NoBook, Hands
<1>8. ASSUME NEW b, GoodBook(b, n, claims)
      PROVE  /\ CommandInHand([BookClosed EXCEPT !.book = b], n, claims)
             /\ CommandInHand([BookOpen EXCEPT !.book = b], n, claims)
             /\ NodeInHand([BookOpen EXCEPT !.book = b], n, claims)
  <2> DEFINE c == [BookClosed EXCEPT !.book = b]
             o == [BookOpen EXCEPT !.book = b]
  <2>1. b \in RelationshipBooks
    BY <1>8 DEF GoodBook
  <2>2. c = [at |-> "off", book |-> b, on |-> Nobody, ref |-> 0]
    BY DEF BookClosed, NoBook
  <2>3. o = [at |-> "idle", book |-> b, on |-> Nobody, ref |-> 0]
    BY HandSaved
  <2> HIDE DEF c, o
  <2>4. c \in Hands /\ c.at = "off" /\ c.book = b
    BY <2>1, <2>2 DEF Hands
  <2>5. o \in Hands /\ o.at = "idle" /\ o.book = b
    BY <2>1, <2>3 DEF Hands
  <2>6. CommandInHand(c, n, claims) /\ CommandInHand(o, n, claims) /\ NodeInHand(o, n, claims)
    BY <1>8, <2>4, <2>5 DEF CommandInHand, NodeInHand
  <2> QED
    BY <2>6 DEF c, o
<1> QED
  BY <1>6, <1>7, <1>8 DEF CommandInHand, NodeInHand

\* A step of a command: it leaves the node's copy alone.
LEMMA BookOfCommandMoves ==
  ASSUME RelationInv, minted' \in Nat, minted <= minted', agreed \subseteq agreed',
         agreed' \subseteq ClaimIds, NEW m, mem' = [mem EXCEPT !["cli"] = m],
         CommandInHand(m, minted', agreed'), GoodBook(shelf', minted', agreed')
  PROVE  RelationInv'
<1>1. mem = [q \in {"cli", "node"} |-> mem[q]] /\ NodeInHand(mem["node"], minted, agreed) /\ minted \in Nat
  BY DEF RelationInv
<1>2. mem'["cli"] = m /\ mem'["node"] = mem["node"] /\ mem' = [q \in {"cli", "node"} |-> mem'[q]]
  BY <1>1
<1>3. GoodBook(mem["node"].book, minted', agreed')
  BY <1>1, BookStaysGood DEF NodeInHand
<1>4. NodeInHand(mem["node"], minted', agreed')
  BY <1>1, <1>3 DEF NodeInHand
<1> QED
  BY <1>2, <1>4 DEF RelationInv

\* A step of the node: it leaves the command's copy alone.
LEMMA BookOfNodeMoves ==
  ASSUME RelationInv, minted' \in Nat, minted <= minted', UNCHANGED agreed,
         NEW m, mem' = [mem EXCEPT !["node"] = m],
         NodeInHand(m, minted', agreed), GoodBook(shelf', minted', agreed)
  PROVE  RelationInv'
<1>1. /\ mem = [q \in {"cli", "node"} |-> mem[q]] /\ CommandInHand(mem["cli"], minted, agreed)
      /\ minted \in Nat /\ agreed \subseteq ClaimIds
  BY DEF RelationInv
<1>2. mem'["node"] = m /\ mem'["cli"] = mem["cli"] /\ mem' = [q \in {"cli", "node"} |-> mem'[q]]
  BY <1>1
<1>3. GoodBook(mem["cli"].book, minted', agreed)
  BY <1>1, BookStaysGood DEF CommandInHand
<1>4. CommandInHand(mem["cli"], minted', agreed)
  BY <1>1, <1>3 DEF CommandInHand
<1> QED
  BY <1>1, <1>2, <1>4 DEF RelationInv

\* A command that saves once and ends.
LEMMA CommandCommits ==
  ASSUME RelationInv, minted' \in Nat, minted <= minted', NEW b, GoodBook(b, minted', agreed), Commits(b)
  PROVE  RelationInv'
<1>1. /\ shelf' = b /\ mem' = [mem EXCEPT !["cli"] = [BookClosed EXCEPT !.book = b]]
      /\ agreed' = agreed /\ agreed \subseteq ClaimIds
  BY DEF Commits, SaveBook, RelationInv, claimVars
<1>2. CommandInHand([BookClosed EXCEPT !.book = b], minted', agreed)
  BY HandsFree
<1> QED
  BY <1>1, <1>2, BookOfCommandMoves

\* The first save of a confirmation; a claim that is the reason is on file.
LEMMA ConfirmSaves ==
  ASSUME RelationInv, NEW at, NEW a \in Actors, NEW why \in Reasons,
         why \in ClaimIds => why \in agreed /\ Countersigned(why), Confirm(at, a, why)
  PROVE  RelationInv'
<1> DEFINE b == mem["cli"].book
           n == IF b.actor[a] = "none" THEN minted + 1 ELSE minted
<1>1. /\ minted \in Nat /\ agreed \subseteq ClaimIds /\ GoodBook(shelf, minted, agreed)
      /\ GoodBook(b, minted, agreed)
  BY DEF RelationInv, CommandInHand
<1>2. minted' = n /\ n \in Nat /\ minted <= n /\ agreed' = agreed /\ Issuer[a] = a
  BY <1>1 DEF Confirm, claimVars
<1>3. PICK r \in IF b.actor[a] = "none" THEN {minted + 1} ELSE Primary(b, a) :
        /\ r <= MaxSubjects
        /\ \/ mem' = [mem EXCEPT !["cli"] = BookClosed] /\ UNCHANGED shelf
           \/ SaveBook("cli", Observe(b, a, r), [at |-> "circle", book |-> b, on |-> why, ref |-> r])
  BY DEF Confirm
<1>4. GoodBook(shelf, n, agreed)
  BY <1>1, <1>2, BookStaysGood
<1>5. CASE mem' = [mem EXCEPT !["cli"] = BookClosed] /\ UNCHANGED shelf
  <2>1. CommandInHand(BookClosed, n, agreed)
    BY <1>2, HandsFree DEF BookClosed
  <2> QED
    BY <1>1, <1>2, <1>4, <1>5, <2>1, BookOfCommandMoves
<1>6. CASE SaveBook("cli", Observe(b, a, r), [at |-> "circle", book |-> b, on |-> why, ref |-> r])
  <2> DEFINE c == Observe(b, a, r)
             m == [at |-> "circle", book |-> c, on |-> why, ref |-> r]
  <2>1. GoodBook(c, n, agreed) /\ r \in Subjects(c)
    <3>1. CASE b.actor[a] = "none"
      <4>1. r = minted + 1 /\ r \in Refs /\ n = minted + 1
        BY <1>1, <1>3, <3>1, RelationAssumption DEF Refs
      <4>2. KnownIssuer(b, a)
        BY <1>2 DEF KnownIssuer
      <4> QED
        BY <1>1, <3>1, <4>1, <4>2, ActorObserved
    <3>2. CASE b.actor[a] # "none"
      <4>1. c = b /\ r \in Primary(b, a) /\ n = minted
        BY <1>3, <3>2 DEF Observe
      <4> QED
        BY <1>1, <4>1 DEF Primary, ActiveOnes, Subjects
    <3> QED
      BY <3>1, <3>2
  <2> DEFINE was == [at |-> "circle", book |-> b, on |-> why, ref |-> r]
  <2>2. shelf' = c /\ mem' = [mem EXCEPT !["cli"] = [was EXCEPT !.book = c]]
    BY <1>6 DEF SaveBook
  <2> HIDE DEF b, c
  <2>3. [was EXCEPT !.book = c] = m
    BY HandSaved
  <2>4. r \in Nat
    BY <2>1, RelationAssumption DEF Subjects, Refs
  <2>5. m \in Hands /\ m.at = "circle" /\ m.book = c /\ m.on = why /\ m.ref = r
    BY <2>1, <2>4 DEF Hands, GoodBook
  <2> HIDE DEF m
  <2>6. CommandInHand(m, n, agreed)
    BY <2>1, <2>5 DEF CommandInHand
  <2> HIDE DEF n
  <2> QED
    BY <1>1, <1>2, <2>1, <2>2, <2>3, <2>6, BookOfCommandMoves
<1> QED
  BY <1>3, <1>5, <1>6

\* The three transitions hand out the references that follow.
LEMMA TransitionSaves ==
  ASSUME RelationInv, NEW D, NEW from \in SUBSET Refs, Cardinality(D) \in Nat,
         \A x \in D : x \in Nat /\ minted < x /\ x <= minted + Cardinality(D),
         NEW parts \in [D -> SUBSET Actors], NEW heir \in [D -> Refs \cup {0}],
         Transition(from, parts, heir)
  PROVE  RelationInv'
<1> DEFINE b == mem["cli"].book
           c == ReplaceSubjects(b, from, parts, heir)
<1>1. minted \in Nat /\ GoodBook(b, minted, agreed)
  BY DEF RelationInv, CommandInHand
<1>2. DOMAIN parts = D
  OBVIOUS
<1>3. /\ from \subseteq ActiveOnes(b) /\ minted + Cardinality(D) <= MaxSubjects
      /\ minted' = minted + Cardinality(D) /\ Valid(c) /\ Commits(c)
  BY <1>2 DEF Transition
<1> HIDE DEF b
<1>4. minted' \in Nat /\ minted <= minted' /\ \A x \in D : minted < x /\ x <= minted'
  BY <1>1, <1>3
<1>5. D \in SUBSET Refs
  BY <1>1, <1>3, RelationAssumption DEF Refs
<1>6. \A r \in from : b.subject[r] = "active"
  BY <1>3 DEF ActiveOnes
<1>7. GoodBook(c, minted', agreed)
  BY <1>1, <1>3, <1>4, <1>5, <1>6, SubjectsReplaced
<1> HIDE DEF c
<1> QED
  BY <1>3, <1>4, <1>7, CommandCommits

\* supersede_subject, merge_subjects and split_subject.
LEMMA SubjectsMove ==
  ASSUME RelationInv
  PROVE  /\ \A r \in Refs : Supersede(r) => RelationInv'
         /\ \A from \in SUBSET Refs, heir \in Refs \cup {0} : Merge(from, heir) => RelationInv'
         /\ \A r \in Refs, part \in SUBSET Actors, heir \in Refs \cup {0} :
              Split(r, part, heir) => RelationInv'
<1> DEFINE b == mem["cli"].book
<1>1. minted \in Nat /\ b.links \in [Refs -> SUBSET Actors]
  BY DEF RelationInv, CommandInHand, GoodBook, RelationshipBooks
<1> DEFINE one == {minted + 1}
           two == {minted + 1, minted + 2}
<1>2. /\ Cardinality(one) = 1
      /\ \A x \in one : x \in Nat /\ minted < x /\ x <= minted + Cardinality(one)
  <2>1. Cardinality(one) = 1
    BY FS_Singleton
  <2> QED
    BY <1>1, <2>1
<1>3. /\ Cardinality(two) = 2
      /\ \A x \in two : x \in Nat /\ minted < x /\ x <= minted + Cardinality(two)
  <2>1. minted + 2 \notin one /\ two = one \cup {minted + 2}
    BY <1>1
  <2>2. IsFiniteSet(one)
    BY FS_Singleton
  <2> HIDE DEF one, two
  <2>3. Cardinality(two) = 2
    BY <1>2, <2>1, <2>2, FS_AddElement
  <2> QED
    BY <1>1, <2>3 DEF two
<1>4. ASSUME NEW r \in Refs, Supersede(r) PROVE RelationInv'
  <2> DEFINE parts == [n \in one |-> b.links[r]]
             heirs == [n \in one |-> r]
  <2>1. parts \in [one -> SUBSET Actors] /\ heirs \in [one -> Refs \cup {0}] /\ {r} \in SUBSET Refs
    BY <1>1
  <2>2. Transition({r}, parts, heirs)
    BY <1>4 DEF Supersede
  <2> HIDE DEF one, parts, heirs
  <2> QED
    BY <1>2, <2>1, <2>2, TransitionSaves
<1>5. ASSUME NEW from \in SUBSET Refs, NEW heir \in Refs \cup {0}, Merge(from, heir) PROVE RelationInv'
  <2> DEFINE parts == [n \in one |-> UNION {b.links[r] : r \in from}]
             heirs == [n \in one |-> heir]
  <2>1. parts \in [one -> SUBSET Actors] /\ heirs \in [one -> Refs \cup {0}]
    <3>1. UNION {b.links[r] : r \in from} \in SUBSET Actors
      BY <1>1
    <3> QED
      BY <3>1
  <2>2. Transition(from, parts, heirs)
    BY <1>5 DEF Merge
  <2> HIDE DEF one, parts, heirs
  <2> QED
    BY <1>2, <2>1, <2>2, TransitionSaves
<1>6. ASSUME NEW r \in Refs, NEW part \in SUBSET Actors, NEW heir \in Refs \cup {0},
             Split(r, part, heir)
      PROVE  RelationInv'
  <2> DEFINE parts == [n \in two |-> IF n = minted + 1 THEN part ELSE b.links[r] \ part]
             heirs == [n \in two |-> IF n = minted + 1 THEN heir ELSE 0]
  <2>1. parts \in [two -> SUBSET Actors] /\ heirs \in [two -> Refs \cup {0}] /\ {r} \in SUBSET Refs
    BY <1>1
  <2>2. Transition({r}, parts, heirs)
    BY <1>6 DEF Split
  <2> HIDE DEF two, parts, heirs
  <2> QED
    BY <1>3, <2>1, <2>2, TransitionSaves
<1> QED
  BY <1>4, <1>5, <1>6

\* What a command does in one step.
LEMMA CommandSteps == RelationInv /\ CommandNext => RelationInv'
<1> SUFFICES ASSUME RelationInv, CommandNext PROVE RelationInv'
  OBVIOUS
<1> DEFINE m == mem["cli"]
           b == m.book
<1>1. /\ minted \in Nat /\ agreed \subseteq ClaimIds /\ GoodBook(shelf, minted, agreed)
      /\ m \in Hands /\ b \in RelationshipBooks /\ GoodBook(b, minted, agreed)
      /\ CommandInHand(m, minted, agreed) /\ minted <= minted
  BY DEF RelationInv, CommandInHand, GoodBook
<1>2. ASSUME NEW c, CommitsQuietly(c), GoodBook(c, minted, agreed) PROVE RelationInv'
  <2>1. Commits(c) /\ minted' = minted
    BY <1>2 DEF CommitsQuietly
  <2> QED
    BY <1>1, <1>2, <2>1, CommandCommits
<1>3. ASSUME OpenBook PROVE RelationInv'
  <2> DEFINE o == [BookOpen EXCEPT !.book = shelf]
  <2>1. CommandInHand(o, minted, agreed)
    BY <1>1, HandsFree
  <2>2. mem' = [mem EXCEPT !["cli"] = o] /\ UNCHANGED <<shelf, minted, agreed>>
    BY <1>3 DEF OpenBook, claimVars
  <2> HIDE DEF o
  <2> QED
    BY <1>1, <2>1, <2>2, BookOfCommandMoves
<1>4. ASSUME CommandEnds PROVE RelationInv'
  <2>1. CommandInHand(NoBook, minted, agreed)
    BY <1>1, HandsFree
  <2>2. mem' = [mem EXCEPT !["cli"] = NoBook] /\ UNCHANGED <<shelf, minted, agreed>>
    BY <1>4 DEF CommandEnds, claimVars
  <2> QED
    BY <1>1, <2>1, <2>2, BookOfCommandMoves
<1>5. ASSUME NEW a \in Actors, KnownIssuer(b, a), minted < MaxSubjects, NEW c,
             c = Observe(b, a, minted + 1)
      PROVE  GoodBook(c, minted + 1, agreed)
  <2>1. CASE b.actor[a] = "none"
    <3>1. minted + 1 \in Refs
      BY <1>1, <1>5, RelationAssumption DEF Refs
    <3> QED
      BY <1>1, <1>5, <2>1, <3>1, ActorObserved
  <2>2. CASE b.actor[a] # "none"
    <3>1. c = b
      BY <1>5, <2>2 DEF Observe
    <3>2. minted + 1 \in Nat /\ minted <= minted + 1
      BY <1>1
    <3> QED
      BY <1>1, <3>1, <3>2, BookStaysGood
  <2> QED
    BY <2>1, <2>2
<1>6. ASSUME NEW a \in Actors, ObserveActor(a) PROVE RelationInv'
  <2> DEFINE c == Observe(b, a, minted + 1)
  <2>1. KnownIssuer(b, a) /\ minted < MaxSubjects /\ minted' = minted + 1 /\ Commits(c)
    BY <1>6 DEF ObserveActor
  <2>2. GoodBook(c, minted', agreed)
    BY <1>5, <2>1
  <2>3. minted' \in Nat /\ minted <= minted'
    BY <1>1, <2>1
  <2> HIDE DEF c
  <2> QED
    BY <2>1, <2>2, <2>3, CommandCommits
<1>7. ASSUME NEW a \in Actors, RevokeActor(a) PROVE RelationInv'
  <2>1. b.actor[a] = "active" /\ CommitsQuietly([b EXCEPT !.actor[a] = "revoked"])
    BY <1>7 DEF RevokeActor
  <2>2. GoodBook([b EXCEPT !.actor[a] = "revoked"], minted, agreed)
    BY <1>1, <2>1, ActorRevoked
  <2> QED
    BY <1>2, <2>1, <2>2
<1>8. ASSUME NEW a \in Actors, ScanInvite(a) \/ ScanAcceptance(a) PROVE RelationInv'
  <2>1. Confirm("idle", a, "friend")
    BY <1>8 DEF ScanInvite, ScanAcceptance
  <2>2. "friend" \in Reasons /\ "friend" \notin ClaimIds
    BY RelationAssumption DEF Reasons
  <2> QED
    BY <2>1, <2>2, ConfirmSaves
<1>9. ASSUME NEW r \in Refs, Trust(r) PROVE RelationInv'
  <2>1. r \in Subjects(b) /\ CommitsQuietly(SetTrust(b, r))
    BY <1>9 DEF Trust
  <2>2. GoodBook(SetTrust(b, r), minted, agreed)
    BY <1>1, <2>1, TrustSet
  <2> QED
    BY <1>2, <2>1, <2>2
<1>10. ASSUME NEW r \in Refs, NEW c \in AskedCircles, Circle(r, c) PROVE RelationInv'
  <2>1. r \in Subjects(b) /\ CommitsQuietly(SetCircle(b, r, c, {"command"}))
    BY <1>10 DEF Circle
  <2>2. /\ c \in Nat /\ {"command"} \in SUBSET Reasons /\ {"command"} \cap ClaimIds = {}
        /\ b.rel[r].why \cup {"command"} # {}
    BY RelationAssumption DEF Reasons
  <2>3. GoodBook(SetCircle(b, r, c, {"command"}), minted, agreed)
    BY <1>1, <2>1, <2>2, CircleSet
  <2> QED
    BY <1>2, <2>1, <2>3
<1>11. ASSUME NEW r \in Refs, NEW s \in {"dormant", "ended"}, SetState(r, s) PROVE RelationInv'
  <2> DEFINE c == [b EXCEPT !.rel[r] = [b.rel[r] EXCEPT !.state = s]]
  <2>1. r \in Subjects(b) /\ CommitsQuietly(c)
    BY <1>11 DEF SetState
  <2>2. GoodBook(c, minted, agreed)
    BY <1>1, <2>1, TrustSet
  <2> HIDE DEF c
  <2> QED
    BY <1>2, <2>1, <2>2
<1>12. ASSUME NEW r \in Refs, NEW a \in Actors, LinkActor(a, r) PROVE RelationInv'
  <2> DEFINE c == [b EXCEPT !.links[r] = @ \cup {a}]
  <2>1. a \in Observed(b) /\ r \in ActiveOnes(b) /\ CommitsQuietly(c)
    BY <1>12 DEF LinkActor
  <2>2. GoodBook(c, minted, agreed)
    BY <1>1, <2>1, ActorLinked
  <2> HIDE DEF c
  <2> QED
    BY <1>2, <2>1, <2>2
<1>13. ASSUME NEW s, NEW how, DecideSuggestion(s, how) PROVE RelationInv'
  <2>1. s \in Suggestions(b) /\ how \in {"accepted", "rejected"} /\ CommitsQuietly(Decide(b, s, how))
    BY <1>13 DEF DecideSuggestion
  <2>2. GoodBook(Decide(b, s, how), minted, agreed)
    BY <1>1, <2>1, SuggestionDecided
  <2> QED
    BY <1>2, <2>1, <2>2
<1>14. ASSUME NEW c \in ClaimIds, StoreClaim(c) PROVE RelationInv'
  <2> DEFINE o == [m EXCEPT !.at = "claim", !.on = c, !.book = shelf]
  <2>1. /\ mem' = [mem EXCEPT !["cli"] = o] /\ UNCHANGED <<shelf, minted>>
        /\ agreed' = agreed \cup {c} /\ Countersigned(c)
    BY <1>14 DEF StoreClaim, AddClaim, OpenAfterwards
  <2>2. GoodBook(shelf, minted, agreed')
    BY <1>1, <2>1, BookStaysGood
  <2>3. shelf \in RelationshipBooks /\ c \in Reasons
    BY <1>1 DEF GoodBook, Reasons
  <2> HIDE DEF m
  <2>4. o \in Hands /\ o.at = "claim" /\ o.on = c /\ o.book = shelf
    BY <1>1, <2>3 DEF Hands
  <2> HIDE DEF o
  <2>5. CommandInHand(o, minted, agreed')
    BY <2>1, <2>2, <2>4 DEF CommandInHand
  <2> QED
    BY <1>1, <2>1, <2>2, <2>5, BookOfCommandMoves
<1>15. ASSUME NEW c \in ClaimIds, ImportClaim(c) PROVE RelationInv'
  <2>1. Confirm("claim", ClaimPeer[c], c) /\ m.on = c
    BY <1>15 DEF ImportClaim
  <2>2. m.at = "claim"
    BY <2>1 DEF Confirm
  <2>3. c \in agreed /\ Countersigned(c) /\ c \in Reasons /\ ClaimPeer[c] \in Actors
    BY <1>1, <2>1, <2>2, RelationAssumption DEF CommandInHand, Reasons
  <2> QED
    BY <2>1, <2>3, ConfirmSaves
<1>16. ASSUME NEW c \in ClaimIds, StoreWithdrawal(c) PROVE RelationInv'
  <2> DEFINE o == [m EXCEPT !.at = "withdrawal", !.on = c, !.book = shelf]
  <2>1. mem' = [mem EXCEPT !["cli"] = o] /\ UNCHANGED <<shelf, minted, agreed>>
    BY <1>16 DEF StoreWithdrawal, AddWithdrawal, OpenAfterwards
  <2>2. shelf \in RelationshipBooks /\ c \in Reasons
    BY <1>1 DEF GoodBook, Reasons
  <2> HIDE DEF m
  <2>3. o \in Hands /\ o.at = "withdrawal" /\ o.on = c /\ o.book = shelf
    BY <1>1, <2>2 DEF Hands
  <2> HIDE DEF o
  <2>4. CommandInHand(o, minted, agreed)
    BY <1>1, <2>3 DEF CommandInHand
  <2> QED
    BY <1>1, <2>1, <2>4, BookOfCommandMoves
<1>17. ASSUME ConfirmCircle PROVE RelationInv'
  <2> DEFINE asked == IF m.on \in ClaimIds THEN ClaimCircle[m.on] ELSE 3
             had == b.rel[m.ref].circle
             new == IF had >= asked THEN had ELSE asked
             c == SetCircle(b, m.ref, new, {m.on})
             o == [BookClosed EXCEPT !.book = c]
  <2>1. /\ m.at = "circle" /\ shelf' = c /\ mem' = [mem EXCEPT !["cli"] = o]
        /\ UNCHANGED <<minted, agreed>>
    BY <1>17 DEF ConfirmCircle, SaveBook, claimVars
  <2>2. /\ m.ref \in Subjects(b) /\ m.on \in Reasons
        /\ m.on \in ClaimIds => m.on \in agreed /\ Countersigned(m.on)
    BY <1>1, <2>1 DEF CommandInHand
  <2>3. had \in Nat /\ asked \in Nat
    BY <1>1, <2>2, RelationAssumption DEF RelationshipBooks, EstimateType, Subjects
  <2> HIDE DEF had, asked
  <2>4. new \in Nat
    BY <2>3
  <2> HIDE DEF new
  <2>5. {m.on} \in SUBSET Reasons /\ b.rel[m.ref].why \cup {m.on} # {}
    BY <2>2
  <2>6. GoodBook(c, minted, agreed)
    BY <1>1, <2>2, <2>4, <2>5, CircleSet
  <2> HIDE DEF c
  <2>7. CommandInHand(o, minted, agreed)
    BY <1>1, <2>6, HandsFree
  <2> HIDE DEF o
  <2> QED
    BY <1>1, <2>1, <2>6, <2>7, BookOfCommandMoves
<1>18. ASSUME NoteWithdrawal PROVE RelationInv'
  <2> DEFINE a == ClaimPeer[m.on]
             n == IF b.actor[a] = "none" THEN minted + 1 ELSE minted
             d == Observe(b, a, minted + 1)
             c == [d EXCEPT !.noted = @ \cup {m.on}]
             o == [BookClosed EXCEPT !.book = c]
  <2>1. /\ m.at = "withdrawal" /\ shelf' = c /\ mem' = [mem EXCEPT !["cli"] = o]
        /\ b.actor[a] = "none" => minted < MaxSubjects
        /\ minted' = n /\ UNCHANGED agreed
    BY <1>18 DEF NoteWithdrawal, SaveBook, claimVars
  <2>2. m.on \in ClaimIds
    BY <1>1, <2>1 DEF CommandInHand
  <2>3. a \in Actors /\ KnownIssuer(b, a)
    BY <2>2, RelationAssumption DEF KnownIssuer
  <2>4. n \in Nat /\ minted <= n
    BY <1>1
  <2>5. GoodBook(d, n, agreed)
    <3>1. CASE b.actor[a] = "none"
      BY <1>5, <2>1, <2>3, <3>1
    <3>2. CASE b.actor[a] # "none"
      BY <1>1, <3>2 DEF Observe
    <3> QED
      BY <3>1, <3>2
  <2> HIDE DEF d, n
  <2>6. GoodBook(c, n, agreed)
    BY <2>2, <2>5, WithdrawalNoted
  <2> HIDE DEF c
  <2>7. CommandInHand(o, n, agreed)
    BY <2>4, <2>6, HandsFree
  <2> HIDE DEF o
  <2> QED
    BY <1>1, <2>1, <2>4, <2>6, <2>7, BookOfCommandMoves
<1>19. ASSUME NEW r \in Refs, NEW part \in SUBSET Actors, NEW heir \in {0, r}, Split(r, part, heir)
       PROVE  RelationInv'
  <2>1. heir \in Refs \cup {0}
    OBVIOUS
  <2> QED
    BY <1>19, <2>1, SubjectsMove
<1>20. ASSUME OpenClaims PROVE RelationInv'
  <2> DEFINE o == [m EXCEPT !.at = "claims"]
  <2>1. mem' = [mem EXCEPT !["cli"] = o] /\ UNCHANGED <<shelf, minted, agreed>>
    BY <1>20 DEF OpenClaims, LoadClaims
  <2> HIDE DEF m
  <2>2. o \in Hands /\ o.at = "claims" /\ o.book = b
    BY <1>1 DEF Hands
  <2> HIDE DEF o
  <2>3. CommandInHand(o, minted, agreed)
    BY <1>1, <2>2 DEF CommandInHand
  <2> QED
    BY <1>1, <2>1, <2>3, BookOfCommandMoves
<1>21. ASSUME OtherOpensClaims PROVE RelationInv'
  BY <1>21 DEF OtherOpensClaims, LoadClaims, RelationInv
<1>22. ASSUME NEW c \in ClaimIds, OtherStores(c) PROVE RelationInv'
  <2>1. /\ UNCHANGED <<shelf, mem, minted>> /\ agreed \subseteq agreed'
        /\ agreed' \subseteq ClaimIds
    BY <1>1, <1>22 DEF OtherStores, AddClaim, AddWithdrawal
  <2>2. mem' = [mem EXCEPT !["cli"] = m]
    BY <2>1 DEF RelationInv
  <2>3. GoodBook(shelf, minted, agreed') /\ GoodBook(b, minted, agreed')
    BY <1>1, <2>1, BookStaysGood
  <2>4. CommandInHand(m, minted, agreed')
    BY <1>1, <2>1, <2>3 DEF CommandInHand
  <2> HIDE DEF m
  <2> QED
    BY <1>1, <2>1, <2>2, <2>3, <2>4, BookOfCommandMoves
<1> QED
  BY <1>20, <1>21, <1>22, <1>3, <1>4, <1>6, <1>7, <1>8, <1>9, <1>10, <1>11, <1>12, <1>13, <1>14, <1>15, <1>16, <1>17,
     <1>18, <1>19, SubjectsMove DEF CommandNext

\* The node looks up or makes the subject of a sender.
LEMMA SenderProjected ==
  ASSUME RelationInv, NEW p \in Traffic, Projects(p)
  PROVE  RelationInv'
<1> DEFINE m == mem["node"]
           b == m.book
           a == From[p]
<1>1. /\ minted \in Nat /\ GoodBook(shelf, minted, agreed) /\ m \in Hands
      /\ b \in RelationshipBooks /\ GoodBook(b, minted, agreed) /\ minted <= minted
  BY DEF RelationInv, NodeInHand, GoodBook
<1>2. a \in Actors /\ agreed' = agreed
  BY RelationAssumption DEF Projects, claimVars
<1>3. CASE Primary(b, a) = {}
  <2> DEFINE r == minted + 1
             c == Observe(b, a, r)
             was == [NoBook EXCEPT !.at = "record", !.on = p, !.ref = r]
             o == [was EXCEPT !.book = c]
  <2>1. /\ minted < MaxSubjects /\ KnownIssuer(b, a) /\ minted' = r
        /\ shelf' = c /\ mem' = [mem EXCEPT !["node"] = o]
    BY <1>3 DEF Projects, SaveBook
  <2>2. b.actor[a] = "none"
    BY <1>1, <1>2, <1>3 DEF GoodBook, Valid, ActorsPlaced, Observed
  <2>3. r \in Refs /\ r \in Nat /\ minted <= r
    BY <1>1, <2>1, RelationAssumption DEF Refs
  <2>4. GoodBook(c, r, agreed) /\ r \in Subjects(c) /\ a \in c.links[r]
    BY <1>1, <1>2, <2>1, <2>2, <2>3, ActorObserved
  <2> HIDE DEF c, r, b, m
  <2>5. o \in Hands /\ o.at = "record" /\ o.book = c /\ o.on = p /\ o.ref = r
    <3>1. c \in RelationshipBooks
      BY <2>4 DEF GoodBook
    <3>2. NoBook \in Hands
      BY <2>3, HandsFree DEF CommandInHand
    <3> QED
      BY <2>3, <3>1, <3>2 DEF Hands
  <2> HIDE DEF o
  <2>6. NodeInHand(o, r, agreed)
    BY <2>4, <2>5 DEF NodeInHand
  <2> QED
    BY <1>2, <2>1, <2>3, <2>4, <2>6, BookOfNodeMoves
<1>4. CASE Primary(b, a) # {}
  <2>1. PICK r \in Primary(b, a) :
          /\ mem' = [mem EXCEPT !["node"] = [m EXCEPT !.at = "record", !.on = p, !.ref = r]]
          /\ UNCHANGED <<shelf, minted>>
    BY <1>4 DEF Projects
  <2> DEFINE o == [m EXCEPT !.at = "record", !.on = p, !.ref = r]
  <2>2. r \in Subjects(b) /\ r \in Nat /\ a \in b.links[r]
    BY <2>1, RelationAssumption DEF Primary, ActiveOnes, Subjects, Refs
  <2>3. mem' = [mem EXCEPT !["node"] = o]
    BY <2>1
  <2> HIDE DEF m
  <2>4. o \in Hands /\ o.at = "record" /\ o.book = b /\ o.on = p /\ o.ref = r
    BY <1>1, <2>2 DEF Hands
  <2> HIDE DEF o, b
  <2>5. NodeInHand(o, minted, agreed)
    BY <1>1, <2>2, <2>4 DEF NodeInHand
  <2> QED
    BY <1>1, <1>2, <2>1, <2>3, <2>5, BookOfNodeMoves
<1> QED
  BY <1>3, <1>4

\* What the node does in one step.
LEMMA NodeSteps == RelationInv /\ ProjectionNext => RelationInv'
<1> SUFFICES ASSUME RelationInv, ProjectionNext PROVE RelationInv'
  OBVIOUS
<1> DEFINE m == mem["node"]
           b == m.book
<1>1. /\ minted \in Nat /\ GoodBook(shelf, minted, agreed) /\ m \in Hands
      /\ b \in RelationshipBooks /\ GoodBook(b, minted, agreed) /\ minted <= minted
      /\ NodeInHand(m, minted, agreed)
  BY DEF RelationInv, NodeInHand, GoodBook
<1>2. ASSUME NodeOpens PROVE RelationInv'
  <2> DEFINE o == [BookOpen EXCEPT !.book = shelf]
  <2>1. NodeInHand(o, minted, agreed)
    BY <1>1, HandsFree
  <2>2. mem' = [mem EXCEPT !["node"] = o] /\ UNCHANGED <<shelf, minted, agreed>>
    BY <1>2 DEF NodeOpens, claimVars
  <2> HIDE DEF o
  <2> QED
    BY <1>1, <2>1, <2>2, BookOfNodeMoves
<1>3. ASSUME NodeDies PROVE RelationInv'
  <2>1. NodeInHand(NoBook, minted, agreed)
    BY <1>1, HandsFree
  <2>2. mem' = [mem EXCEPT !["node"] = NoBook] /\ UNCHANGED <<shelf, minted, agreed>>
    BY <1>3 DEF NodeDies, claimVars
  <2> QED
    BY <1>1, <2>1, <2>2, BookOfNodeMoves
<1>4. ASSUME NEW p \in Traffic, ProjectPacket(p) \/ ProjectSignal(p) PROVE RelationInv'
  BY <1>4, SenderProjected DEF ProjectPacket, ProjectSignal
<1>5. ASSUME ProjectRecord PROVE RelationInv'
  <2> DEFINE c == RecordOnce(b, m.on, m.ref)
             was == [m EXCEPT !.at = "raise"]
             o == [was EXCEPT !.book = c]
  <2>1. m.at = "record" /\ UNCHANGED <<minted, agreed>>
    BY <1>5 DEF ProjectRecord, claimVars
  <2>2. m.on \in Traffic /\ m.ref \in Subjects(b) /\ From[m.on] \in b.links[m.ref]
    BY <1>1, <2>1 DEF NodeInHand
  <2>3. \/ mem' = [mem EXCEPT !["node"] = o] /\ shelf' = c
        \/ mem' = [mem EXCEPT !["node"] = was] /\ UNCHANGED shelf
    BY <1>5 DEF ProjectRecord, SaveBook
  <2>4. GoodBook(c, minted, agreed) /\ m.ref \in Subjects(c)
    BY <1>1, <2>2, PacketRecorded
  <2>5. c \in RelationshipBooks
    BY <2>4 DEF GoodBook
  <2> HIDE DEF c, m
  <2>6. was \in Hands /\ was.at = "raise" /\ was.book = b /\ was.on = m.on /\ was.ref = m.ref
    BY <1>1 DEF Hands
  <2> HIDE DEF was
  <2>7. o \in Hands /\ o.at = "raise" /\ o.book = c /\ o.on = m.on /\ o.ref = m.ref
    BY <2>5, <2>6 DEF Hands
  <2> HIDE DEF o, b
  <2>8. NodeInHand(was, minted, agreed) /\ NodeInHand(o, minted, agreed)
    BY <1>1, <2>2, <2>4, <2>6, <2>7 DEF NodeInHand
  <2> QED
    BY <1>1, <2>1, <2>3, <2>4, <2>8, BookOfNodeMoves
<1>6. ASSUME ProjectCircle PROVE RelationInv'
  <2> DEFINE c == SetCircle(b, m.ref, 1, {})
             same == [BookOpen EXCEPT !.book = b]
             o == [BookOpen EXCEPT !.book = c]
  <2>1. m.at = "raise" /\ UNCHANGED <<minted, agreed>>
    BY <1>6 DEF ProjectCircle, claimVars
  <2>2. m.ref \in Subjects(b)
    BY <1>1, <2>1 DEF NodeInHand
  <2>3. \/ mem' = [mem EXCEPT !["node"] = o] /\ shelf' = c
        \/ mem' = [mem EXCEPT !["node"] = same] /\ UNCHANGED shelf
    BY <1>6 DEF ProjectCircle, SaveBook
  <2>4. GoodBook(c, minted, agreed)
    <3>1. {} \in SUBSET Reasons /\ 1 \in Nat /\ ~(1 > 1)
      OBVIOUS
    <3> QED
      BY <1>1, <2>2, <3>1, CircleSet
  <2> HIDE DEF c
  <2>5. NodeInHand(same, minted, agreed) /\ NodeInHand(o, minted, agreed)
    BY <1>1, <2>4, HandsFree
  <2> HIDE DEF o, same
  <2> QED
    BY <1>1, <2>1, <2>3, <2>4, <2>5, BookOfNodeMoves
<1> QED
  BY <1>2, <1>3, <1>4, <1>5, <1>6 DEF ProjectionNext

\* The invariant behind the two theorems about the relationship book.
LEMMA RelationInductive == RelationSpec => []RelationInv
<1>1. RelationInit => RelationInv
  <2> SUFFICES ASSUME RelationInit PROVE RelationInv
    OBVIOUS
  <2>1. /\ shelf = EmptyBook /\ minted = 0 /\ agreed = {} /\ mem = [q \in {"cli", "node"} |-> NoBook]
    BY DEF RelationInit
  <2>2. /\ GoodBook(EmptyBook, 0, agreed)
        /\ CommandInHand(NoBook, 0, agreed) /\ NodeInHand(NoBook, 0, agreed)
    BY HandsFree
  <2>3. mem["cli"] = NoBook /\ mem["node"] = NoBook /\ mem = [q \in {"cli", "node"} |-> mem[q]]
    BY <2>1
  <2> QED
    BY <2>1, <2>2, <2>3 DEF RelationInv
<1>2. RelationInv /\ [RelationNext]_relationVars => RelationInv'
  <2>1. RelationInv /\ UNCHANGED relationVars => RelationInv'
    BY DEF RelationInv, relationVars, claimVars
  <2> QED
    BY <2>1, CommandSteps, NodeSteps DEF RelationNext
<1> QED
  BY <1>1, <1>2, PTL DEF RelationSpec

\* What a claims file, or a copy of it, may hold when "all" were stored.
ClaimBooks(all) ==
    {f \in [claims : SUBSET all, withdrawn : SUBSET all] : f.withdrawn \subseteq f.claims}

\* A claim that was stored while nobody else held a copy of the file is on file
\* and in every copy that was loaded since.
ClaimsKept ==
    /\ agreed \subseteq ClaimIds
    /\ claimFile \in ClaimBooks(agreed)
    /\ holders \subseteq ClaimCommands /\ copies \in [ClaimCommands -> ClaimBooks(agreed)]
    /\ agreed \ raced \subseteq claimFile.claims
    /\ \A q \in holders : agreed \ raced \subseteq copies[q].claims

\* Nothing but the commands about claims touches the claims file.
LEMMA ClaimSteps ==
  ASSUME RelationNext
  PROVE  \/ UNCHANGED claimVars
         \/ CommandEnds
         \/ \E q \in ClaimCommands : LoadClaims(q)
         \/ \E q \in ClaimCommands, c \in ClaimIds : AddClaim(q, c) \/ AddWithdrawal(q, c)
<1>1. ProjectionNext => UNCHANGED claimVars
  BY DEF ProjectionNext, NodeOpens, ProjectRecord, ProjectCircle, NodeDies, ProjectPacket,
         ProjectSignal, Projects
<1>2. ASSUME NEW b, CommitsQuietly(b) \/ Commits(b) PROVE UNCHANGED claimVars
  BY <1>2 DEF CommitsQuietly, Commits
<1>3. ASSUME NEW at, NEW a, NEW why, Confirm(at, a, why) PROVE UNCHANGED claimVars
  BY <1>3 DEF Confirm
<1>4. OpenBook \/ ConfirmCircle \/ NoteWithdrawal => UNCHANGED claimVars
  BY DEF OpenBook, ConfirmCircle, NoteWithdrawal
<1>5. ASSUME NEW a \in Actors, ObserveActor(a) \/ RevokeActor(a) \/ ScanInvite(a) \/ ScanAcceptance(a)
      PROVE  UNCHANGED claimVars
  BY <1>2, <1>3, <1>5 DEF ObserveActor, RevokeActor, ScanInvite, ScanAcceptance
<1>6. ASSUME NEW r \in Refs,
             \/ Trust(r) \/ Supersede(r)
             \/ \E c \in AskedCircles : Circle(r, c)
             \/ \E s \in {"dormant", "ended"} : SetState(r, s)
             \/ \E a \in Actors : LinkActor(a, r)
             \/ \E part \in SUBSET Actors, heir \in {0, r} : Split(r, part, heir)
      PROVE  UNCHANGED claimVars
  BY <1>2, <1>6 DEF Trust, Supersede, Transition, Circle, SetState, LinkActor, Split
<1>7. ASSUME NEW from \in SUBSET Refs, NEW heir \in Refs \cup {0}, Merge(from, heir)
      PROVE  UNCHANGED claimVars
  BY <1>2, <1>7 DEF Merge, Transition
<1>8. ASSUME NEW s, NEW how, DecideSuggestion(s, how) PROVE UNCHANGED claimVars
  BY <1>2, <1>8 DEF DecideSuggestion
<1>9. ASSUME NEW c \in ClaimIds, ImportClaim(c) PROVE UNCHANGED claimVars
  BY <1>3, <1>9 DEF ImportClaim
<1>10. ASSUME NEW c \in ClaimIds, StoreClaim(c) \/ StoreWithdrawal(c) \/ OtherStores(c)
       PROVE  \E q \in ClaimCommands : AddClaim(q, c) \/ AddWithdrawal(q, c)
  BY <1>10 DEF StoreClaim, StoreWithdrawal, OtherStores, ClaimCommands
<1>11. OpenClaims \/ OtherOpensClaims => \E q \in ClaimCommands : LoadClaims(q)
  BY DEF OpenClaims, OtherOpensClaims, ClaimCommands
<1> QED
  BY <1>1, <1>4, <1>5, <1>6, <1>7, <1>8, <1>9, <1>10, <1>11 DEF RelationNext, CommandNext

\* Every step keeps it.
LEMMA ClaimsInductive == RelationSpec => []ClaimsKept
<1>1. RelationInit => ClaimsKept
  <2> SUFFICES ASSUME RelationInit PROVE ClaimsKept
    OBVIOUS
  <2>1. /\ agreed = {} /\ raced = {} /\ holders = {}
        /\ claimFile = NoClaims /\ copies = [q \in ClaimCommands |-> NoClaims]
    BY DEF RelationInit
  <2>2. NoClaims \in ClaimBooks({})
    BY DEF NoClaims, ClaimBooks
  <2> QED
    BY <2>1, <2>2 DEF ClaimsKept
<1>2. ASSUME ClaimsKept, NEW q \in ClaimCommands, LoadClaims(q) PROVE ClaimsKept'
  BY <1>2 DEF ClaimsKept, LoadClaims
<1>3. ClaimsKept /\ CommandEnds => ClaimsKept'
  <2> SUFFICES ASSUME ClaimsKept, CommandEnds PROVE ClaimsKept'
    OBVIOUS
  <2>1. NoClaims \in ClaimBooks(agreed)
    BY DEF NoClaims, ClaimBooks
  <2> QED
    BY <2>1 DEF ClaimsKept, CommandEnds, CloseClaims
<1>4. ASSUME ClaimsKept, NEW q \in ClaimCommands, NEW c \in ClaimIds, AddClaim(q, c) PROVE ClaimsKept'
  <2> DEFINE old == copies[q]
             new == [old EXCEPT !.claims = @ \cup {c}]
  <2>1. /\ q \in holders /\ agreed' = agreed \cup {c}
        /\ raced' = IF c \in old.claims \/ holders = {q} THEN raced ELSE raced \cup {c}
        /\ holders' = holders \ {q} /\ copies' = [copies EXCEPT ![q] = NoClaims]
        /\ claimFile' = IF c \in old.claims THEN claimFile ELSE new
    BY <1>4 DEF AddClaim, CloseClaims, Filed
  <2>2. old \in ClaimBooks(agreed) /\ agreed \ raced \subseteq old.claims
    BY <1>4, <2>1 DEF ClaimsKept
  <2>3. /\ old.claims \subseteq agreed /\ old.withdrawn \subseteq agreed
        /\ old.withdrawn \subseteq old.claims
        /\ new.claims = old.claims \cup {c} /\ new.withdrawn = old.withdrawn
        /\ new \in [claims : SUBSET agreed', withdrawn : SUBSET agreed']
    BY <2>1, <2>2 DEF ClaimBooks
  <2>4. new \in ClaimBooks(agreed')
    BY <2>3 DEF ClaimBooks
  <2> HIDE DEF old, new
  <2>5. \A f \in ClaimBooks(agreed) : f \in ClaimBooks(agreed')
    BY <2>1 DEF ClaimBooks
  <2>6. claimFile' \in ClaimBooks(agreed')
    BY <1>4, <2>1, <2>4, <2>5 DEF ClaimsKept
  <2>7. NoClaims \in ClaimBooks(agreed')
    BY DEF NoClaims, ClaimBooks
  <2>8. copies' \in [ClaimCommands -> ClaimBooks(agreed')]
    BY <1>4, <2>1, <2>5, <2>7 DEF ClaimsKept
  <2>9. agreed' \ raced' \subseteq claimFile'.claims
    BY <1>4, <2>1, <2>2, <2>3 DEF ClaimsKept
  <2>10. ASSUME NEW k \in holders' PROVE agreed' \ raced' \subseteq copies'[k].claims
    <3>1. k \in holders /\ k # q /\ copies'[k] = copies[k] /\ holders # {q}
      BY <1>4, <2>1, <2>10 DEF ClaimsKept
    <3>2. agreed' \ raced' \subseteq agreed \ raced
      BY <2>1, <2>3, <3>1
    <3> QED
      BY <1>4, <3>1, <3>2 DEF ClaimsKept
  <2> QED
    BY <1>4, <2>1, <2>6, <2>8, <2>9, <2>10 DEF ClaimsKept
<1>5. ASSUME ClaimsKept, NEW q \in ClaimCommands, NEW c \in ClaimIds, AddWithdrawal(q, c) PROVE ClaimsKept'
  <2> DEFINE old == copies[q]
             new == [old EXCEPT !.withdrawn = @ \cup {c}]
  <2>1. /\ q \in holders /\ UNCHANGED <<agreed, raced>> /\ c \in old.claims
        /\ holders' = holders \ {q} /\ copies' = [copies EXCEPT ![q] = NoClaims]
        /\ claimFile' = IF c \in old.withdrawn THEN claimFile ELSE new
    BY <1>5 DEF AddWithdrawal, Withdrawable, CloseClaims
  <2>2. old \in ClaimBooks(agreed) /\ agreed \ raced \subseteq old.claims
    BY <1>5, <2>1 DEF ClaimsKept
  <2>3. new \in ClaimBooks(agreed) /\ new.claims = old.claims
    BY <2>1, <2>2 DEF ClaimBooks
  <2> HIDE DEF old, new
  <2>4. NoClaims \in ClaimBooks(agreed)
    BY DEF NoClaims, ClaimBooks
  <2>5. claimFile' \in ClaimBooks(agreed) /\ agreed \ raced \subseteq claimFile'.claims
    BY <1>5, <2>1, <2>2, <2>3 DEF ClaimsKept
  <2>6. copies' \in [ClaimCommands -> ClaimBooks(agreed)]
    BY <1>5, <2>1, <2>4 DEF ClaimsKept
  <2>7. \A k \in holders' : k \in holders /\ copies'[k] = copies[k]
    BY <1>5, <2>1 DEF ClaimsKept
  <2> QED
    BY <1>5, <2>1, <2>5, <2>6, <2>7 DEF ClaimsKept
<1>6. ClaimsKept /\ UNCHANGED claimVars => ClaimsKept'
  BY DEF ClaimsKept, claimVars
<1>7. ClaimsKept /\ [RelationNext]_relationVars => ClaimsKept'
  <2>1. UNCHANGED relationVars => UNCHANGED claimVars
    BY DEF relationVars
  <2> QED
    BY <1>2, <1>3, <1>4, <1>5, <1>6, <2>1, ClaimSteps
<1> QED
  BY <1>1, <1>7, PTL DEF RelationSpec

(***************************************************************************)
(* Whatever is saved can be loaded again: commands and the node save whole *)
(* copies of the book, and commands of the claims, without validating      *)
(* them, from copies that may be out of date, and may die between two      *)
(* saves; what the two reload then check (relations.py, _validate_model;   *)
(* relationship_claims.py) still holds.                                    *)
(***************************************************************************)
THEOREM RelationBookReloads == RelationSpec => []BookReloads
<1>1. RelationInv /\ ClaimsKept => BookReloads
  <2> SUFFICES ASSUME RelationInv, ClaimsKept PROVE BookReloads
    OBVIOUS
  <2>1. DOMAIN mem = {"cli", "node"}
    BY DEF RelationInv
  <2>2. claimFile.withdrawn \subseteq claimFile.claims
    BY DEF ClaimsKept, ClaimBooks
  <2> QED
    BY <2>1, <2>2 DEF RelationInv, BookReloads, CommandInHand, NodeInHand, GoodBook
<1> QED
  BY <1>1, RelationInductive, ClaimsInductive, PTL

(***************************************************************************)
(* A circle beyond "known" has a reason in the book, and a reason that is  *)
(* a mutual claim has both signatures; it is on file unless another        *)
(* command held a copy of the claims file while it was stored: the claims  *)
(* are written before the book, no packet raises anyone further than       *)
(* "known", and a copy that was loaded later has the claim.                *)
(***************************************************************************)
THEOREM RelationCirclesAreEarned == RelationSpec => []CircleIsEarned
<1>1. RelationInv /\ ClaimsKept => CircleIsEarned
  BY DEF RelationInv, ClaimsKept, GoodBook, WellEarned, CircleIsEarned
<1> QED
  BY <1>1, RelationInductive, ClaimsInductive, PTL
=============================================================================
