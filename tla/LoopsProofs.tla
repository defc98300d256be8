----------------------------- MODULE LoopsProofs ----------------------------
(***************************************************************************)
(* What holds of the supervisor of a node home, of the continuity gate, of *)
(* the disclosure loop and of the device chains of a control store, for    *)
(* any pages, processes, challenges, verifiers, runners of a schedule and  *)
(* signed objects.                                                         *)
(***************************************************************************)
EXTENDS Continuity, Disclosures, DeviceGrants, FiniteSetTheorems, WellFoundedInduction, TLAPS

----------------------------------------------------------------------------
(* The continuity gate.                                                    *)

HealthStates == {"missing", "starting", "running", "restarting", "degraded",
                 "stopped"}
HealthFiles == [inst : Nat, state : HealthStates, synced : BOOLEAN]

\* The health file of the supervisor counts its processes and never goes
\* back: each process that takes the lock writes a new number (Begins), all
\* other writes keep it.
LEMMA InstancesGrow ==
    ASSUME health \in HealthFiles, [SupNext]_supVars
    PROVE  health' \in HealthFiles /\ health'.inst >= health.inst
<1>1. CASE UNCHANGED health
  BY <1>1, SMT DEF HealthFiles
<1>2. CASE StopService
  <2>1. health' = [health EXCEPT !.state = "stopped"]
    BY <1>2 DEF StopService
  <2> QED  BY <2>1 DEF HealthFiles, HealthStates
<1>3. ASSUME NEW p \in SupProcs, Begins(p)  PROVE health' \in HealthFiles /\ health'.inst >= health.inst
  <2>1. \/ health' = [inst |-> health.inst + 1, state |-> "starting", synced |-> FALSE]
        \/ health' = health
    BY <1>3 DEF Begins
  <2>2. health.inst \in Nat /\ health.inst + 1 \in Nat /\ health.inst + 1 >= health.inst
    BY DEF HealthFiles
  <2>3. CASE health' = health
    BY <1>1, <2>3
  <2>4. CASE health' = [inst |-> health.inst + 1, state |-> "starting", synced |-> FALSE]
    <3>1. health'.inst = health.inst + 1
      BY <2>4
    <3>2. health' \in HealthFiles
      BY <2>2, <2>4, SMT DEF HealthFiles, HealthStates
    <3> QED  BY <2>2, <3>1, <3>2
  <2> QED  BY <2>1, <2>3, <2>4
<1>4. CASE AfterSync
  <2>1. \/ health' = [health EXCEPT !.state = "restarting", !.synced = TRUE]
        \/ health' = [health EXCEPT !.state = "running", !.synced = TRUE]
    BY <1>4 DEF AfterSync
  <2>2. /\ DOMAIN health' = {"inst", "state", "synced"}
        /\ health'.inst = health.inst /\ health'.synced = TRUE
        /\ health'.state \in HealthStates
    BY <2>1 DEF HealthFiles, HealthStates
  <2>3. health' = [inst |-> health'.inst, state |-> health'.state, synced |-> health'.synced]
    BY <2>1, <2>2 DEF HealthFiles
  <2>4. health.inst \in Nat /\ health.inst >= health.inst
    BY DEF HealthFiles
  <2> QED  BY <2>2, <2>3, <2>4 DEF HealthFiles
<1>5. CASE AfterFailure \/ Wake
  <2>1. health' \in {health, [health EXCEPT !.state = "degraded"]}
    BY <1>5 DEF AfterFailure, Wake
  <2> QED  BY <2>1 DEF HealthFiles, HealthStates
<1>6. CASE Boot
  <2>1. UNCHANGED health \/ Begins("sup")
    BY <1>6 DEF Boot
  <2> QED  BY <2>1, <1>1, <1>3 DEF SupProcs
<1>7. ASSUME NEW p \in SupProcs,
             \/ SyncStep(p) \/ Die(p) \/ FetchFails(p) \/ ApplyFails(p) \/ InstallFails(p)
             \/ RollbackFails(p) \/ RecordFails(p)
      PROVE  UNCHANGED health
  BY <1>7 DEF SyncStep, Fetch, ApplyConfig, ApplyCard, ApplyNodes, Install,
              VerifySoftware, Rollback, Record, Release, Die, FetchFails, ApplyFails, InstallFails,
              RollbackFails, RecordFails
<1>8. ASSUME NEW p \in SupProcs, Acquire(p)  PROVE Begins(p)
  BY <1>8 DEF Acquire
<1>9. CASE (\E d \in Pages : Publish(d)) \/ (\E c \in Pinned : OperatorPins(c))
           \/ ServerExits \/ ExecFails \/ HealthFails \/ UNCHANGED supVars
  <2>1. UNCHANGED health
    BY <1>9 DEF Publish, OperatorPins, ServerExits, ExecFails, HealthFails, supVars
  <2> QED  BY <2>1, <1>1
<1> QED
  BY <1>1, <1>2, <1>3, <1>4, <1>5, <1>6, <1>7, <1>8, <1>9 DEF SupNext

GateTypes ==
    /\ health \in HealthFiles
    /\ material \in Materials
    /\ observed \in [Challenges -> Nat]
    /\ challenge \in [Challenges -> [inst : Nat, material : Materials \cup {Nothing}]]
    /\ verifier \in [Verifiers -> [at : {"off", "files", "health"},
                                   c : Challenges \cup {Nothing}, inst : Nat]]
    /\ receipts \in [Challenges -> Seq(Nat)]

\* No command has seen an instance that has not begun.
SeenInstances ==
    \A c \in Challenges : observed[c] <= health.inst /\ challenge[c].inst <= health.inst

\* What a verifier carries across its two looks at the files.
VerifierSound(v) ==
    /\ verifier[v].at # "off" =>
          verifier[v].c \in Challenges /\ challenge[verifier[v].c] # NoChallenge
    /\ verifier[v].at = "health" =>
          /\ verifier[v].inst > challenge[verifier[v].c].inst
          /\ verifier[v].inst <= health.inst

ReceiptSound(c) ==
    receipts[c] # <<>> =>
        /\ challenge[c] # NoChallenge
        /\ Len(receipts[c]) = 1
        /\ receipts[c][1] > challenge[c].inst
        /\ health.inst >= receipts[c][1]

GateInv ==
    /\ GateTypes /\ SeenInstances
    /\ \A v \in Verifiers : VerifierSound(v)
    /\ \A c \in Challenges : ReceiptSound(c)

\* A challenge yields one receipt, of a supervisor that began after the one
\* that was seen healthy when it was prepared (verify_continuity).  The
\* verifiers read the health file and write the receipt in separate steps:
\* the invariant says what each has found out meanwhile, and that what a
\* written challenge holds no command replaces.
THEOREM ContinuityHolds == ContinuitySpec => []ContinuitySound
<1>1. SupInit /\ GateInit => GateInv
  <2> SUFFICES ASSUME SupInit, GateInit  PROVE GateInv
    OBVIOUS
  <2>1. GateTypes
    BY DEF SupInit, GateInit, GateTypes, HealthFiles, HealthStates, NoChallenge, Away
  <2>2. SeenInstances
    BY DEF SupInit, GateInit, SeenInstances, NoChallenge
  <2>3. \A v \in Verifiers : VerifierSound(v)
    BY DEF GateInit, VerifierSound, Away
  <2>4. \A c \in Challenges : ReceiptSound(c)
    BY DEF GateInit, ReceiptSound
  <2> QED  BY <2>1, <2>2, <2>3, <2>4 DEF GateInv
<1>2. GateInv /\ [ContinuityNext]_continuityVars => GateInv'
  <2> SUFFICES ASSUME GateInv, [ContinuityNext]_continuityVars  PROVE GateInv'
    OBVIOUS
  <2> USE DEF GateInv
  <2>1. ASSUME [SupNext]_supVars,
               UNCHANGED <<material, observed, challenge, verifier, receipts>>
        PROVE  GateInv'
    <3>1. health' \in HealthFiles /\ health'.inst >= health.inst
      BY <2>1, InstancesGrow DEF GateTypes
    <3>2. health.inst \in Nat /\ health'.inst \in Nat
      BY <3>1 DEF GateTypes, HealthFiles
    <3>3. GateTypes'
      BY <2>1, <3>1 DEF GateTypes
    <3>4. SeenInstances'
      BY <2>1, <3>1, <3>2 DEF GateTypes, SeenInstances
    <3>5. \A v \in Verifiers : VerifierSound(v)'
      <4> SUFFICES ASSUME NEW v \in Verifiers  PROVE VerifierSound(v)'
        OBVIOUS
      <4>1. VerifierSound(v) /\ verifier[v].inst \in Nat
        BY DEF GateTypes
      <4> QED  BY <2>1, <3>1, <3>2, <4>1 DEF VerifierSound
    <3>6. \A c \in Challenges : ReceiptSound(c)'
      <4> SUFFICES ASSUME NEW c \in Challenges  PROVE ReceiptSound(c)'
        OBVIOUS
      <4>1. ReceiptSound(c) /\ receipts[c] \in Seq(Nat)
        BY DEF GateTypes
      <4>2. receipts[c] # <<>> => receipts[c][1] \in Nat
        BY <4>1
      <4> QED  BY <2>1, <3>1, <3>2, <4>1, <4>2 DEF ReceiptSound
    <3> QED  BY <3>3, <3>4, <3>5, <3>6
  <2>2. ASSUME NEW c \in Challenges, PrepareInspect(c)  PROVE GateInv'
    <3>1. health.inst \in Nat
      BY DEF GateTypes, HealthFiles
    <3>2. GateTypes' /\ SeenInstances'
      BY <2>2, <3>1 DEF PrepareInspect, GateTypes, SeenInstances, supVars
    <3>3. /\ \A v \in Verifiers : VerifierSound(v)'
          /\ \A d \in Challenges : ReceiptSound(d)'
      BY <2>2 DEF PrepareInspect, VerifierSound, ReceiptSound, supVars
    <3> QED  BY <3>2, <3>3
  <2>3. ASSUME NEW c \in Challenges, PrepareWrite(c)  PROVE GateInv'
    <3>1. /\ challenge[c] = NoChallenge
          /\ UNCHANGED <<health, material, observed, verifier, receipts>>
          /\ challenge' = [challenge EXCEPT ![c] = [inst |-> observed[c], material |-> material]]
      BY <2>3 DEF PrepareWrite, supVars
    <3>2. \A d \in Challenges \ {c} : challenge'[d] = challenge[d]
      BY <3>1 DEF GateTypes
    <3>3. challenge'[c].inst = observed[c]
      BY <3>1 DEF GateTypes
    <3>4. GateTypes'
      BY <3>1 DEF GateTypes
    <3>5. SeenInstances'
      BY <3>1, <3>2, <3>3 DEF SeenInstances
    <3>6. \A v \in Verifiers : VerifierSound(v)'
      <4> SUFFICES ASSUME NEW v \in Verifiers  PROVE VerifierSound(v)'
        OBVIOUS
      <4>1. VerifierSound(v) /\ verifier'[v] = verifier[v] /\ health' = health
        BY <3>1
      <4>2. verifier[v].at # "off" =>
              /\ verifier[v].c \in Challenges \ {c}
              /\ challenge'[verifier[v].c] = challenge[verifier[v].c]
        BY <3>1, <3>2, <4>1 DEF VerifierSound
      <4> QED  BY <4>1, <4>2 DEF VerifierSound
    <3>7. \A d \in Challenges : ReceiptSound(d)'
      <4> SUFFICES ASSUME NEW d \in Challenges  PROVE ReceiptSound(d)'
        OBVIOUS
      <4>1. ReceiptSound(d) /\ receipts' = receipts /\ health' = health
        BY <3>1
      <4>2. receipts[d] # <<>> => challenge'[d] = challenge[d]
        BY <3>1, <3>2, <4>1 DEF ReceiptSound
      <4> QED  BY <4>1, <4>2 DEF ReceiptSound
    <3> QED  BY <3>4, <3>5, <3>6, <3>7
  <2>4. ASSUME \/ \E c \in Challenges : ChallengeLapses(c)
               \/ \E m \in Materials : MaterialChanges(m)
        PROVE  GateInv'
    <3>1. UNCHANGED <<health, observed, challenge, verifier, receipts>> /\ material' \in Materials
      BY <2>4 DEF ChallengeLapses, MaterialChanges, supVars, GateTypes
    <3> QED  BY <3>1 DEF GateTypes, SeenInstances, VerifierSound, ReceiptSound
  \* What a verifier carries after a step of its own.
  <2>5. ASSUME NEW v \in Verifiers,
               NEW r \in [at : {"off", "files", "health"},
                          c : Challenges \cup {Nothing}, inst : Nat],
               verifier' = [verifier EXCEPT ![v] = r],
               r.at # "off" => r.c \in Challenges /\ challenge[r.c] # NoChallenge,
               r.at = "health" => r.inst > challenge[r.c].inst /\ r.inst <= health.inst,
               UNCHANGED <<health, material, observed, challenge>>,
               receipts' \in [Challenges -> Seq(Nat)],
               \A c \in Challenges : ReceiptSound(c)'
        PROVE  GateInv'
    <3>1. GateTypes' /\ SeenInstances'
      BY <2>5 DEF GateTypes, SeenInstances
    <3>2. \A w \in Verifiers : VerifierSound(w)'
      <4> SUFFICES ASSUME NEW w \in Verifiers  PROVE VerifierSound(w)'
        OBVIOUS
      <4>1. verifier'[w] = IF w = v THEN r ELSE verifier[w]
        BY <2>5 DEF GateTypes
      <4>2. CASE w = v
        BY <2>5, <4>1, <4>2 DEF VerifierSound
      <4>3. CASE w # v
        BY <2>5, <4>1, <4>3 DEF VerifierSound
      <4> QED  BY <4>2, <4>3
    <3> QED  BY <2>5, <3>1, <3>2
  <2>6. Away \in [at : {"off", "files", "health"}, c : Challenges \cup {Nothing}, inst : Nat]
        /\ Away.at = "off"
    BY DEF Away
  <2>7. ASSUME UNCHANGED <<health, challenge, receipts>>
        PROVE  receipts' \in [Challenges -> Seq(Nat)] /\ \A c \in Challenges : ReceiptSound(c)'
    BY <2>7 DEF GateTypes, ReceiptSound
  <2>8. ASSUME NEW v \in Verifiers, NEW c \in Challenges, VerifyFiles(v, c)  PROVE GateInv'
    <3> DEFINE r == [at |-> "files", c |-> c, inst |-> 0]
    <3>1. /\ verifier' = [verifier EXCEPT ![v] = r]
          /\ challenge[c] # NoChallenge
          /\ UNCHANGED <<health, material, observed, challenge, receipts>>
      BY <2>8 DEF VerifyFiles, supVars
    <3>2. /\ r \in [at : {"off", "files", "health"}, c : Challenges \cup {Nothing}, inst : Nat]
          /\ r.at = "files" /\ r.c = c
      OBVIOUS
    <3> HIDE DEF r
    <3> QED  BY <2>5, <2>7, <3>1, <3>2
  <2>9. ASSUME NEW v \in Verifiers, VerifyHealth(v)  PROVE GateInv'
    <3> DEFINE d == verifier[v].c
               r == [at |-> "health", c |-> d, inst |-> health.inst]
    <3>1. /\ verifier[v].at = "files"
          /\ UNCHANGED <<health, material, observed, challenge, receipts>>
          /\ \/ verifier' = [verifier EXCEPT ![v] = Away]
             \/ verifier' = [verifier EXCEPT ![v] = r] /\ Restarted(d)
      BY <2>9 DEF VerifyHealth, supVars
    <3>2. d \in Challenges /\ challenge[d] # NoChallenge
      BY <3>1 DEF VerifierSound
    <3>3. /\ r \in [at : {"off", "files", "health"}, c : Challenges \cup {Nothing}, inst : Nat]
          /\ r.at = "health" /\ r.c = d /\ r.inst = health.inst
      BY <3>2 DEF GateTypes, HealthFiles
    <3>4. health.inst \in Nat /\ challenge[d].inst \in Nat /\ challenge[d].inst <= health.inst
      BY <3>2 DEF GateTypes, HealthFiles, SeenInstances
    <3>5. Restarted(d) => health.inst > challenge[d].inst
      BY <3>4 DEF Restarted
    <3>6. CASE verifier' = [verifier EXCEPT ![v] = Away]
      BY <2>5, <2>6, <2>7, <3>1, <3>6
    <3>7. CASE verifier' = [verifier EXCEPT ![v] = r] /\ Restarted(d)
      <4> HIDE DEF r, d
      <4>1. r.inst > challenge[r.c].inst /\ r.inst <= health.inst
        BY <3>3, <3>4, <3>5, <3>7
      <4> QED  BY <2>5, <2>7, <3>1, <3>2, <3>3, <3>7, <4>1
    <3> QED  BY <3>1, <3>6, <3>7
  <2>10. ASSUME NEW v \in Verifiers, WriteReceipt(v)  PROVE GateInv'
    <3> DEFINE d == verifier[v].c
               n == verifier[v].inst
    <3>1. /\ verifier[v].at = "health"
          /\ UNCHANGED <<health, material, observed, challenge>>
          /\ verifier' = [verifier EXCEPT ![v] = Away]
          /\ \/ UNCHANGED receipts
             \/ /\ receipts[d] = <<>>
                /\ receipts' = [receipts EXCEPT ![d] = Append(@, n)]
      BY <2>10 DEF WriteReceipt, MayCreate, supVars
    <3>2. /\ d \in Challenges /\ challenge[d] # NoChallenge
          /\ n > challenge[d].inst /\ n <= health.inst /\ n \in Nat
          /\ health.inst \in Nat
      BY <3>1 DEF VerifierSound, GateTypes, HealthFiles
    <3>3. CASE UNCHANGED receipts
      BY <2>5, <2>6, <2>7, <3>1, <3>3
    <3>4. CASE receipts[d] = <<>> /\ receipts' = [receipts EXCEPT ![d] = Append(@, n)]
      <4> HIDE DEF d, n
      <4>1. Append(receipts[d], n) = <<n>>
        BY <3>4, <3>2
      <4>2. receipts' = [receipts EXCEPT ![d] = <<n>>]
        BY <3>4, <4>1
      <4>3. <<n>> \in Seq(Nat) /\ Len(<<n>>) = 1 /\ <<n>>[1] = n
        BY <3>2
      <4>4. receipts' \in [Challenges -> Seq(Nat)]
        BY <4>2, <4>3, <3>2 DEF GateTypes
      <4>5. \A c \in Challenges : ReceiptSound(c)'
        <5> SUFFICES ASSUME NEW c \in Challenges  PROVE ReceiptSound(c)'
          OBVIOUS
        <5>1. receipts'[c] = IF c = d THEN <<n>> ELSE receipts[c]
          BY <4>2 DEF GateTypes
        <5>2. CASE c = d
          BY <3>1, <3>2, <4>3, <5>1, <5>2 DEF ReceiptSound
        <5>3. CASE c # d
          BY <3>1, <5>1, <5>3 DEF ReceiptSound
        <5> QED  BY <5>2, <5>3
      <4> QED  BY <2>5, <2>6, <3>1, <4>4, <4>5
    <3> QED  BY <3>1, <3>3, <3>4
  <2>11. ASSUME NEW v \in Verifiers, VerifierDies(v)  PROVE GateInv'
    <3>1. /\ verifier' = [verifier EXCEPT ![v] = Away]
          /\ UNCHANGED <<health, material, observed, challenge, receipts>>
      BY <2>11 DEF VerifierDies, supVars
    <3> QED  BY <2>5, <2>6, <2>7, <3>1
  <2>12. CASE Supervise
    BY <2>1, <2>12 DEF Supervise
  <2>13. CASE UNCHANGED continuityVars
    BY <2>1, <2>13 DEF continuityVars, gateVars
  <2> QED
    BY <2>2, <2>3, <2>4, <2>8, <2>9, <2>10, <2>11, <2>12, <2>13 DEF ContinuityNext, GateNext
<1>3. GateInv => ContinuitySound
  BY DEF GateInv, ReceiptSound, ContinuitySound
<1> QED  BY <1>1, <1>2, <1>3, PTL DEF ContinuitySpec

----------------------------------------------------------------------------
(* The supervisor.                                                         *)

Steps == Applying \cup {"off", "sync", "done", "failed", "wait", "exec"}
Changes == [restart : BOOLEAN, software : BOOLEAN]

SupTypes ==
    /\ recorded.page \in Pages \cup {Nothing}
    /\ page \in Pages
    /\ step \in [SupProcs -> Steps]
    /\ DOMAIN state = SupProcs
    /\ \A p \in SupProcs : state[p].page \in Pages \cup {Nothing}
    /\ doc \in [SupProcs -> Pages \cup {Nothing}]
    /\ change \in [SupProcs -> Changes]
    /\ DOMAIN saved = SupProcs
    /\ torn \in BOOLEAN /\ oldCard \in BOOLEAN /\ stray \in BOOLEAN

\* A process that is in a sync, or waits for the next, has the lock, or is
\* one of those that were left without it.
Locked == \A p \in SupProcs : Busy(p) => lock = p \/ p \in loose

\* The child is gone whenever its supervisor is.
ChildEnds == step["sup"] \in {"off", "exec"} => ~server.up

HomeBase == SupTypes /\ Locked /\ ChildEnds

\* At most one process is in a sync, or waits for one.
Alone == \A p \in SupProcs : \A q \in SupProcs \ {p} : ~Busy(p) \/ ~Busy(q)

\* Nobody else has written the state file since the sync began.
Copied(p) == step[p] \in Applying \cup {"sync"} => state[p] = recorded

\* What the state file says, of files that hold cfg, prs and pkg.
FilesClaim(cfg, prs) ==
    recorded.page # Nothing /\ ~torn =>
        /\ ConfigOf[recorded.page] # Nothing => cfg = ConfigOf[recorded.page]
        /\ NodesOf[recorded.page] \subseteq prs
PackageClaim(pkg) == recorded.software # Nothing => pkg = recorded.software \/ stray

NoneApplies == \A p \in SupProcs : step[p] \notin Applying

AtRest == NoneApplies => FilesClaim(config, peers) /\ PackageClaim(package)

CardKept ==
    (\A p \in SupProcs : step[p] \notin {"card", "rollback"}) => card = config \/ oldCard

\* How far a sync has come: the snapshot still satisfies what is recorded,
\* and the files agree with the snapshot or with the new page.
Progress(p) ==
    LET d == doc[p] old == saved[p] new == change[p] IN
    /\ d \in Pages
    /\ FilesClaim(old.config, old.peers) /\ PackageClaim(old.package)
    /\ step[p] \notin {"verify", "record", "rollback"} => package = old.package
    /\ step[p] = "rollback" => package = old.package \/ stray
    /\ step[p] = "verify" => SoftwareOf[d] # Nothing
    /\ step[p] = "record" =>
          \/ new.software /\ package = SoftwareOf[d] /\ SoftwareOf[d] # Nothing
          \/ /\ ~new.software /\ package = old.package
             /\ SoftwareOf[d] \in {Nothing, recorded.software, package}
    /\ step[p] \notin {"record", "rollback"} => ~new.software
    /\ step[p] = "config" => config = old.config
    /\ step[p] = "card" => config = ConfigOf[d]
    /\ step[p] \in {"nodes", "install", "verify", "record"} =>
          /\ ConfigOf[d] # Nothing => config = ConfigOf[d]
          /\ new.restart \/ config = old.config
    /\ step[p] \in {"install", "verify", "record"} => NodesOf[d] \subseteq peers

\* The child was started with files that hold cfg, pkg and prs, but for
\* cards that the operator pinned.
StartedWith(cfg, pkg, prs) ==
    /\ server.config = cfg /\ server.package = pkg
    /\ prs \subseteq server.peers \cup Pinned

ChildKnown ==
    /\ ChildEnds
    /\ server.up /\ ~missed =>
        /\ step["sup"] \in {"wait", "sync", "failed"} => StartedWith(config, package, peers)
        /\ step["sup"] = "done" /\ change["sup"] = NoChange =>
              StartedWith(config, package, peers)
        /\ step["sup"] \in Applying =>
              /\ StartedWith(saved["sup"].config, saved["sup"].package, saved["sup"].peers)
              /\ change["sup"].restart \/ peers \subseteq server.peers \cup Pinned
              /\ step["sup"] = "rollback" => package = saved["sup"].package

InOrder ==
    /\ SupTypes /\ Alone /\ AtRest /\ CardKept
    /\ \A p \in SupProcs : Copied(p)
    /\ \A p \in SupProcs : step[p] \in Applying => Progress(p)
    /\ ChildKnown

\* All that is in order unless two processes work at a time, which takes one
\* that is left without the lock.
HomeInv == HomeBase /\ (~mixed => InOrder)

\* What every step keeps, also of processes that work at a time.
LEMMA TypesKept ==
    ASSUME SupTypes, [SupNext]_supVars
    PROVE  SupTypes'
<1>0. /\ {"sup", "thread"} \subseteq SupProcs /\ NoChange \in Changes
      /\ NoRecord.page = Nothing
      /\ {"off", "exec", "sync", "done", "failed", "wait"} \subseteq Steps /\ Applying \subseteq Steps
  BY DEF SupProcs, NoChange, Changes, NoRecord, Steps
<1>a. ASSUME NEW p \in SupProcs, NEW s \in Steps, Goto(p, s),
             UNCHANGED <<page, recorded>>,
             UNCHANGED <<state, doc, saved, change>> \/ Forget(p),
             UNCHANGED <<torn, oldCard, stray>> \/ (torn' \in BOOLEAN /\ oldCard' \in BOOLEAN /\ stray' \in BOOLEAN)
      PROVE  SupTypes'
  BY <1>0, <1>a DEF SupTypes, Goto, Forget
<1>b. ASSUME NEW p \in SupProcs, NEW s \in Steps, Goto(p, s), NEW w, Joins(p, w),
             UNCHANGED <<page, recorded, doc, saved, change>>,
             state' = state \/ state' = [state EXCEPT ![p] = recorded]
      PROVE  SupTypes'
  <2>1. torn' \in BOOLEAN /\ oldCard' \in BOOLEAN /\ stray' \in BOOLEAN
    BY <1>b DEF Joins, losses, SupTypes
  <2> QED  BY <1>b, <2>1 DEF SupTypes, Goto
<1>1. CASE \/ \E c \in Pages : Publish(c)
           \/ \E c \in Pinned : OperatorPins(c)
           \/ ServerExits \/ UNCHANGED supVars
  <2>1. /\ page' \in Pages
        /\ UNCHANGED <<recorded, step, state, doc, saved, change, torn, oldCard, stray>>
    BY <1>1 DEF Publish, OperatorPins, ServerExits, supVars, files, locals, losses, SupTypes
  <2> QED  BY <2>1 DEF SupTypes
<1>2. ASSUME NEW p \in SupProcs, Die(p)  PROVE SupTypes'
  <2>1. /\ Goto(p, "off") /\ Forget(p) /\ UNCHANGED <<page, recorded>>
        /\ torn' = (torn \/ step[p] \in Applying)
        /\ oldCard' = (oldCard \/ (step[p] \in {"card", "rollback"} /\ config # card))
        /\ stray' = (stray \/ step[p] = "verify" \/ (step[p] = "record" /\ change[p].software))
    BY <1>2 DEF Die
  <2> QED  BY <1>0, <1>a, <2>1
<1>3. CASE StopService
  <2>1. UNCHANGED <<page, recorded, torn, oldCard, stray>>
    BY <1>3 DEF StopService
  <2>2. CASE Goto("sup", "off") /\ Forget("sup")
    BY <1>0, <1>a, <2>1, <2>2
  <2>3. CASE /\ step' = Passed(step, "off")
             /\ state' = Passed(state, NoRecord) /\ doc' = Passed(doc, Nothing)
             /\ saved' = Passed(saved, Nothing) /\ change' = Passed(change, NoChange)
    BY <1>0, <2>1, <2>3 DEF Passed, SupTypes
  <2> QED  BY <1>3, <2>2, <2>3 DEF StopService
<1>4. ASSUME NEW p \in SupProcs, Begins(p), UNCHANGED <<page, recorded, doc, saved, change>>
      PROVE  SupTypes'
  BY <1>0, <1>4, <1>b DEF Begins
<1>5. ASSUME NEW p \in SupProcs, Acquire(p)  PROVE SupTypes'
  BY <1>4, <1>5 DEF Acquire, Idle
<1>6. CASE Boot
  <2>1. UNCHANGED <<page, recorded, doc, saved, change>>
    BY <1>6 DEF Boot, Idle
  <2>2. CASE Begins("sup")
    BY <1>0, <1>4, <2>1, <2>2
  <2>3. CASE Goto("sup", "off") /\ UNCHANGED <<state, losses>>
    BY <1>0, <1>a, <2>1, <2>3 DEF losses
  <2> QED  BY <1>6, <2>2, <2>3 DEF Boot, losses
<1>7. CASE ExecFails
  <2>1. PICK w : Joins("sup", w)
    BY <1>7 DEF ExecFails
  <2>2. Goto("sup", "failed") /\ UNCHANGED <<page, recorded, state, doc, saved, change>>
    BY <1>7 DEF ExecFails, Idle, locals
  <2> QED  BY <1>0, <1>b, <2>1, <2>2
<1>8. CASE Wake
  <2>1. /\ Goto("sup", "sync") /\ Joins("sup", loose) /\ UNCHANGED <<page, recorded, doc, saved, change>>
        /\ state' = [state EXCEPT !["sup"] = recorded]
    BY <1>8 DEF Wake, Idle
  <2> QED  BY <1>0, <1>b, <2>1
<1>9. ASSUME AfterSync \/ HealthFails \/ AfterFailure  PROVE SupTypes'
  <2>1. /\ UNCHANGED <<page, recorded, torn, oldCard, stray>>
        /\ UNCHANGED <<state, doc, saved, change>> \/ Forget("sup")
        /\ \E s \in {"exec", "wait", "failed"} : Goto("sup", s)
    BY <1>9 DEF AfterSync, HealthFails, AfterFailure, locals, Idle
  <2> QED  BY <1>0, <1>a, <2>1
<1>10. ASSUME NEW p \in SupProcs, Fetch(p)  PROVE SupTypes'
  <2>1. /\ change' = [change EXCEPT ![p] = NoChange] /\ doc' = [doc EXCEPT ![p] = page]
        /\ recorded' \in {recorded, state[p]}
        /\ UNCHANGED <<page, state, torn, oldCard, stray>>
        /\ DOMAIN saved' = DOMAIN saved
        /\ \E s \in {"done", "failed", "config"} : Goto(p, s)
    BY <1>10 DEF Fetch, losses, Idle
  <2>2. step' \in [SupProcs -> Steps]
    BY <1>0, <2>1 DEF Goto, SupTypes, Applying
  <2>3. recorded'.page \in Pages \cup {Nothing}
    BY <2>1 DEF SupTypes
  <2> QED  BY <1>0, <2>1, <2>2, <2>3 DEF SupTypes
<1>11. ASSUME NEW p \in SupProcs, ApplyCard(p) \/ ApplyNodes(p) \/ VerifySoftware(p)  PROVE SupTypes'
  <2>1. /\ UNCHANGED <<page, recorded, state, doc, saved, torn, stray>>
        /\ oldCard' \in BOOLEAN
        /\ \E s \in Applying : Goto(p, s)
    BY <1>11 DEF ApplyCard, ApplyNodes, VerifySoftware, losses, Idle, Applying, SupTypes
  <2>2. change[p] \in Changes
    BY DEF SupTypes
  <2>3. change' \in [SupProcs -> Changes]
    <3>1. CASE \/ UNCHANGED change
               \/ change' = [change EXCEPT ![p].restart = TRUE]
               \/ change' = [change EXCEPT ![p].software = TRUE]
      BY <2>2, <3>1 DEF SupTypes, Changes
    <3>2. CASE change' = [change EXCEPT ![p].restart = @ \/ ~(NodesOf[doc[p]] \subseteq peers)]
      BY <2>2, <3>2 DEF SupTypes, Changes
    <3> QED  BY <1>11, <3>1, <3>2 DEF ApplyCard, ApplyNodes, VerifySoftware
  <2> QED  BY <1>0, <2>1, <2>3 DEF SupTypes, Goto
<1>12. ASSUME NEW p \in SupProcs, Record(p)  PROVE SupTypes'
  <2>1. /\ recorded'.page = doc[p] /\ torn' = FALSE
        /\ stray' = (stray /\ package # recorded'.software) /\ Goto(p, "done")
        /\ UNCHANGED <<page, state, doc, saved, change, oldCard>>
    BY <1>12 DEF Record, locals, Idle
  <2> QED  BY <1>0, <2>1 DEF SupTypes, Goto
<1>13. ASSUME NEW p \in SupProcs,
              ApplyConfig(p) \/ Install(p) \/ Rollback(p) \/ Release(p) \/ FetchFails(p)
              \/ ApplyFails(p) \/ InstallFails(p) \/ RollbackFails(p) \/ RecordFails(p)
       PROVE  SupTypes'
  <2>1. /\ UNCHANGED <<page, recorded>>
        /\ UNCHANGED <<state, doc, saved, change>> \/ Forget(p)
    BY <1>13 DEF ApplyConfig, Install, Rollback, Release, FetchFails, ApplyFails, InstallFails,
                 RollbackFails, RecordFails, locals, Idle
  <2>2. \E s \in Steps : Goto(p, s)
    BY <1>0, <1>13 DEF ApplyConfig, Install, Rollback, Release, FetchFails, ApplyFails, InstallFails,
                 RollbackFails, RecordFails, Applying
  <2>3. torn' \in BOOLEAN /\ oldCard' \in BOOLEAN /\ stray' \in BOOLEAN
    BY <1>13 DEF ApplyConfig, Install, Rollback, Release, FetchFails, ApplyFails, InstallFails,
                 RollbackFails, RecordFails, losses, SupTypes
  <2> QED  BY <1>a, <2>1, <2>2, <2>3
<1> QED
  BY <1>1, <1>2, <1>3, <1>5, <1>6, <1>7, <1>8, <1>9, <1>10, <1>11, <1>12, <1>13 DEF SupNext, SyncStep

\* A sync keeps the lock, or the lack of it, until it is over.
LEMMA SyncHoldsLock ==
    ASSUME SupTypes, NEW p \in SupProcs,
           \/ Fetch(p) \/ FetchFails(p) \/ ApplyConfig(p) \/ ApplyCard(p) \/ ApplyNodes(p)
           \/ ApplyFails(p) \/ Install(p) \/ VerifySoftware(p) \/ InstallFails(p)
           \/ Rollback(p) \/ RollbackFails(p) \/ Record(p) \/ RecordFails(p)
    PROVE  /\ UNCHANGED <<lock, loose, server, mixed>>
           /\ step[p] \in Applying \cup {"sync"}
           /\ \E s \in Steps \ {"off", "exec"} : Goto(p, s)
<1> USE DEF Fetch, FetchFails, ApplyConfig, ApplyCard, ApplyNodes, ApplyFails, Install, VerifySoftware,
            InstallFails, Rollback, RollbackFails, Record, RecordFails
<1>1. UNCHANGED <<lock, loose, server, mixed>>
  OBVIOUS
<1>2. step[p] \in Applying \cup {"sync"}
  BY DEF Applying
<1>3. \E s \in Steps \ {"off", "exec"} : Goto(p, s)
  BY DEF Applying, Steps
<1> QED  BY <1>1, <1>2, <1>3

\* A process works under the lock or is known to work without it, and the
\* child is gone when its supervisor is.
LEMMA BaseKept ==
    ASSUME HomeBase, [SupNext]_supVars
    PROVE  HomeBase'
<1> USE DEF HomeBase
<1>0. /\ SupTypes' /\ "sup" \in SupProcs /\ "thread" \in SupProcs /\ ~NoServer.up
      /\ {"off", "exec"} \cap (Applying \cup {"sync"}) = {}
  BY TypesKept DEF SupProcs, NoServer, Applying
<1>a. ASSUME NEW p \in SupProcs, NEW s, Goto(p, s),
             \A q \in SupProcs \ {p} : lock = q => lock' = q,
             \A q \in SupProcs \ {p} : q \in loose => q \in loose',
             s \notin {"off", "exec"} => lock' = p \/ p \in loose'
      PROVE  Locked'
  <2>1. step'[p] = s /\ \A q \in SupProcs \ {p} : step'[q] = step[q]
    BY <1>a DEF Goto, SupTypes
  <2> QED  BY <1>a, <2>1 DEF Locked, Busy
<1>b. ASSUME NEW p \in SupProcs, LetGo(p), NEW s \in {"off", "exec"}, Goto(p, s)
      PROVE  Locked'
  <2>1. /\ \A q \in SupProcs \ {p} : lock = q => lock' = q
        /\ \A q \in SupProcs \ {p} : q \in loose => q \in loose'
    BY <1>b DEF LetGo
  <2> QED  BY <1>a, <1>b, <2>1
<1>c. ASSUME NEW p \in SupProcs \ {"sup"}, NEW s, Goto(p, s), UNCHANGED server
      PROVE  ChildEnds'
  <2>1. step'["sup"] = step["sup"]
    BY <1>0, <1>c DEF Goto, SupTypes
  <2> QED  BY <1>c, <2>1 DEF ChildEnds
<1>d. ASSUME NEW s, s \notin {"off", "exec"}, Goto("sup", s)  PROVE ChildEnds'
  BY <1>0, <1>d DEF Goto, SupTypes, ChildEnds
<1>1. CASE \/ \E c \in Pages : Publish(c)
           \/ \E c \in Pinned : OperatorPins(c)
           \/ ServerExits \/ UNCHANGED supVars
  <2>1. /\ UNCHANGED <<lock, loose, step>>
        /\ server' = server \/ server' = NoServer
    BY <1>1 DEF Publish, OperatorPins, ServerExits, supVars
  <2> QED  BY <1>0, <2>1 DEF Locked, Busy, ChildEnds
<1>2. ASSUME NEW p \in SupProcs, Die(p)  PROVE HomeBase'
  <2>1. Goto(p, "off") /\ LetGo(p) /\ server' = IF p = "sup" THEN NoServer ELSE server
    BY <1>2 DEF Die
  <2>2. ChildEnds'
    <3>1. CASE p = "sup"
      BY <1>0, <2>1, <3>1 DEF ChildEnds
    <3>2. CASE p # "sup"
      BY <1>c, <2>1, <3>2
    <3> QED  BY <3>1, <3>2
  <2> QED  BY <1>0, <1>b, <2>1, <2>2
<1>3. CASE StopService
  <2>1. server' = NoServer
    BY <1>3 DEF StopService
  <2>2. ChildEnds'
    BY <1>0, <2>1 DEF ChildEnds
  <2>3. CASE Goto("sup", "off") /\ LetGo("sup")
    BY <1>0, <1>b, <2>2, <2>3
  <2>4. CASE /\ step' = Passed(step, "off")
             /\ lock' = IF lock = "sup" THEN Nothing ELSE lock
             /\ loose' = (loose \cup {"thread"}) \ {"sup"}
    <3>1. step'["sup"] = "off" /\ \A q \in SupProcs \ {"sup", "thread"} : step'[q] = step[q]
      BY <1>0, <2>4 DEF Passed, SupTypes
    <3> QED  BY <1>0, <2>2, <2>4, <3>1 DEF Locked, Busy
  <2> QED  BY <1>3, <2>3, <2>4 DEF StopService
<1>4. ASSUME NEW p \in SupProcs, lock = Nothing, Begins(p), UNCHANGED server  PROVE HomeBase'
  <2>1. Goto(p, "sync") /\ lock' = p /\ loose' = loose \ {p}
    BY <1>4 DEF Begins, Joins
  <2>2. Locked'
    BY <1>4, <1>a, <2>1, SupervisorAssumption DEF SupProcs
  <2>3. ChildEnds'
    BY <1>4, <1>c, <1>d, <2>1
  <2> QED  BY <1>0, <2>2, <2>3
<1>5. ASSUME NEW p \in SupProcs, Acquire(p)  PROVE HomeBase'
  BY <1>4, <1>5 DEF Acquire
<1>6. CASE Boot
  <2>1. step["sup"] = "exec" /\ UNCHANGED server
    BY <1>6 DEF Boot
  <2>2. CASE lock = Nothing /\ Begins("sup")
    BY <1>0, <1>4, <2>1, <2>2
  <2>3. CASE Goto("sup", "off") /\ UNCHANGED <<lock, loose>>
    <3>1. Locked'
      BY <1>0, <1>a, <2>3
    <3> QED  BY <1>0, <2>1, <2>3, <3>1 DEF ChildEnds
  <2> QED  BY <1>6, <2>2, <2>3 DEF Boot
<1>7. CASE ExecFails
  <2>1. /\ Goto("sup", "failed")
        /\ \/ lock = Nothing /\ lock' = "sup" /\ loose' = loose \ {"sup"}
           \/ lock' = lock /\ loose' = loose \cup {"sup"}
    BY <1>7 DEF ExecFails, Joins
  <2>2. Locked'
    BY <1>0, <1>a, <2>1, SupervisorAssumption DEF SupProcs
  <2> QED  BY <1>0, <1>d, <2>1, <2>2
<1>8. CASE Wake
  <2>1. step["sup"] = "wait" /\ Goto("sup", "sync") /\ UNCHANGED <<lock, loose>>
    BY <1>8 DEF Wake, Joins
  <2>2. Locked'
    BY <1>0, <1>a, <2>1 DEF Locked, Busy
  <2> QED  BY <1>0, <1>d, <2>1, <2>2
<1>9. CASE AfterSync
  <2>1. step["sup"] = "done"
    BY <1>9 DEF AfterSync
  <2>2. CASE server' = NoServer /\ LetGo("sup") /\ Goto("sup", "exec")
    BY <1>0, <1>b, <2>2 DEF ChildEnds
  <2>3. CASE Goto("sup", "wait") /\ UNCHANGED <<lock, loose>>
    <3>1. Locked'
      BY <1>0, <1>a, <2>1, <2>3 DEF Locked, Busy
    <3> QED  BY <1>0, <1>d, <2>3, <3>1
  <2> QED  BY <1>9, <2>2, <2>3 DEF AfterSync
<1>10. CASE HealthFails \/ AfterFailure
  <2>1. /\ step["sup"] \in {"done", "failed"} /\ UNCHANGED <<lock, loose>>
        /\ Goto("sup", "failed") \/ Goto("sup", "wait")
    BY <1>10 DEF HealthFails, AfterFailure
  <2>2. Locked'
    BY <1>0, <1>a, <2>1 DEF Locked, Busy
  <2> QED  BY <1>0, <1>d, <2>1, <2>2
<1>11. ASSUME NEW p \in SupProcs, Release(p)  PROVE HomeBase'
  <2>1. p # "sup" /\ LetGo(p) /\ Goto(p, "off") /\ UNCHANGED server
    BY <1>11 DEF Release
  <2> QED  BY <1>0, <1>b, <1>c, <2>1
<1>12. ASSUME NEW p \in SupProcs,
              \/ Fetch(p) \/ FetchFails(p) \/ ApplyConfig(p) \/ ApplyCard(p) \/ ApplyNodes(p)
              \/ ApplyFails(p) \/ Install(p) \/ VerifySoftware(p) \/ InstallFails(p)
              \/ Rollback(p) \/ RollbackFails(p) \/ Record(p) \/ RecordFails(p)
       PROVE  HomeBase'
  <2>1. PICK s \in Steps \ {"off", "exec"} : Goto(p, s)
    BY <1>12, SyncHoldsLock
  <2>2. step[p] \in Applying \cup {"sync"} /\ UNCHANGED <<lock, loose, server>>
    BY <1>12, SyncHoldsLock
  <2>3. Locked'
    BY <1>0, <1>a, <2>1, <2>2 DEF Locked, Busy
  <2>4. ChildEnds'
    BY <1>c, <1>d, <2>1, <2>2
  <2> QED  BY <1>0, <2>3, <2>4
<1> QED
  BY <1>1, <1>2, <1>3, <1>5, <1>6, <1>7, <1>8, <1>9, <1>10, <1>11, <1>12 DEF SupNext, SyncStep

\* Only one process is in a sync, or waits for one.
LEMMA OneAtWork ==
    ASSUME Alone, NEW p \in SupProcs, Busy(p)
    PROVE  \A q \in SupProcs \ {p} : step[q] \in {"off", "exec"}
BY DEF Alone, Busy

\* What is left to show of a step of the process that has the lock: the other
\* processes are off, so that the files are its own business.
LEMMA HolderSteps ==
    ASSUME InOrder, NEW p \in SupProcs, NEW s \in Steps,
           step[p] \notin {"off", "exec"}, Goto(p, s),
           SupTypes',
           s \in Applying \cup {"sync"} => state'[p] = recorded',
           s \notin Applying => FilesClaim(config, peers)' /\ PackageClaim(package)',
           s \notin {"card", "rollback"} => card' = config' \/ oldCard',
           s \in Applying => Progress(p)',
           IF p = "sup" THEN ChildKnown' ELSE UNCHANGED server
    PROVE  InOrder'
<1> USE DEF InOrder
<1>1. \A q \in SupProcs \ {p} : step[q] \in {"off", "exec"} /\ step'[q] = step[q]
  BY OneAtWork DEF Goto, SupTypes, Busy
<1>2. step'[p] = s
  BY DEF Goto, SupTypes
<1>3. Alone'
  BY <1>1, <1>2 DEF Alone, Busy
<1>4. {"off", "exec"} \cap Applying = {}
  BY DEF Applying
<1>5. AtRest' /\ CardKept'
  BY <1>2 DEF AtRest, NoneApplies, CardKept
<1>6. \A q \in SupProcs : Copied(q)'
  BY <1>1, <1>2, <1>4 DEF Copied
<1>7. \A q \in SupProcs : step'[q] \in Applying => Progress(q)'
  BY <1>1, <1>2, <1>4
<1>8. ChildKnown'
  <2>1. CASE p = "sup"
    BY <2>1
  <2>2. CASE p # "sup"
    <3>1. step["sup"] \in {"off", "exec"} /\ step'["sup"] = step["sup"] /\ server' = server
      BY <1>1, <2>2 DEF SupProcs
    <3>2. ~server.up
      BY <3>1 DEF ChildKnown, ChildEnds
    <3> QED  BY <3>1, <3>2 DEF ChildKnown, ChildEnds
  <2> QED  BY <2>1, <2>2
<1> QED  BY <1>3, <1>5, <1>6, <1>7, <1>8

\* A process that goes to work alone finds the home in order; after others
\* have worked at a time it finds whatever they left, and the histories say so.
LEMMA AloneBegins ==
    ASSUME HomeBase, ~mixed => InOrder, SupTypes', ~mixed',
           NEW p \in SupProcs, NEW w, Joins(p, w),
           \A q \in SupProcs \ {p} : Busy(q) => {p, q} \cap w # {},
           NEW s \in {"sync", "failed"}, Goto(p, s),
           \/ step[p] \in {"off", "exec"}
           \/ step[p] = "wait" /\ s = "sync",
           s = "sync" => state'[p] = recorded,
           UNCHANGED <<config, card, peers, package, recorded, doc, saved, change, server>>
    PROVE  InOrder'
<1> USE DEF HomeBase
<1>1. \A q \in SupProcs \ {p} : step[q] \in {"off", "exec"} /\ step'[q] = step[q]
  BY DEF Joins, Busy, Goto, SupTypes
<1>2. step'[p] = s /\ s \notin Applying /\ {"off", "exec", "wait"} \cap Applying = {}
  BY DEF Goto, SupTypes, Applying
<1>3. /\ mixed => torn' = TRUE /\ oldCard' = TRUE /\ stray' = TRUE /\ missed' = TRUE
      /\ ~mixed => UNCHANGED <<torn, oldCard, stray, missed>>
  BY DEF Joins, losses
<1>4. NoneApplies /\ NoneApplies' /\ \A q \in SupProcs : step[q] \notin {"card", "rollback"}
  BY <1>1, <1>2 DEF NoneApplies
<1>5. Alone'
  BY <1>1, <1>2 DEF Alone, Busy
<1>6. AtRest'
  <2>1. CASE mixed
    BY <1>3, <2>1 DEF AtRest, FilesClaim, PackageClaim
  <2>2. CASE ~mixed
    BY <1>3, <1>4, <2>2 DEF InOrder, AtRest, FilesClaim, PackageClaim
  <2> QED  BY <2>1, <2>2
<1>7. CardKept'
  <2>1. CASE mixed
    BY <1>3, <2>1 DEF CardKept
  <2>2. CASE ~mixed
    BY <1>3, <1>4, <2>2 DEF InOrder, CardKept
  <2> QED  BY <2>1, <2>2
<1>8. \A q \in SupProcs : Copied(q)'
  BY <1>1, <1>2 DEF Copied
<1>9. ChildKnown'
  <2>1. CASE p # "sup" \/ step[p] # "wait"
    <3>1. ~server.up
      BY <1>1, <2>1 DEF ChildEnds, SupProcs
    <3> QED  BY <3>1 DEF ChildKnown, ChildEnds
  <2>2. CASE p = "sup" /\ step[p] = "wait" /\ mixed
    BY <1>2, <1>3, <2>2 DEF ChildKnown, ChildEnds
  <2>3. CASE p = "sup" /\ step[p] = "wait" /\ ~mixed
    BY <1>2, <1>3, <2>3 DEF InOrder, ChildKnown, ChildEnds, StartedWith
  <2> QED  BY <2>1, <2>2, <2>3
<1> QED  BY <1>2, <1>4, <1>5, <1>6, <1>7, <1>8, <1>9 DEF InOrder, NoneApplies

\* A process ends between two lives: the files and the others go on as before.
LEMMA ExecEnds ==
    ASSUME InOrder, NEW p \in SupProcs, step[p] = "exec", Goto(p, "off"),
           \A q \in SupProcs \ {p} :
               /\ doc'[q] = doc[q] /\ saved'[q] = saved[q] /\ change'[q] = change[q]
               /\ state'[q] = state[q],
           UNCHANGED <<files, recorded, torn, oldCard, stray>>,
           SupTypes', ChildKnown'
    PROVE  InOrder'
<1> USE DEF InOrder
<1>1. step'[p] = "off" /\ \A q \in SupProcs \ {p} : step'[q] = step[q]
  BY DEF Goto, SupTypes
<1>2. Alone' /\ \A q \in SupProcs : Copied(q)'
  BY <1>1 DEF Alone, Busy, Copied, Applying
<1>3. NoneApplies' => NoneApplies
  BY <1>1 DEF NoneApplies, Applying
<1>4. AtRest'
  BY <1>3 DEF AtRest, FilesClaim, PackageClaim, files
<1>5. CardKept'
  BY <1>1 DEF CardKept, files
<1>6. \A q \in SupProcs : step'[q] \in Applying => Progress(q)'
  <2> SUFFICES ASSUME NEW q \in SupProcs, step'[q] \in Applying  PROVE Progress(q)'
    OBVIOUS
  <2>1. q # p /\ step'[q] = step[q]
    BY <1>1 DEF Applying
  <2>2. Progress(q) /\ doc'[q] = doc[q] /\ saved'[q] = saved[q] /\ change'[q] = change[q]
    BY <2>1
  <2> QED  BY <2>1, <2>2 DEF Progress, FilesClaim, PackageClaim, files
<1> QED  BY <1>2, <1>4, <1>5, <1>6

\* A sync moves on by one file write.
LEMMA SyncKeepsHome ==
    ASSUME InOrder, SupTypes', NEW p \in SupProcs,
           \/ Fetch(p) \/ FetchFails(p) \/ ApplyConfig(p) \/ ApplyCard(p) \/ ApplyNodes(p)
           \/ ApplyFails(p) \/ Install(p) \/ VerifySoftware(p) \/ InstallFails(p)
           \/ Rollback(p) \/ RollbackFails(p)
    PROVE  InOrder'
<1> USE DEF InOrder
<1>0. /\ "sup" \in SupProcs
      /\ doc[p] \in Pages \cup {Nothing} /\ change[p] \in Changes
      /\ NoChange \in Changes /\ NoChange.restart = FALSE /\ NoChange.software = FALSE
  BY DEF SupTypes, SupProcs, NoChange, Changes
<1>d. state[p] = recorded
  <2>1. step[p] \in Applying \cup {"sync"}
    BY DEF Applying, Fetch, FetchFails, ApplyConfig, ApplyCard, ApplyNodes, ApplyFails, Install,
           VerifySoftware, InstallFails, Rollback, RollbackFails
  <2> QED  BY <2>1 DEF Copied
<1>a. ASSUME step[p] = "sync"
      PROVE  FilesClaim(config, peers) /\ PackageClaim(package) /\ (card = config \/ oldCard)
  <2>1. NoneApplies /\ \A q \in SupProcs : step[q] \notin {"card", "rollback"}
    BY <1>a, OneAtWork DEF Busy, NoneApplies, Applying
  <2> QED  BY <2>1 DEF AtRest, CardKept
<1>b. ASSUME step[p] \in Applying  PROVE Progress(p)
  BY <1>b
<1>c. ASSUME step[p] \in Applying \ {"card", "rollback"}  PROVE card = config \/ oldCard
  <2>1. \A q \in SupProcs : step[q] \notin {"card", "rollback"}
    BY <1>c, OneAtWork DEF Busy, Applying
  <2> QED  BY <2>1 DEF CardKept
<1>1. CASE Fetch(p)
  <2>1. /\ step[p] = "sync"
        /\ change' = [change EXCEPT ![p] = NoChange]
        /\ doc' = [doc EXCEPT ![p] = page]
        /\ UNCHANGED <<page, state, config, card, peers, package, recorded, lock, server, torn, oldCard,
                       stray, missed>>
        /\ \/ Goto(p, "done") /\ UNCHANGED saved
           \/ Goto(p, "failed") /\ UNCHANGED saved
           \/ /\ Goto(p, "config")
              /\ saved' = [saved EXCEPT ![p] = [config |-> config, card |-> card,
                                                peers |-> peers, package |-> package]]
    BY <1>1, <1>d DEF Fetch, files, Idle, locals, losses
  <2>2. change'[p] = NoChange /\ doc'[p] = page /\ page \in Pages
    BY <2>1 DEF SupTypes
  <2>3. PICK s \in {"done", "failed", "config"} :
            /\ Goto(p, s)
            /\ IF s = "config"
               THEN saved' = [saved EXCEPT ![p] = [config |-> config, card |-> card,
                                                   peers |-> peers, package |-> package]]
               ELSE UNCHANGED saved
    BY <2>1
  <2>4. s \in Steps /\ step'[p] = s
    BY <2>3 DEF Steps, Applying, Goto, SupTypes
  <2>6. FilesClaim(config, peers)' /\ PackageClaim(package)' /\ (card' = config' \/ oldCard')
    BY <1>a, <2>1 DEF FilesClaim, PackageClaim
  <2>7. s \in Applying =>
          /\ s = "config"
          /\ saved'[p] = [config |-> config, card |-> card, peers |-> peers, package |-> package]
    BY <2>3 DEF Applying, SupTypes
  <2>8. s \in Applying => Progress(p)'
    BY <1>0, <2>1, <2>2, <2>4, <2>6, <2>7 DEF Progress, FilesClaim, PackageClaim
  <2>9. ASSUME p = "sup"  PROVE ChildKnown'
    <3>1. server.up /\ ~missed => StartedWith(config, package, peers)
      BY <2>1, <2>9 DEF ChildKnown, ChildEnds
    <3>2. step'["sup"] = s /\ s \notin {"off", "exec", "wait", "sync"}
      BY <2>4, <2>9
    <3> QED  BY <1>0, <2>1, <2>2, <2>7, <2>9, <3>1, <3>2 DEF ChildKnown, ChildEnds, StartedWith
  <2> QED  BY <2>1, <2>3, <2>4, <2>6, <2>8, <2>9, <1>d, HolderSteps
<1>2. CASE FetchFails(p)
  <2>1. /\ step[p] = "sync" /\ Goto(p, "failed")
        /\ UNCHANGED <<page, state, config, card, peers, package, recorded, lock, doc, saved, change, server,
                       torn, oldCard, stray, missed>>
    BY <1>2 DEF FetchFails, files, Idle, locals, losses
  <2>2. "failed" \in Steps \ Applying /\ step'[p] = "failed"
    BY <2>1 DEF Steps, Applying, Goto, SupTypes
  <2>4. FilesClaim(config, peers)' /\ PackageClaim(package)' /\ (card' = config' \/ oldCard')
    BY <1>a, <2>1 DEF FilesClaim, PackageClaim
  <2>5. ASSUME p = "sup"  PROVE ChildKnown'
    BY <2>1, <2>2, <2>5 DEF ChildKnown, ChildEnds, StartedWith
  <2> QED  BY <2>1, <2>2, <2>4, <2>5, <1>d, HolderSteps
<1>3. CASE ApplyConfig(p)
  <2>1. /\ step[p] = "config"
        /\ UNCHANGED <<page, state, card, peers, package, recorded, lock, doc, saved, change, server,
                       torn, oldCard, stray, missed>>
    BY <1>3 DEF ApplyConfig, Idle, locals, losses
  <2>2. PICK s \in {"nodes", "card", "rollback"} :
            /\ Goto(p, s)
            /\ s = "nodes" => ConfigOf[doc[p]] \in {Nothing, config} /\ UNCHANGED config
            /\ s = "card" => config' = ConfigOf[doc[p]]
            /\ s = "rollback" => UNCHANGED config
    BY <1>3 DEF ApplyConfig
  <2>3. s \in Steps /\ s \in Applying /\ step'[p] = s
    BY <2>2 DEF Steps, Applying, Goto, SupTypes
  <2>5. Progress(p) /\ (card = config \/ oldCard)
    BY <1>b, <1>c, <2>1 DEF Applying
  <2>6. Progress(p)'
    BY <2>1, <2>2, <2>3, <2>5 DEF Progress, FilesClaim, PackageClaim
  <2>7. s \notin {"card", "rollback"} => card' = config' \/ oldCard'
    BY <2>1, <2>2, <2>5
  <2>8. ASSUME p = "sup"  PROVE ChildKnown'
    <3>1. package = saved[p].package
      BY <2>1, <2>5 DEF Progress
    <3> QED  BY <2>1, <2>3, <2>8, <3>1 DEF ChildKnown, ChildEnds, StartedWith, Applying
  <2> QED  BY <2>1, <2>2, <2>3, <2>6, <2>7, <2>8, <1>d, HolderSteps
<1>4. CASE ApplyCard(p)
  <2>1. /\ step[p] = "card" /\ Goto(p, "nodes")
        /\ card' = config /\ oldCard' = FALSE
        /\ change' = [change EXCEPT ![p].restart = TRUE]
        /\ UNCHANGED <<page, state, config, peers, package, recorded, lock, doc, saved, server,
                       torn, stray, missed>>
    BY <1>4 DEF ApplyCard, Idle, locals, losses
  <2>2. "nodes" \in Steps /\ "nodes" \in Applying /\ step'[p] = "nodes"
    BY <2>1 DEF Steps, Applying, Goto, SupTypes
  <2>3. /\ change'[p].restart = TRUE /\ change'[p].software = change[p].software
        /\ change' \in [SupProcs -> Changes]
    BY <1>0, <2>1 DEF SupTypes, Changes
  <2>5. Progress(p)
    BY <1>b, <2>1 DEF Applying
  <2>6. Progress(p)'
    BY <2>1, <2>2, <2>3, <2>5 DEF Progress, FilesClaim, PackageClaim
  <2>7. ASSUME p = "sup"  PROVE ChildKnown'
    BY <2>1, <2>2, <2>3, <2>7 DEF ChildKnown, ChildEnds, StartedWith, Applying
  <2> QED  BY <2>1, <2>2, <2>6, <2>7, <1>d, HolderSteps
<1>5. CASE ApplyNodes(p)
  <2> DEFINE new == NodesOf[doc[p]]
  <2>1. /\ step[p] = "nodes"
        /\ UNCHANGED <<page, state, config, card, package, recorded, lock, doc, saved, server,
                       torn, oldCard, stray, missed>>
    BY <1>5 DEF ApplyNodes, Idle, locals, losses
  <2>2. Progress(p) /\ (card = config \/ oldCard)
    BY <1>b, <1>c, <2>1 DEF Applying
  <2>3. CASE Goto(p, "rollback") /\ UNCHANGED <<peers, change>>
    <3>1. "rollback" \in Steps /\ "rollback" \in Applying /\ step'[p] = "rollback"
      BY <2>3 DEF Steps, Applying, Goto, SupTypes
    <3>3. Progress(p)'
      BY <2>1, <2>2, <2>3, <3>1 DEF Progress, FilesClaim, PackageClaim
    <3>4. ASSUME p = "sup"  PROVE ChildKnown'
      <4>1. package = saved[p].package
        BY <2>1, <2>2 DEF Progress
      <4> QED  BY <2>1, <2>3, <3>1, <3>4, <4>1 DEF ChildKnown, ChildEnds, StartedWith, Applying
    <3> QED  BY <2>1, <2>3, <3>1, <3>3, <3>4, <1>d, HolderSteps
  <2>4. CASE /\ peers' = peers \cup new
             /\ change' = [change EXCEPT ![p].restart = @ \/ ~(new \subseteq peers)]
             /\ Goto(p, "install")
    <3>1. "install" \in Steps /\ "install" \in Applying /\ step'[p] = "install"
      BY <2>4 DEF Steps, Applying, Goto, SupTypes
    <3>2. /\ change'[p].restart = (change[p].restart \/ ~(new \subseteq peers))
          /\ change'[p].software = change[p].software
          /\ change' \in [SupProcs -> Changes]
      BY <1>0, <2>4 DEF SupTypes, Changes
    <3>4. Progress(p)'
      BY <2>1, <2>2, <2>4, <3>1, <3>2 DEF Progress, FilesClaim, PackageClaim
    <3>5. ASSUME p = "sup"  PROVE ChildKnown'
      <4>1. ~change'[p].restart => ~change[p].restart /\ peers' = peers
        BY <2>4, <3>2
      <4> QED  BY <2>1, <3>1, <3>5, <4>1 DEF ChildKnown, ChildEnds, StartedWith, Applying
    <3> QED  BY <2>1, <2>2, <2>4, <3>1, <3>4, <3>5, <1>d, HolderSteps
  <2> QED  BY <1>5, <2>3, <2>4 DEF ApplyNodes
<1>6. CASE Install(p)
  <2>1. /\ step[p] = "install"
        /\ UNCHANGED <<page, state, config, card, peers, recorded, lock, doc, saved, change, server,
                       torn, oldCard, stray, missed>>
    BY <1>6 DEF Install, Idle, locals, losses
  <2>2. Progress(p) /\ (card = config \/ oldCard)
    BY <1>b, <1>c, <2>1 DEF Applying
  <2>3. PICK s \in {"record", "verify"} :
            /\ Goto(p, s)
            /\ s = "record" => Installed(recorded, doc[p]) /\ UNCHANGED package
            /\ s = "verify" => ~Installed(recorded, doc[p])
    BY <1>6, <1>d DEF Install
  <2>4. s \in Steps /\ s \in Applying /\ step'[p] = s
    BY <2>3 DEF Steps, Applying, Goto, SupTypes
  <2>6. Progress(p)'
    BY <2>1, <2>2, <2>3, <2>4 DEF Progress, FilesClaim, PackageClaim, Installed
  <2>7. ASSUME p = "sup"  PROVE ChildKnown'
    BY <2>1, <2>4, <2>7 DEF ChildKnown, ChildEnds, StartedWith, Applying
  <2> QED  BY <2>1, <2>2, <2>3, <2>4, <2>6, <2>7, <1>d, HolderSteps
<1>7. CASE VerifySoftware(p)
  <2>1. /\ step[p] = "verify" /\ Goto(p, "record")
        /\ package' = SoftwareOf[doc[p]]
        /\ change' = [change EXCEPT ![p].software = TRUE]
        /\ UNCHANGED <<page, state, config, card, peers, recorded, lock, doc, saved, server,
                       torn, oldCard, stray, missed>>
    BY <1>7 DEF VerifySoftware, Idle, locals, losses
  <2>2. Progress(p) /\ (card = config \/ oldCard)
    BY <1>b, <1>c, <2>1 DEF Applying
  <2>3. "record" \in Steps /\ "record" \in Applying /\ step'[p] = "record"
    BY <2>1 DEF Steps, Applying, Goto, SupTypes
  <2>4. /\ change'[p].software = TRUE /\ change'[p].restart = change[p].restart
        /\ change' \in [SupProcs -> Changes]
    BY <1>0, <2>1 DEF SupTypes, Changes
  <2>6. Progress(p)'
    BY <2>1, <2>2, <2>3, <2>4 DEF Progress, FilesClaim, PackageClaim
  <2>7. ASSUME p = "sup"  PROVE ChildKnown'
    BY <2>1, <2>3, <2>4, <2>7 DEF ChildKnown, ChildEnds, StartedWith, Applying
  <2> QED  BY <2>1, <2>2, <2>3, <2>6, <2>7, <1>d, HolderSteps
<1>8. CASE InstallFails(p)
  <2>1. /\ step[p] = "verify" /\ Goto(p, "rollback")
        /\ \/ package' = saved[p].package /\ UNCHANGED <<stray, missed>>
           \/ stray' = TRUE /\ missed' = (missed \/ server.up)
        /\ UNCHANGED <<page, state, config, card, peers, recorded, doc, saved, change, server,
                       torn, oldCard>>
    BY <1>8 DEF InstallFails, Idle, locals
  <2>2. Progress(p)
    BY <1>b, <2>1 DEF Applying
  <2>3. "rollback" \in Steps /\ "rollback" \in Applying /\ step'[p] = "rollback"
    BY <2>1 DEF Steps, Applying, Goto, SupTypes
  <2>5. Progress(p)'
    BY <2>1, <2>2, <2>3 DEF Progress, FilesClaim, PackageClaim
  <2>6. ASSUME p = "sup"  PROVE ChildKnown'
    <3>1. CASE package' = saved[p].package /\ UNCHANGED <<stray, missed>>
      BY <2>1, <2>3, <2>6, <3>1 DEF ChildKnown, ChildEnds, StartedWith, Applying
    <3>2. CASE missed' = (missed \/ server.up)
      BY <2>1, <2>3, <2>6, <3>2 DEF ChildKnown, ChildEnds
    <3> QED  BY <2>1, <3>1, <3>2
  <2> QED  BY <2>1, <2>3, <2>5, <2>6, <1>d, HolderSteps
<1>9. CASE Rollback(p)
  <2>1. /\ step[p] = "rollback" /\ Goto(p, "failed")
        /\ config' = saved[p].config /\ card' = saved[p].card /\ peers' = saved[p].peers
        /\ oldCard' = (saved[p].card # saved[p].config)
        /\ UNCHANGED <<page, state, package, recorded, lock, doc, saved, change, server, torn, stray, missed>>
    BY <1>9 DEF Rollback, RestoredFiles, Idle, locals, losses
  <2>2. Progress(p)
    BY <1>b, <2>1 DEF Applying
  <2>3. "failed" \in Steps \ Applying /\ step'[p] = "failed"
    BY <2>1 DEF Steps, Applying, Goto, SupTypes
  <2>5. FilesClaim(config, peers)' /\ PackageClaim(package)'
    BY <2>1, <2>2 DEF Progress, FilesClaim, PackageClaim
  <2>6. card' = config' \/ oldCard'
    BY <2>1
  <2>7. ASSUME p = "sup"  PROVE ChildKnown'
    BY <2>1, <2>3, <2>5, <2>7 DEF ChildKnown, ChildEnds, StartedWith, Applying
  <2> QED  BY <2>1, <2>3, <2>5, <2>6, <2>7, <1>d, HolderSteps
<1>10. CASE RollbackFails(p)
  <2>1. /\ step[p] = "rollback" /\ Goto(p, "failed")
        /\ torn' = TRUE /\ oldCard' = (card' # config') /\ missed' = (missed \/ server.up)
        /\ UNCHANGED <<page, state, package, recorded, doc, saved, change, server, stray>>
    BY <1>10 DEF RollbackFails, Idle, locals
  <2>2. PackageClaim(package)'
    <3>1. Progress(p) /\ "rollback" \in Applying
      BY <1>b, <2>1 DEF Applying
    <3> QED  BY <2>1, <3>1 DEF Progress, PackageClaim
  <2>3. "failed" \in Steps \ Applying /\ step'[p] = "failed"
    BY <2>1 DEF Steps, Applying, Goto, SupTypes
  <2>4. FilesClaim(config, peers)' /\ (card' = config' \/ oldCard')
    BY <2>1 DEF FilesClaim
  <2>5. ASSUME p = "sup"  PROVE ChildKnown'
    BY <2>1, <2>3, <2>5 DEF ChildKnown, ChildEnds, StartedWith, Applying
  <2> QED  BY <2>1, <2>2, <2>3, <2>4, <2>5, <1>d, HolderSteps
<1>11. CASE ApplyFails(p)
  <2>1. /\ step[p] \in {"config", "card", "nodes"} /\ Goto(p, "rollback")
        /\ UNCHANGED <<page, state, config, card, peers, package, recorded, lock, doc, saved,
                       change, server, torn, oldCard, stray, missed>>
    BY <1>11 DEF ApplyFails, files, Idle, locals, losses
  <2>2. Progress(p) /\ step[p] \in Applying
    BY <1>b, <2>1 DEF Applying
  <2>3. "rollback" \in Steps /\ "rollback" \in Applying /\ step'[p] = "rollback"
    BY <2>1 DEF Steps, Applying, Goto, SupTypes
  <2>4. package = saved[p].package
    BY <2>1, <2>2 DEF Progress
  <2>5. Progress(p)'
    BY <2>1, <2>2, <2>3, <2>4 DEF Progress, FilesClaim, PackageClaim
  <2>6. ASSUME p = "sup"  PROVE ChildKnown'
    BY <2>1, <2>3, <2>4, <2>6 DEF ChildKnown, ChildEnds, StartedWith, Applying
  <2> QED  BY <2>1, <2>3, <2>5, <2>6, <1>d, HolderSteps
<1> QED  BY <1>1, <1>2, <1>3, <1>4, <1>5, <1>6, <1>7, <1>8, <1>9, <1>10, <1>11

\* A process is killed: what it had not recorded is torn, a package it had
\* installed is stray, and the child goes with the supervisor.
LEMMA DeathKeepsHome ==
    ASSUME InOrder, SupTypes', NEW p \in SupProcs, Die(p)
    PROVE  InOrder'
<1> USE DEF InOrder
<1>1. /\ step[p] # "off" /\ Goto(p, "off")
      /\ server' = IF p = "sup" THEN NoServer ELSE server
      /\ torn' = (torn \/ step[p] \in Applying)
      /\ oldCard' = (oldCard \/ (step[p] \in {"card", "rollback"} /\ config # card))
      /\ stray' = (stray \/ step[p] = "verify" \/ (step[p] = "record" /\ change[p].software))
      /\ missed' = (missed /\ p # "sup")
      /\ state' = [state EXCEPT ![p] = NoRecord]
      /\ doc' = [doc EXCEPT ![p] = Nothing]
      /\ saved' = [saved EXCEPT ![p] = Nothing]
      /\ change' = [change EXCEPT ![p] = NoChange]
      /\ UNCHANGED <<page, config, card, peers, package, recorded>>
  BY DEF Die, Forget, files
<1>2. /\ "off" \in Steps \ Applying /\ NoChange \in Changes /\ NoServer.up = FALSE
      /\ "sup" \in SupProcs
  BY DEF Steps, Applying, NoChange, Changes, NoServer, SupProcs
<1>4. step'[p] = "off" /\ \A q \in SupProcs \ {p} : step'[q] = step[q]
  BY <1>1 DEF Goto, SupTypes
<1>5. \A q \in SupProcs \ {p} :
          /\ doc'[q] = doc[q] /\ saved'[q] = saved[q] /\ change'[q] = change[q]
          /\ state'[q] = state[q]
  BY <1>1 DEF SupTypes
<1>6. p = "sup" => ChildKnown'
  BY <1>1, <1>2, <1>4 DEF ChildKnown, ChildEnds
<1>7. CASE step[p] = "exec"
  <2>1. UNCHANGED <<torn, oldCard, stray>>
    <3>1. step[p] \notin Applying
      BY <1>7 DEF Applying
    <3> QED  BY <1>1, <1>7, <3>1 DEF SupTypes
  <2>2. ChildKnown'
    <3>1. CASE p # "sup"
      BY <1>1, <1>2, <1>4, <1>5, <3>1 DEF ChildKnown, ChildEnds, StartedWith
    <3> QED  BY <1>6, <3>1
  <2> QED  BY <1>1, <1>5, <1>7, <2>1, <2>2, ExecEnds DEF files
<1>8. CASE step[p] \notin {"off", "exec"}
  <2>1. FilesClaim(config, peers)' /\ PackageClaim(package)'
    <3>1. CASE step[p] \in Applying
      <4>1. Progress(p) /\ torn'
        BY <1>1, <3>1
      <4>2. FilesClaim(config, peers)'
        BY <4>1 DEF FilesClaim
      <4>3. PackageClaim(package)'
        BY <1>1, <4>1 DEF PackageClaim, Progress
      <4> QED  BY <4>2, <4>3
    <3>2. CASE step[p] \notin Applying
      <4>1. NoneApplies
        BY <1>8, <3>2, OneAtWork DEF Busy, NoneApplies, Applying
      <4> QED  BY <1>1, <3>2, <4>1 DEF AtRest, FilesClaim, PackageClaim
    <3> QED  BY <3>1, <3>2
  <2>2. card' = config' \/ oldCard'
    <3>1. CASE step[p] \in {"card", "rollback"}
      BY <1>1, <3>1
    <3>2. CASE step[p] \notin {"card", "rollback"}
      <4>1. \A q \in SupProcs : step[q] \notin {"card", "rollback"}
        BY <1>8, <3>2, OneAtWork DEF Busy
      <4> QED  BY <1>1, <4>1 DEF CardKept
    <3> QED  BY <3>1, <3>2
  <2> QED  BY <1>1, <1>2, <1>6, <1>8, <2>1, <2>2, HolderSteps
<1> QED  BY <1>1, <1>7, <1>8

\* The sync is recorded: the files hold what the new page asks for.
LEMMA RecordKeepsHome ==
    ASSUME InOrder, SupTypes', NEW p \in SupProcs, Record(p)
    PROVE  InOrder'
<1> USE DEF InOrder
<1> DEFINE d == doc[p]
           sw == IF SoftwareOf[d] = Nothing THEN recorded.software ELSE SoftwareOf[d]
<1>0. state[p] = recorded
  BY DEF Copied, Applying, Record
<1>1. /\ step[p] = "record" /\ Goto(p, "done")
      /\ recorded' = [seq |-> Seq0[d], page |-> d, software |-> sw]
      /\ torn' = FALSE /\ stray' = (stray /\ package # recorded'.software)
      /\ UNCHANGED <<page, config, card, peers, package, lock, doc, saved, change, server,
                     oldCard, missed>>
  BY <1>0 DEF Record, files, Idle, locals
<1>2. recorded'.page = d /\ recorded'.software = sw
  BY <1>1
<1>3. Progress(p)
  BY <1>1 DEF Applying
<1>4. "done" \in Steps \ Applying /\ step'[p] = "done" /\ "sup" \in SupProcs
  BY <1>1 DEF Steps, Applying, Goto, SupTypes, SupProcs
<1>6. FilesClaim(config, peers)'
  BY <1>1, <1>2, <1>3 DEF FilesClaim, Progress
<1>7. PackageClaim(package)'
  <2>1. package = sw \/ (SoftwareOf[d] \in {Nothing, recorded.software} /\ PackageClaim(package))
    BY <1>1, <1>3 DEF Progress
  <2>2. CASE package = sw
    BY <1>1, <1>2, <2>2 DEF PackageClaim
  <2>3. CASE package # sw /\ SoftwareOf[d] \in {Nothing, recorded.software} /\ PackageClaim(package)
    <3>1. sw = recorded.software
      BY <2>3
    <3>2. recorded.software # Nothing => stray
      BY <2>3, <3>1 DEF PackageClaim
    <3> QED  BY <1>1, <1>2, <2>3, <3>1, <3>2 DEF PackageClaim
  <2> QED  BY <2>1, <2>2, <2>3
<1>8. card' = config' \/ oldCard'
  <2>1. \A q \in SupProcs : step[q] \notin {"card", "rollback"}
    BY <1>1, OneAtWork DEF Busy
  <2> QED  BY <1>1, <2>1 DEF CardKept
<1>9. ASSUME p = "sup"  PROVE ChildKnown'
  <2>1. change[p] = NoChange => config = saved[p].config /\ package = saved[p].package
    BY <1>1, <1>3 DEF Progress, NoChange
  <2>2. change[p] = NoChange => ~change[p].restart
    BY DEF NoChange
  <2>3. "record" \in Applying
    BY DEF Applying
  <2> QED  BY <1>1, <1>4, <1>9, <2>1, <2>2, <2>3 DEF ChildKnown, ChildEnds, StartedWith
<1> QED  BY <1>1, <1>4, <1>6, <1>7, <1>8, <1>9, HolderSteps

\* The sync is not recorded: the histories know of the files and of a child
\* that is not restarted.
LEMMA FailedRecordKeepsHome ==
    ASSUME InOrder, SupTypes', NEW p \in SupProcs, RecordFails(p)
    PROVE  InOrder'
<1> USE DEF InOrder
<1>1. /\ step[p] = "record" /\ Goto(p, "failed")
      /\ torn' = TRUE /\ stray' = (stray \/ change[p].software)
      /\ missed' = (missed \/ (server.up /\ change[p] # NoChange))
      /\ UNCHANGED <<page, config, card, peers, package, recorded, doc, saved, change, server, oldCard>>
  BY DEF RecordFails, files, Idle, locals
<1>2. Progress(p) /\ "record" \in Applying
  BY <1>1 DEF Applying
<1>3. "failed" \in Steps \ Applying /\ step'[p] = "failed" /\ "sup" \in SupProcs
  BY <1>1 DEF Steps, Applying, Goto, SupTypes, SupProcs
<1>4. FilesClaim(config, peers)' /\ PackageClaim(package)'
  BY <1>1, <1>2 DEF FilesClaim, PackageClaim, Progress
<1>5. card' = config' \/ oldCard'
  <2>1. \A q \in SupProcs : step[q] \notin {"card", "rollback"}
    BY <1>1, OneAtWork DEF Busy
  <2> QED  BY <1>1, <2>1 DEF CardKept
<1>6. ASSUME p = "sup"  PROVE ChildKnown'
  <2>1. change[p] = NoChange =>
          config = saved[p].config /\ package = saved[p].package /\ ~change[p].restart
    BY <1>1, <1>2 DEF Progress, NoChange
  <2> QED  BY <1>1, <1>2, <1>3, <1>6, <2>1 DEF ChildKnown, ChildEnds, StartedWith
<1> QED  BY <1>1, <1>3, <1>4, <1>5, <1>6, HolderSteps

\* At the end of a sync the supervisor starts, keeps or replaces its child.
LEMMA AfterwardsKeepsHome ==
    ASSUME InOrder, SupTypes',
           AfterSync \/ HealthFails \/ AfterFailure \/ StopService
           \/ \E p \in SupProcs : Release(p)
    PROVE  InOrder'
<1> USE DEF InOrder
<1>0. /\ {"sup", "thread"} \subseteq SupProcs
      /\ {"off", "exec", "sync", "done", "failed", "wait"} \subseteq Steps \ Applying
      /\ NoChange \in Changes /\ NoServer.up = FALSE
      /\ Loaded.up = TRUE /\ Loaded.config = config /\ Loaded.peers = peers
      /\ Loaded.package = package
  BY DEF Steps, Applying, NoChange, Changes, NoServer, Loaded, SupProcs
<1>1. ASSUME NEW p \in SupProcs, step[p] \in {"done", "failed", "wait"},
             UNCHANGED <<page, config, card, peers, package, recorded, torn, oldCard, stray>>
      PROVE  /\ FilesClaim(config, peers)' /\ PackageClaim(package)'
             /\ card' = config' \/ oldCard'
  <2>1. NoneApplies /\ \A q \in SupProcs : step[q] \notin {"card", "rollback"}
    BY <1>1, OneAtWork DEF Busy, NoneApplies, Applying
  <2> QED  BY <1>1, <2>1 DEF AtRest, CardKept, FilesClaim, PackageClaim
<1>3. CASE AfterSync
  <2>1. /\ step["sup"] = "done" /\ Forget("sup")
        /\ missed' = (missed /\ server' = server)
        /\ UNCHANGED <<page, config, card, peers, package, recorded, torn, oldCard, stray>>
    BY <1>3 DEF AfterSync, files, Idle, locals
  <2>2. CASE change["sup"].software
    <3>1. Goto("sup", "exec") /\ server' = NoServer
      BY <1>3, <2>2 DEF AfterSync
    <3>2. step'["sup"] = "exec"
      BY <1>0, <3>1 DEF Goto, SupTypes
    <3>3. ChildKnown'
      BY <1>0, <3>1, <3>2 DEF ChildKnown, ChildEnds, Applying
    <3> QED  BY <1>0, <1>1, <2>1, <3>1, <3>3, HolderSteps
  <2>3. CASE ~change["sup"].software
    <3>1. Goto("sup", "wait") /\ server' = StartedChild(~RestartRequired) /\ lock' = lock
      BY <1>3, <2>3 DEF AfterSync
    <3>2. step'["sup"] = "wait"
      BY <1>0, <3>1 DEF Goto, SupTypes
    <3>3. server' = Loaded \/ (server' = server /\ change["sup"] = NoChange)
      <4>1. change["sup"] \in Changes
        BY <1>0 DEF SupTypes
      <4>2. ~change["sup"].restart => change["sup"] = NoChange
        BY <2>3, <4>1 DEF Changes, NoChange
      <4> QED  BY <3>1, <4>2 DEF StartedChild, RestartRequired
    <3>4. server'.up /\ ~missed' => StartedWith(config, package, peers)'
      <4>1. CASE server' = Loaded
        BY <1>0, <2>1, <4>1 DEF StartedWith
      <4>2. CASE server' = server /\ change["sup"] = NoChange
        BY <2>1, <4>2 DEF ChildKnown, ChildEnds, StartedWith
      <4> QED  BY <3>3, <4>1, <4>2
    <3>5. ChildKnown'
      BY <3>2, <3>4 DEF ChildKnown, ChildEnds, Applying
    <3> QED  BY <1>0, <1>1, <2>1, <3>1, <3>5, HolderSteps
  <2> QED  BY <2>2, <2>3
<1>4. CASE HealthFails
  <2>1. /\ step["sup"] = "done" /\ Goto("sup", "failed")
        /\ missed' = (missed \/ (server.up /\ change["sup"] # NoChange))
        /\ UNCHANGED <<page, config, card, peers, package, recorded, lock, doc, saved, change, server,
                       torn, oldCard, stray>>
    BY <1>4 DEF HealthFails, files, Idle, locals
  <2>2. step'["sup"] = "failed"
    BY <1>0, <2>1 DEF Goto, SupTypes
  <2>3. ChildKnown'
    BY <2>1, <2>2 DEF ChildKnown, ChildEnds, StartedWith, Applying
  <2> QED  BY <1>0, <1>1, <2>1, <2>3, HolderSteps
<1>5. CASE AfterFailure
  <2>1. /\ step["sup"] = "failed" /\ Goto("sup", "wait") /\ Forget("sup")
        /\ server' = StartedChild(TRUE)
        /\ missed' = (missed /\ server.up)
        /\ UNCHANGED <<page, config, card, peers, package, recorded, lock, torn, oldCard, stray>>
    BY <1>5 DEF AfterFailure, files, Idle, locals
  <2>2. step'["sup"] = "wait"
    BY <1>0, <2>1 DEF Goto, SupTypes
  <2>3. server' = IF server.up THEN server ELSE Loaded
    BY <2>1 DEF StartedChild
  <2>4. server'.up /\ ~missed' => StartedWith(config, package, peers)'
    <3>1. CASE server.up
      BY <2>1, <2>3, <3>1 DEF ChildKnown, ChildEnds, StartedWith
    <3>2. CASE ~server.up
      BY <1>0, <2>1, <2>3, <3>2 DEF StartedWith
    <3> QED  BY <3>1, <3>2
  <2>5. ChildKnown'
    BY <2>2, <2>4 DEF ChildKnown, ChildEnds, Applying
  <2> QED  BY <1>0, <1>1, <2>1, <2>5, HolderSteps
<1>6. CASE StopService /\ step["sup"] \in {"done", "failed", "wait"}
  <2>1. /\ Goto("sup", "off") /\ server' = NoServer
        /\ UNCHANGED <<page, config, card, peers, package, recorded, torn, oldCard, stray>>
    BY <1>6 DEF StopService, files, Applying
  <2>2. step'["sup"] = "off"
    BY <1>0, <2>1 DEF Goto, SupTypes
  <2>3. ChildKnown'
    BY <1>0, <2>1, <2>2 DEF ChildKnown, ChildEnds, Applying
  <2> QED  BY <1>0, <1>1, <1>6, <2>1, <2>3, HolderSteps
<1>7. CASE StopService /\ step["sup"] \notin {"done", "failed", "wait"}
  <2>1. /\ step["sup"] \in Applying \cup {"sync"} /\ server' = NoServer
        /\ step' = Passed(step, "off")
        /\ state' = Passed(state, NoRecord) /\ doc' = Passed(doc, Nothing)
        /\ saved' = Passed(saved, Nothing) /\ change' = Passed(change, NoChange)
        /\ UNCHANGED <<page, config, card, peers, package, recorded, torn, oldCard, stray>>
    BY <1>7 DEF StopService, files
  <2>2. /\ step'["sup"] = "off" /\ step'["thread"] = step["sup"]
        /\ state'["thread"] = state["sup"] /\ doc'["thread"] = doc["sup"]
        /\ saved'["thread"] = saved["sup"] /\ change'["thread"] = change["sup"]
    BY <1>0, <2>1 DEF Passed, SupTypes
  <2>3. \A q \in SupProcs \ {"sup"} : step[q] \in {"off", "exec"}
    BY <1>0, <2>1, OneAtWork DEF Busy, Applying
  <2>4. \A q \in SupProcs \ {"sup", "thread"} : step'[q] = step[q]
    BY <2>1 DEF Passed, SupTypes
  <2>5. {"off", "exec", "sync"} \cap Applying = {}
    BY DEF Applying
  <2>6. Alone'
    BY <2>2, <2>3, <2>4 DEF Alone, Busy
  <2>7. NoneApplies' => NoneApplies
    BY <1>0, <2>2, <2>3, <2>5 DEF NoneApplies
  <2>8. AtRest'
    BY <2>1, <2>7 DEF AtRest, FilesClaim, PackageClaim
  <2>9. CardKept'
    <3>1. (\A q \in SupProcs : step'[q] \notin {"card", "rollback"}) =>
              \A q \in SupProcs : step[q] \notin {"card", "rollback"}
      BY <1>0, <2>2, <2>3
    <3> QED  BY <2>1, <3>1 DEF CardKept
  <2>10. \A q \in SupProcs : Copied(q)'
    BY <1>0, <2>1, <2>2, <2>3, <2>4, <2>5 DEF Copied
  <2>11. \A q \in SupProcs : step'[q] \in Applying => Progress(q)'
    <3> SUFFICES ASSUME NEW q \in SupProcs, step'[q] \in Applying  PROVE Progress(q)'
      OBVIOUS
    <3>1. q = "thread" /\ step["sup"] \in Applying
      BY <2>2, <2>3, <2>4, <2>5
    <3>2. Progress("sup")
      BY <1>0, <3>1
    <3> QED  BY <2>1, <2>2, <3>1, <3>2 DEF Progress, FilesClaim, PackageClaim
  <2>12. ChildKnown'
    BY <1>0, <2>1 DEF ChildKnown, ChildEnds
  <2> QED  BY <2>6, <2>8, <2>9, <2>10, <2>11, <2>12
<1>8. ASSUME NEW p \in SupProcs, Release(p)  PROVE InOrder'
  <2>1. /\ p # "sup" /\ step[p] \in {"done", "failed"} /\ Goto(p, "off")
        /\ UNCHANGED <<page, config, card, peers, package, recorded, server, torn, oldCard, stray>>
    BY <1>8 DEF Release, files, losses, Idle
  <2> QED  BY <1>0, <1>1, <2>1, HolderSteps
<1> QED  BY <1>3, <1>4, <1>5, <1>6, <1>7, <1>8

\* The world around the supervisor, and a process that begins.
LEMMA OthersKeepHome ==
    ASSUME InOrder, SupTypes',
           \/ (\E c \in Pages : Publish(c)) \/ (\E c \in Pinned : OperatorPins(c))
           \/ ServerExits \/ UNCHANGED supVars
    PROVE  InOrder'
<1> USE DEF InOrder
<1>1. ASSUME \/ \E c \in Pages : Publish(c)
             \/ UNCHANGED supVars
      PROVE  InOrder'
  <2>1. UNCHANGED <<config, card, peers, package, recorded, step, state, doc, saved, change, server,
                    torn, oldCard, stray, missed>>
    BY <1>1 DEF Publish, supVars, files, locals, losses
  <2> QED  BY <2>1 DEF Alone, Busy, Copied, AtRest, NoneApplies, CardKept, Progress, FilesClaim,
                       PackageClaim, ChildKnown, ChildEnds, StartedWith
<1>2. ASSUME NEW c \in Pinned, OperatorPins(c)  PROVE InOrder'
  <2>1. /\ peers' = peers \cup {c}
        /\ UNCHANGED <<page, config, card, package, recorded, step, state, doc, saved, change, server,
                       torn, oldCard, stray, missed>>
    BY <1>2 DEF OperatorPins, locals, losses
  <2>2. Alone' /\ CardKept' /\ \A p \in SupProcs : Copied(p)'
    BY <2>1 DEF Alone, Busy, CardKept, Copied
  <2>3. AtRest'
    BY <2>1 DEF AtRest, NoneApplies, FilesClaim, PackageClaim
  <2>4. \A p \in SupProcs : step'[p] \in Applying => Progress(p)'
    <3> SUFFICES ASSUME NEW p \in SupProcs, step[p] \in Applying  PROVE Progress(p)'
      BY <2>1
    <3> QED  BY <2>1 DEF Progress, FilesClaim, PackageClaim
  <2>5. ChildKnown'
    BY <2>1 DEF ChildKnown, ChildEnds, StartedWith
  <2> QED  BY <2>2, <2>3, <2>4, <2>5
<1>3. CASE ServerExits
  <2>1. /\ server' = NoServer
        /\ UNCHANGED <<page, config, card, peers, package, recorded, step, state, doc, saved, change,
                       torn, oldCard, stray>>
    BY <1>3 DEF ServerExits, files, locals
  <2>2. ~server'.up
    BY <2>1 DEF NoServer
  <2>3. Alone' /\ CardKept' /\ AtRest' /\ \A p \in SupProcs : Copied(p)'
    BY <2>1 DEF Alone, Busy, CardKept, AtRest, NoneApplies, FilesClaim, PackageClaim, Copied
  <2>4. \A p \in SupProcs : step'[p] \in Applying => Progress(p)'
    BY <2>1 DEF Progress, FilesClaim, PackageClaim
  <2> QED  BY <2>2, <2>3, <2>4 DEF ChildKnown, ChildEnds
<1> QED  BY <1>1, <1>2, <1>3

\* A process that begins, or takes up its work without the lock.
LEMMA BeginningsKeepHome ==
    ASSUME HomeInv, SupTypes',
           Wake \/ Boot \/ ExecFails \/ (\E p \in SupProcs : Acquire(p)),
           ~mixed'
    PROVE  InOrder'
<1> USE DEF HomeInv, HomeBase
<1>0. "sup" \in SupProcs /\ \A p \in SupProcs : p # Nothing
  BY SupervisorAssumption DEF SupProcs
<1>a. ASSUME NEW p \in SupProcs, lock = Nothing, step[p] \in {"off", "exec"}, Begins(p),
             UNCHANGED <<config, card, peers, package, recorded, doc, saved, change, server>>
      PROVE  InOrder'
  <2>1. /\ Joins(p, loose \ {p}) /\ Goto(p, "sync")
        /\ state' = [state EXCEPT ![p] = recorded]
    BY <1>a DEF Begins
  <2>2. \A q \in SupProcs \ {p} : Busy(q) => {p, q} \cap (loose \ {p}) # {}
    BY <1>0, <1>a DEF Locked
  <2>3. state'[p] = recorded
    BY <2>1 DEF SupTypes
  <2> QED  BY <1>a, <2>1, <2>2, <2>3, AloneBegins
<1>1. ASSUME NEW p \in SupProcs, Acquire(p)  PROVE InOrder'
  BY <1>1, <1>a DEF Acquire, files
<1>2. CASE Boot
  <2>1. /\ step["sup"] = "exec"
        /\ UNCHANGED <<config, card, peers, package, recorded, doc, saved, change, server>>
    BY <1>2 DEF Boot, files
  <2>2. CASE lock = Nothing
    BY <1>0, <1>2, <1>a, <2>1, <2>2 DEF Boot
  <2>3. CASE lock # Nothing
    <3>1. /\ Goto("sup", "off")
          /\ UNCHANGED <<state, torn, oldCard, stray, missed, mixed>>
      BY <1>2, <2>3 DEF Boot, losses
    <3>2. step'["sup"] = "off" /\ ~server.up
      BY <1>0, <2>1, <3>1 DEF SupTypes, Goto, ChildEnds
    <3>3. ChildKnown'
      BY <2>1, <3>2 DEF ChildKnown, ChildEnds
    <3> QED  BY <1>0, <2>1, <3>1, <3>3, ExecEnds DEF files
  <2> QED  BY <2>2, <2>3
<1>3. CASE ExecFails
  <2>1. PICK w : /\ Joins("sup", w)
                 /\ (lock = Nothing /\ w = loose \ {"sup"}) \/ "sup" \in w
    BY <1>3 DEF ExecFails
  <2>2. \A q \in SupProcs \ {"sup"} : Busy(q) => {"sup", q} \cap w # {}
    BY <1>0, <2>1 DEF Locked
  <2>3. /\ step["sup"] = "exec" /\ Goto("sup", "failed")
        /\ UNCHANGED <<config, card, peers, package, recorded, doc, saved, change, server>>
    BY <1>3 DEF ExecFails, files, locals
  <2> QED  BY <1>0, <2>1, <2>2, <2>3, AloneBegins
<1>4. CASE Wake
  <2>1. /\ step["sup"] = "wait" /\ Goto("sup", "sync") /\ Joins("sup", loose)
        /\ state' = [state EXCEPT !["sup"] = recorded]
        /\ UNCHANGED <<config, card, peers, package, recorded, doc, saved, change, server>>
    BY <1>4 DEF Wake, files
  <2>2. \A q \in SupProcs \ {"sup"} : Busy(q) => {"sup", q} \cap loose # {}
    BY <1>0, <2>1 DEF Locked, Busy
  <2>3. state'["sup"] = recorded
    BY <1>0, <2>1 DEF SupTypes
  <2> QED  BY <1>0, <2>1, <2>2, <2>3, AloneBegins
<1> QED  BY <1>1, <1>2, <1>3, <1>4

\* What the state file of the control page records, what the files of the
\* home hold and what the child was started with agree at every rest of the
\* supervisor (run_supervisor, _sync_remote_control_unlocked), whichever
\* process is killed or cancelled between two writes and whatever fails, but
\* for what HomeIsCurrent names.  The invariant follows a sync write by write
\* and says which processes may be at work without the lock: HomeIsCurrent
\* says nothing of the files while a sync is under way.
THEOREM HomeStaysCurrent == SupSpec => []HomeIsCurrent
<1>1. SupInit => HomeInv
  <2> SUFFICES ASSUME SupInit  PROVE HomeInv
    OBVIOUS
  <2>1. /\ step = [p \in SupProcs |-> "off"] /\ "sup" \in SupProcs
        /\ "off" \notin Applying \cup {"sync"}
        /\ recorded.page = Nothing /\ recorded.software = Nothing
        /\ ~server.up
    BY DEF SupInit, SupProcs, Applying, NoServer, NoRecord
  <2>2. SupTypes
    BY <2>1 DEF SupInit, SupTypes, Steps, Changes, NoChange, NoRecord
  <2>3. Locked /\ Alone /\ CardKept /\ \A p \in SupProcs : Copied(p)
    BY <2>1 DEF SupInit, Locked, Alone, Busy, CardKept, Copied
  <2>4. AtRest
    BY <2>1 DEF AtRest, FilesClaim, PackageClaim
  <2>5. ChildKnown /\ ChildEnds
    BY <2>1 DEF ChildKnown, ChildEnds
  <2> QED  BY <2>1, <2>2, <2>3, <2>4, <2>5 DEF HomeInv, HomeBase, InOrder
<1>2. HomeInv /\ [SupNext]_supVars => HomeInv'
  <2> SUFFICES ASSUME HomeInv, [SupNext]_supVars  PROVE HomeInv'
    OBVIOUS
  <2>1. HomeBase' /\ SupTypes'
    BY BaseKept DEF HomeInv, HomeBase
  <2>2. ASSUME Wake \/ Boot \/ ExecFails \/ (\E p \in SupProcs : Acquire(p))
        PROVE  HomeInv'
    BY <2>1, <2>2, BeginningsKeepHome DEF HomeInv
  <2>3. ASSUME UNCHANGED mixed, InOrder => InOrder'  PROVE HomeInv'
    BY <2>1, <2>3 DEF HomeInv
  <2>4. ASSUME NEW p \in SupProcs,
               \/ Fetch(p) \/ FetchFails(p) \/ ApplyConfig(p) \/ ApplyCard(p) \/ ApplyNodes(p)
               \/ ApplyFails(p) \/ Install(p) \/ VerifySoftware(p) \/ InstallFails(p)
               \/ Rollback(p) \/ RollbackFails(p) \/ Record(p) \/ RecordFails(p)
        PROVE  HomeInv'
    <3>1. UNCHANGED mixed
      BY <2>4, SyncHoldsLock DEF HomeInv, HomeBase
    <3>2. InOrder => InOrder'
      BY <2>1, <2>4, SyncKeepsHome, RecordKeepsHome, FailedRecordKeepsHome
    <3> QED  BY <2>3, <3>1, <3>2
  <2>5. ASSUME NEW p \in SupProcs, Die(p)  PROVE HomeInv'
    <3>1. UNCHANGED mixed
      BY <2>5 DEF Die
    <3> QED  BY <2>1, <2>3, <2>5, <3>1, DeathKeepsHome
  <2>6. ASSUME AfterSync \/ HealthFails \/ AfterFailure \/ StopService
               \/ \E p \in SupProcs : Release(p)
        PROVE  HomeInv'
    <3>1. UNCHANGED mixed
      BY <2>6 DEF AfterSync, HealthFails, AfterFailure, StopService, Release
    <3> QED  BY <2>1, <2>3, <2>6, <3>1, AfterwardsKeepsHome
  <2>7. ASSUME \/ (\E c \in Pages : Publish(c)) \/ (\E c \in Pinned : OperatorPins(c))
               \/ ServerExits \/ UNCHANGED supVars
        PROVE  HomeInv'
    <3>1. UNCHANGED mixed
      BY <2>7 DEF Publish, OperatorPins, ServerExits, supVars
    <3> QED  BY <2>1, <2>3, <2>7, <3>1, OthersKeepHome
  <2> QED  BY <2>2, <2>4, <2>5, <2>6, <2>7 DEF SupNext, SyncStep
<1>3. HomeInv => HomeIsCurrent
  <2> SUFFICES ASSUME InOrder  PROVE RecordedIsApplied /\ ChildIsCurrent
    BY DEF HomeInv, HomeIsCurrent
  <2> USE DEF InOrder
  <2>1. RecordedIsApplied
    <3>1. NoneApplies => \A p \in SupProcs : step[p] \notin {"card", "rollback"}
      BY DEF NoneApplies, Applying
    <3> QED  BY <3>1 DEF RecordedIsApplied, AtRest, NoneApplies, CardKept, FilesClaim, PackageClaim
  <2>2. ChildIsCurrent
    <3> SUFFICES ASSUME step["sup"] = "wait", server.up, ~missed
                 PROVE  /\ server.config = config
                        /\ server.package = package
                        /\ recorded.page # Nothing /\ ~torn =>
                              NodesOf[recorded.page] \subseteq server.peers \cup Pinned
      BY DEF ChildIsCurrent
    <3>1. NoneApplies
      BY OneAtWork DEF Busy, NoneApplies, Applying, SupProcs
    <3> QED  BY <3>1 DEF AtRest, FilesClaim, ChildKnown, StartedWith
  <2> QED  BY <2>1, <2>2
<1> QED  BY <1>1, <1>2, <1>3, PTL DEF SupSpec

-----------------------------------------------------------------------------
(* Disclosure series.                                                      *)

PageType == [seq : Nat, after : Nat, acts : SUBSET Nat, next : Nat, issued : Nat]
ScheduleType == [state : {"none", "active", "revoked"}, cursor : Nat, base : Nat, seq : Nat,
                 pending : PageType \cup {NoPage}]

\* A page tells all of a log that has its last event, from its cursor on; the
\* first page of the series starts at the baseline.
GoodPage(p, logs, base, n) ==
    /\ p \in PageType /\ p.after < p.next /\ p.next <= n
    /\ p.seq = 0 => p.after = base
    /\ \A log \in logs : p.next \in log =>
         KnownCursor(log, p.after) /\ p.acts = Activities(log, p.after, p.next)

\* A copy of the schedule file, as old as it may be.
GoodCopy(s, logs, base, n) ==
    /\ s \in ScheduleType /\ s.base = base
    /\ s.seq = 0 => s.cursor = base
    /\ s.pending # NoPage => GoodPage(s.pending, logs, base, n)

Logs == {events} \cup {runner[q].log : q \in Runners}

\* Up to an event they share, two logs are the same.
Agree(log, other) ==
    \A e \in log : e \in other => \A x \in Nat : x <= e => (x \in log <=> x \in other)

Stages == {"idle", "begun", "loaded", "prepared", "queued", "archived"}
Working == {"loaded", "prepared", "queued", "archived"}
Sending == {"prepared", "queued", "archived"}

RunnerType == [at : Stages, log : SUBSET Nat, copy : ScheduleType]

DisclosureTypes ==
    /\ born \in Nat /\ prepared \in Nat
    /\ \A log \in Logs : log \subseteq 1..born
    /\ runner \in [Runners -> RunnerType]

\* What a process has in hand: an active copy, the page it sends, and that page
\* in the mail once it is queued.
GoodRunner(r, logs, base, n, box) ==
    /\ r.at \in Working => r.copy.state = "active" /\ GoodCopy(r.copy, logs, base, n)
    /\ r.at \in Sending => GoodPage(r.copy.pending, logs, base, n)
    /\ r.at \in {"queued", "archived"} => r.copy.pending \in box

RunnersAreGood == \A q \in Runners : GoodRunner(runner[q], Logs, schedule.base, born, mail)

BeforeSchedule ==
    schedule.state = "none" =>
        mail = {} /\ ~view.continuous /\ \A q \in Runners : runner[q].at = "idle"

ViewIsTrue ==
    view.continuous =>
        /\ view.through \in Nat /\ view.through <= born
        /\ view.through \in events => view.told = Activities(events, schedule.base, view.through)

DisclosureInv ==
    /\ DisclosureTypes
    /\ \A log, other \in Logs : Agree(log, other)
    /\ GoodCopy(schedule, Logs, schedule.base, born) /\ RunnersAreGood
    /\ \A p \in mail : GoodPage(p, Logs, schedule.base, born)
    /\ reported \subseteq mail /\ archived \subseteq mail
    /\ BeforeSchedule /\ ViewIsTrue

\* A set of numbers that has a member has a least one.
LEMMA LeastNatural ==
  ASSUME NEW T, T \subseteq Nat, T # {}
  PROVE  \E n \in T : \A m \in T : n <= m
<1> DEFINE R == OpToRel(<, Nat)
<1>1. IsWellFoundedOn(R, Nat)
  BY NatLessThanWellFounded
<1>2. \A x, y \in Nat : y < x => <<y, x>> \in R
  BY DEF OpToRel
<1> HIDE DEF R
<1>3. PICK x \in T : \A y \in T : ~ (<<y, x>> \in R)
  BY <1>1, WFMin
<1>4. ASSUME NEW y \in T PROVE x <= y
  <2>1. x \in Nat /\ y \in Nat
    OBVIOUS
  <2>2. ~(y < x)
    BY <1>2, <1>3, <2>1
  <2> QED
    BY <2>1, <2>2
<1> QED
  BY <1>4

\* In a series without gaps, repetitions and broken links every page but the
\* first follows another one, and every page but the last has a successor.
LEMMA SeriesLinks ==
  ASSUME NEW pages, \A p \in pages : p \in PageType, Continuous(pages),
         NEW last \in pages, \A p \in pages : p.seq <= last.seq
  PROVE  /\ \A p \in pages : p.seq = last.seq => p = last
         /\ \A p \in pages : p.seq # last.seq => \E q \in pages : q.seq = p.seq + 1 /\ q.after = p.next
         /\ \A p \in pages : p.seq # 0 => \E q \in pages : p.seq = q.seq + 1 /\ p.after = q.next
<1>1. \A p \in pages : p.seq \in Nat
  BY DEF PageType
<1>2. \A k \in Nat : k <= last.seq => \E p \in pages : p.seq = k
  <2> SUFFICES ASSUME NEW k \in Nat, k <= last.seq PROVE k \in SeqsOf(pages)
    BY DEF SeqsOf
  <2>1. k \in 0 .. last.seq /\ last.seq \in SeqsOf(pages)
    BY <1>1 DEF SeqsOf
  <2> DEFINE S == SeqsOf(pages)
             U == UNION {0 .. m : m \in S}
  <2>2. k \in U
    BY <2>1
  <2>3. U \ S = {}
    BY DEF Continuous, Missing
  <2> HIDE DEF S, U
  <2> QED
    BY <2>2, <2>3 DEF S
<1>3. \A p, q \in pages : q.seq = p.seq + 1 => q.after = p.next
  BY DEF Continuous, BrokenLink
<1>4. \A p, q \in pages : p.seq = q.seq => p = q
  BY DEF Continuous, Duplicates
<1>5. ASSUME NEW p \in pages, p.seq # last.seq
      PROVE  \E q \in pages : q.seq = p.seq + 1 /\ q.after = p.next
  <2>1. p.seq + 1 \in Nat /\ p.seq + 1 <= last.seq
    BY <1>1, <1>5
  <2>2. PICK q \in pages : q.seq = p.seq + 1
    BY <1>2, <2>1
  <2> QED
    BY <1>3, <2>2
<1>6. ASSUME NEW p \in pages, p.seq # 0
      PROVE  \E q \in pages : p.seq = q.seq + 1 /\ p.after = q.next
  <2>1. p.seq - 1 \in Nat /\ p.seq - 1 <= last.seq /\ p.seq = (p.seq - 1) + 1
    BY <1>1, <1>6
  <2>2. PICK q \in pages : q.seq = p.seq - 1
    BY <1>2, <2>1
  <2>3. p.seq = q.seq + 1
    BY <2>1, <2>2
  <2> QED
    BY <1>3, <2>3
<1> QED
  BY <1>4, <1>5, <1>6

\* Such a series tells what is between its baseline and its last event.
LEMMA SeriesTells ==
  ASSUME NEW pages, NEW log, log \subseteq Nat, NEW base \in Nat, NEW n \in Nat,
         \A p \in pages : GoodPage(p, {log}, base, n), Continuous(pages),
         NEW last \in pages, \A p \in pages : p.seq <= last.seq, last.next \in log
  PROVE  Told(pages) = Activities(log, base, last.next)
<1>1. \A p \in pages : /\ p \in PageType /\ p.after < p.next /\ (p.seq = 0 => p.after = base)
                       /\ p.seq \in Nat /\ p.after \in Nat /\ p.next \in Nat
  BY DEF GoodPage, PageType
<1>2. \A p \in pages : p.next \in log => (p.after = 0 \/ p.after \in log)
                                         /\ p.acts = Activities(log, p.after, p.next)
  BY DEF GoodPage, KnownCursor
<1>3. /\ \A p \in pages : p.seq = last.seq => p = last
      /\ \A p \in pages : p.seq # last.seq => \E q \in pages : q.seq = p.seq + 1 /\ q.after = p.next
      /\ \A p \in pages : p.seq # 0 => \E q \in pages : p.seq = q.seq + 1 /\ p.after = q.next
  BY <1>1, SeriesLinks
\* Backwards from the last page: the log has every page.
<1>4. \A p \in pages : p.next \in log /\ p.next <= last.next
  <2> DEFINE Lost(p) == ~(p.next \in log /\ p.next <= last.next)
             T == {d \in Nat : \E p \in pages : p.seq + d = last.seq /\ Lost(p)}
  <2>1. SUFFICES T = {}
    <3>1. ASSUME NEW p \in pages PROVE last.seq - p.seq \in Nat /\ p.seq + (last.seq - p.seq) = last.seq
      BY <1>1
    <3> QED
      BY <2>1, <3>1
  <2>2. SUFFICES ASSUME T # {} PROVE FALSE
    OBVIOUS
  <2>3. PICK d \in T : \A m \in T : d <= m
    BY <2>2, LeastNatural
  <2>4. PICK p \in pages : p.seq + d = last.seq /\ Lost(p)
    OBVIOUS
  <2>5. p.seq # last.seq
    BY <1>1, <1>3, <2>4
  <2>6. PICK q \in pages : q.seq = p.seq + 1 /\ q.after = p.next
    BY <1>3, <2>5
  <2>7. d - 1 \in Nat /\ q.seq + (d - 1) = last.seq /\ ~(d <= d - 1)
    BY <1>1, <2>4, <2>5, <2>6
  <2>8. ~Lost(q)
    BY <2>3, <2>7
  <2> QED
    BY <1>1, <1>2, <2>4, <2>6, <2>8
\* Forwards from the first page: nothing is before the baseline.
<1>5. \A p \in pages : base <= p.after
  <2> DEFINE T == {k \in Nat : \E p \in pages : p.seq = k /\ ~(base <= p.after)}
  <2>1. SUFFICES ASSUME T # {} PROVE FALSE
    BY <1>1
  <2>2. PICK k \in T : \A m \in T : k <= m
    BY <2>1, LeastNatural
  <2>3. PICK p \in pages : p.seq = k /\ ~(base <= p.after)
    OBVIOUS
  <2>4. p.seq # 0
    BY <1>1, <2>3
  <2>5. PICK q \in pages : p.seq = q.seq + 1 /\ p.after = q.next
    BY <1>3, <2>4
  <2>6. q.seq \in Nat /\ ~(k <= q.seq)
    BY <1>1, <2>3, <2>5
  <2>7. base <= q.after
    BY <2>2, <2>6
  <2> QED
    BY <1>1, <2>3, <2>5, <2>7
<1>6. ASSUME NEW p \in pages, NEW x \in p.acts PROVE x \in Activities(log, base, last.next)
  <2>1. x \in log /\ p.after < x /\ x <= p.next /\ InScope(x)
    BY <1>2, <1>4 DEF Activities
  <2>2. base < x /\ x <= last.next
    BY <1>1, <1>4, <1>5, <2>1
  <2> QED
    BY <2>1, <2>2 DEF Activities
\* An event is on the first page that ends behind it.
<1>7. ASSUME NEW x \in Activities(log, base, last.next) PROVE \E p \in pages : x \in p.acts
  <2>1. x \in log /\ x \in Nat /\ base < x /\ x <= last.next /\ InScope(x)
    BY DEF Activities
  <2> DEFINE T == {k \in Nat : \E p \in pages : p.seq = k /\ x <= p.next}
  <2>2. last.seq \in T
    BY <1>1, <2>1
  <2>3. PICK k \in T : \A m \in T : k <= m
    BY <2>2, LeastNatural
  <2>4. PICK p \in pages : p.seq = k /\ x <= p.next
    OBVIOUS
  <2>5. p.after < x
    <3>1. CASE p.seq = 0
      BY <1>1, <2>1, <3>1
    <3>2. CASE p.seq # 0
      <4>1. PICK q \in pages : p.seq = q.seq + 1 /\ p.after = q.next
        BY <1>3, <3>2
      <4>2. q.seq \in Nat /\ ~(k <= q.seq)
        BY <1>1, <2>4, <4>1
      <4>3. ~(x <= q.next)
        BY <2>3, <4>2
      <4> QED
        BY <1>1, <2>1, <4>1, <4>3
    <3> QED
      BY <3>1, <3>2
  <2>6. x \in Activities(log, p.after, p.next)
    BY <2>1, <2>4, <2>5 DEF Activities
  <2> QED
    BY <1>2, <1>4, <2>6
<1> QED
  BY <1>6, <1>7 DEF Told

\* A log that continues, with younger events than n, what was there of another.
Descends(log, other, n) ==
    \A e \in log : e <= n => e \in other /\ \A x \in Nat : x <= e => (x \in log <=> x \in other)

\* What is known of a page outlives appended events and logs saved from old
\* copies.
LEMMA PageStays ==
  ASSUME NEW logs, NEW logs2, NEW base, NEW n \in Nat, NEW m \in Nat, n <= m,
         \A log \in logs2 : log \subseteq Nat /\ \E other \in logs : Descends(log, other, n),
         \A log \in logs : log \subseteq Nat,
         NEW p, GoodPage(p, logs, base, n)
  PROVE  GoodPage(p, logs2, base, m)
<1>1. /\ p \in PageType /\ p.after \in Nat /\ p.next \in Nat /\ p.after < p.next /\ p.next <= n
      /\ p.seq = 0 => p.after = base
  BY DEF GoodPage, PageType
<1>2. ASSUME NEW log \in logs2, p.next \in log
      PROVE  KnownCursor(log, p.after) /\ p.acts = Activities(log, p.after, p.next)
  <2>1. PICK other \in logs : Descends(log, other, n)
    OBVIOUS
  <2>2. log \subseteq Nat /\ other \subseteq Nat
    OBVIOUS
  <2>3. p.next \in other /\ \A x \in Nat : x <= p.next => (x \in log <=> x \in other)
    BY <1>1, <1>2, <2>1 DEF Descends
  <2>4. KnownCursor(other, p.after) /\ p.acts = Activities(other, p.after, p.next)
    BY <2>3 DEF GoodPage
  <2>5. KnownCursor(log, p.after)
    BY <1>1, <2>3, <2>4 DEF KnownCursor
  <2>6. Activities(log, p.after, p.next) = Activities(other, p.after, p.next)
    BY <2>2, <2>3 DEF Activities
  <2> QED
    BY <2>4, <2>5, <2>6
<1> QED
  BY <1>1, <1>2 DEF GoodPage

\* The same for a copy of the schedule and for a process.
LEMMA RunnerStays ==
  ASSUME NEW logs, NEW logs2, NEW base, NEW n \in Nat, NEW m \in Nat, n <= m,
         \A log \in logs2 : log \subseteq Nat /\ \E other \in logs : Descends(log, other, n),
         \A log \in logs : log \subseteq Nat, NEW box, NEW box2, box \subseteq box2
  PROVE  /\ \A s : GoodCopy(s, logs, base, n) => GoodCopy(s, logs2, base, m)
         /\ \A r : GoodRunner(r, logs, base, n, box) => GoodRunner(r, logs2, base, m, box2)
<1>1. \A p : GoodPage(p, logs, base, n) => GoodPage(p, logs2, base, m)
  BY PageStays
<1>2. \A s : GoodCopy(s, logs, base, n) => GoodCopy(s, logs2, base, m)
  BY <1>1 DEF GoodCopy
<1> QED
  BY <1>1, <1>2 DEF GoodRunner

\* A step of a process: it may read the log, forget it, save its copy of the
\* schedule, send its page.
LEMMA RunnerMoves ==
  ASSUME DisclosureInv, UNCHANGED <<events, born, reported, view>>, prepared' \in Nat,
         NEW q \in Runners, NEW r \in RunnerType, r.log \in {runner[q].log, events, {}},
         runner' = [runner EXCEPT ![q] = r], GoodRunner(r, Logs, schedule.base, born, mail'),
         schedule.state # "none", schedule'.state # "none",
         GoodCopy(schedule', Logs, schedule.base, born),
         mail \subseteq mail', \A p \in mail' : GoodPage(p, Logs, schedule.base, born),
         archived' \subseteq mail'
  PROVE  DisclosureInv'
<1>1. /\ born \in Nat /\ \A log \in Logs : log \subseteq 1..born
      /\ runner \in [Runners -> RunnerType] /\ \A log, other \in Logs : Agree(log, other)
  BY DEF DisclosureInv, DisclosureTypes
<1>2. /\ runner' \in [Runners -> RunnerType] /\ runner'[q] = r
      /\ \A x \in Runners \ {q} : runner'[x] = runner[x]
  BY <1>1
<1>3. Logs' \subseteq Logs \cup {{}}
  BY <1>2 DEF Logs
<1>4. \A log \in Logs' : log \subseteq 1..born
  BY <1>1, <1>3
<1>5. \A log, other \in Logs' : Agree(log, other)
  BY <1>1, <1>3 DEF Agree
<1>6. events \in Logs
  BY DEF Logs
<1>7. \A log \in Logs' : log \subseteq Nat /\ \E other \in Logs : Descends(log, other, born)
  <2> SUFFICES ASSUME NEW log \in Logs'
               PROVE  log \subseteq Nat /\ \E other \in Logs : Descends(log, other, born)
    OBVIOUS
  <2>1. log \subseteq Nat
    BY <1>1, <1>4
  <2>2. CASE log \in Logs
    BY <2>1, <2>2 DEF Descends
  <2>3. CASE log = {}
    BY <1>6, <2>1, <2>3 DEF Descends
  <2> QED
    BY <1>3, <2>1, <2>2, <2>3
<1>8. \A log \in Logs : log \subseteq Nat
  BY <1>1
<1>9. \A p : GoodPage(p, Logs, schedule.base, born) => GoodPage(p, Logs', schedule.base, born)
  BY <1>1, <1>7, <1>8, PageStays
<1>10. /\ \A s : GoodCopy(s, Logs, schedule.base, born) => GoodCopy(s, Logs', schedule.base, born)
       /\ \A x : GoodRunner(x, Logs, schedule.base, born, mail)
            => GoodRunner(x, Logs', schedule.base, born, mail')
  <2>1. \A s : GoodCopy(s, Logs, schedule.base, born) => GoodCopy(s, Logs', schedule.base, born)
    BY <1>9 DEF GoodCopy
  <2> QED
    BY <1>9, <2>1 DEF GoodRunner
<1>11. GoodRunner(r, Logs', schedule.base, born, mail')
  BY <1>9, <1>10 DEF GoodRunner
<1>12. schedule'.base = schedule.base
  BY DEF GoodCopy
<1>13. DisclosureTypes'
  BY <1>1, <1>2, <1>4 DEF DisclosureTypes
<1>14. RunnersAreGood'
  BY <1>2, <1>10, <1>11, <1>12 DEF RunnersAreGood, DisclosureInv
<1>15. GoodCopy(schedule', Logs', schedule'.base, born')
  BY <1>10, <1>12
<1>16. \A p \in mail' : GoodPage(p, Logs', schedule'.base, born')
  BY <1>9, <1>12
<1>17. reported' \subseteq mail' /\ BeforeSchedule'
  BY DEF DisclosureInv, BeforeSchedule
<1>18. ViewIsTrue'
  BY <1>12 DEF DisclosureInv, ViewIsTrue
<1> QED
  BY <1>5, <1>13, <1>14, <1>15, <1>16, <1>17, <1>18 DEF DisclosureInv

\* The log grows, or is saved from an old copy that ends at k.
LEMMA LogMoves ==
  ASSUME DisclosureInv, born' = born + 1, NEW k \in Nat,
         events' = {e \in events : e <= k} \cup {born + 1},
         UNCHANGED <<schedule, runner, prepared, archived, mail, reported, view>>
  PROVE  DisclosureInv'
<1>1. /\ born \in Nat /\ \A log \in Logs : log \subseteq 1..born
      /\ runner \in [Runners -> RunnerType] /\ \A log, other \in Logs : Agree(log, other)
      /\ prepared \in Nat
  BY DEF DisclosureInv, DisclosureTypes
<1>2. events \in Logs /\ events \subseteq 1..born
  BY <1>1 DEF Logs
<1>3. Logs' \subseteq Logs \cup {events'}
  BY DEF Logs
<1>4. events' \subseteq 1..(born + 1) /\ \A log \in Logs' : log \subseteq 1..(born + 1)
  <2>1. 1..born \subseteq 1..(born + 1) /\ born + 1 \in 1..(born + 1)
    BY <1>1
  <2>2. events' \subseteq 1..(born + 1)
    BY <1>2, <2>1
  <2>3. \A log \in Logs : log \subseteq 1..(born + 1)
    BY <1>1, <2>1
  <2> QED
    BY <1>3, <2>2, <2>3
<1>5. Descends(events', events, born)
  BY <1>1, <1>2 DEF Descends
<1>6. \A log \in Logs : log \subseteq Nat
  BY <1>1
<1>7. \A log \in Logs' : log \subseteq Nat /\ \E other \in Logs : Descends(log, other, born)
  <2> SUFFICES ASSUME NEW log \in Logs'
               PROVE  log \subseteq Nat /\ \E other \in Logs : Descends(log, other, born)
    OBVIOUS
  <2>1. log \subseteq Nat
    BY <1>1, <1>4
  <2>2. CASE log \in Logs
    BY <2>1, <2>2 DEF Descends
  <2>3. CASE log = events'
    BY <1>2, <1>5, <2>1, <2>3
  <2> QED
    BY <1>3, <2>1, <2>2, <2>3
\* A new number is in no other log; an old one was there before.
<1>8. \A log, other \in Logs' : Agree(log, other)
  <2>1. \A log \in Logs : Agree(log, events') /\ Agree(events', log)
    <3> SUFFICES ASSUME NEW log \in Logs, NEW e \in log, e \in events', NEW x \in Nat, x <= e
                 PROVE  x \in log <=> x \in events'
      BY DEF Agree
    <3>1. e \in 1..born
      BY <1>1
    <3>2. e <= born /\ e \in events /\ (x \in events <=> x \in events')
      BY <1>1, <1>5, <3>1 DEF Descends
    <3>3. x \in log <=> x \in events
      BY <1>1, <1>2, <3>2 DEF Agree
    <3> QED
      BY <3>2, <3>3
  <2>2. Agree(events', events')
    BY DEF Agree
  <2> QED
    BY <1>1, <1>3, <2>1, <2>2
<1>9. born <= born' /\ born' \in Nat
  BY <1>1
<1>10. \A p : GoodPage(p, Logs, schedule.base, born) => GoodPage(p, Logs', schedule.base, born')
  BY <1>1, <1>6, <1>7, <1>9, PageStays
<1>11. /\ \A s : GoodCopy(s, Logs, schedule.base, born) => GoodCopy(s, Logs', schedule.base, born')
       /\ \A r : GoodRunner(r, Logs, schedule.base, born, mail)
            => GoodRunner(r, Logs', schedule.base, born', mail)
  BY <1>1, <1>6, <1>7, <1>9, RunnerStays
<1>12. DisclosureTypes'
  BY <1>1, <1>4, <1>9 DEF DisclosureTypes
<1>13. RunnersAreGood' /\ GoodCopy(schedule', Logs', schedule'.base, born')
  BY <1>11 DEF RunnersAreGood, DisclosureInv
<1>14. (\A p \in mail : GoodPage(p, Logs, schedule.base, born))'
  BY <1>10 DEF DisclosureInv
<1>15. BeforeSchedule' /\ reported' \subseteq mail' /\ archived' \subseteq mail'
  BY DEF DisclosureInv, BeforeSchedule
<1>16. ViewIsTrue'
  <2> SUFFICES ASSUME view.continuous
               PROVE  /\ view.through \in Nat /\ view.through <= born + 1
                      /\ view.through \in events' =>
                           view.told = Activities(events', schedule.base, view.through)
    BY DEF ViewIsTrue
  <2>1. /\ view.through \in Nat /\ view.through <= born
        /\ view.through \in events => view.told = Activities(events, schedule.base, view.through)
    BY DEF DisclosureInv, ViewIsTrue
  <2>2. ASSUME view.through \in events'
        PROVE  view.told = Activities(events', schedule.base, view.through)
    <3>1. view.through \in events /\ \A x \in Nat : x <= view.through => (x \in events' <=> x \in events)
      BY <1>5, <2>1, <2>2 DEF Descends
    <3>2. events \subseteq Nat /\ events' \subseteq Nat
      BY <1>1, <1>2, <1>4
    <3>3. Activities(events', schedule.base, view.through) = Activities(events, schedule.base, view.through)
      BY <3>1, <3>2 DEF Activities
    <3> QED
      BY <2>1, <3>1, <3>3
  <2> QED
    BY <1>1, <2>1, <2>2
<1> QED
  BY <1>8, <1>12, <1>13, <1>14, <1>15, <1>16 DEF DisclosureInv

\* Whatever runners race, die and retry, whatever is lost, repeated and sent
\* again, the pages on their way stay true to the logs that have them.
LEMMA DisclosureInductive == DisclosureSpec => []DisclosureInv
<1>1. DisclosureInit => DisclosureInv
  <2> SUFFICES ASSUME DisclosureInit PROVE DisclosureInv
    OBVIOUS
  <2>1. NoSchedule \in ScheduleType
    BY DEF NoSchedule, ScheduleType
  <2>2. Resting \in RunnerType /\ Resting.at = "idle" /\ Resting.log = {}
    BY <2>1 DEF Resting, RunnerType, Stages
  <2>3. runner \in [Runners -> RunnerType] /\ \A q \in Runners : runner[q] = Resting
    BY <2>2 DEF DisclosureInit
  <2>4. \A log \in Logs : log = {}
    BY <2>2, <2>3 DEF Logs, DisclosureInit
  <2>5. DisclosureTypes /\ \A log, other \in Logs : Agree(log, other)
    BY <2>3, <2>4 DEF DisclosureTypes, DisclosureInit, Agree
  <2>6. GoodCopy(schedule, Logs, schedule.base, born)
    BY <2>1 DEF GoodCopy, DisclosureInit, NoSchedule
  <2>7. RunnersAreGood
    BY <2>2, <2>3 DEF RunnersAreGood, GoodRunner, Working, Sending
  <2>8. BeforeSchedule /\ ViewIsTrue
    BY <2>2, <2>3 DEF BeforeSchedule, ViewIsTrue, DisclosureInit, NoView
  <2> QED
    BY <2>5, <2>6, <2>7, <2>8 DEF DisclosureInv, DisclosureInit
<1>2. DisclosureInv /\ [DisclosureNext]_disclosureVars => DisclosureInv'
  <2> SUFFICES ASSUME DisclosureInv, [DisclosureNext]_disclosureVars PROVE DisclosureInv'
    OBVIOUS
  <2>1. /\ born \in Nat /\ prepared \in Nat /\ runner \in [Runners -> RunnerType]
        /\ \A log \in Logs : log \subseteq 1..born
        /\ \A log, other \in Logs : Agree(log, other)
        /\ GoodCopy(schedule, Logs, schedule.base, born) /\ RunnersAreGood
        /\ \A p \in mail : GoodPage(p, Logs, schedule.base, born)
        /\ reported \subseteq mail /\ archived \subseteq mail /\ BeforeSchedule /\ ViewIsTrue
    BY DEF DisclosureInv, DisclosureTypes
  <2>2. events \in Logs /\ events \subseteq 1..born /\ schedule \in ScheduleType /\ schedule.base \in Nat
    BY <2>1 DEF Logs, GoodCopy, ScheduleType
  <2>3. ASSUME UNCHANGED <<events, born, schedule, runner, prepared, archived, mail, reported, view>>
        PROVE  DisclosureInv'
    BY <2>3 DEF DisclosureInv, DisclosureTypes, RunnersAreGood, Logs, BeforeSchedule, ViewIsTrue
  <2>4. ASSUME UNCHANGED disclosureVars \/ ScheduleExpires \/ ReportGap PROVE DisclosureInv'
    BY <2>3, <2>4 DEF disclosureVars, ScheduleExpires, ReportGap
  <2>5. ASSUME AppendEvent PROVE DisclosureInv'
    <3>1. events' = {e \in events : e <= born} \cup {born + 1}
      <4>1. \A e \in events : e <= born
        BY <2>1, <2>2
      <4>2. events = {e \in events : e <= born}
        BY <4>1
      <4> QED
        BY <2>5, <4>2 DEF AppendEvent
    <3> QED
      BY <2>1, <2>5, <3>1, LogMoves DEF AppendEvent
  <2>6. ASSUME NEW k \in 0..(MaxEvents - 1), RewriteLog(k) PROVE DisclosureInv'
    <3>1. k \in Nat
      BY <2>1, <2>2, <2>6 DEF RewriteLog, KnownCursor
    <3> QED
      BY <2>6, <3>1, LogMoves DEF RewriteLog
  <2>7. ASSUME NEW c \in 0..MaxEvents, CreateSchedule(c) PROVE DisclosureInv'
    <3>1. c \in Nat /\ schedule.state = "none"
      BY <2>1, <2>2, <2>7 DEF CreateSchedule
    <3>2. /\ schedule' \in ScheduleType /\ schedule'.base = c /\ schedule'.cursor = c
          /\ schedule'.pending = NoPage /\ schedule'.state = "active"
      BY <2>7, <3>1 DEF CreateSchedule, SaveSchedule, NoSchedule, ScheduleType
    <3>3. UNCHANGED <<events, born, runner, prepared, archived, mail, reported, view>> /\ Logs' = Logs
      BY <2>7 DEF CreateSchedule, Logs
    <3>4. mail = {} /\ ~view.continuous /\ \A q \in Runners : runner[q].at = "idle"
      BY <2>1, <3>1 DEF BeforeSchedule
    <3>5. GoodCopy(schedule', Logs', schedule'.base, born')
      BY <3>2 DEF GoodCopy
    <3>6. RunnersAreGood'
      BY <3>3, <3>4 DEF RunnersAreGood, GoodRunner, Working, Sending
    <3>7. DisclosureTypes' /\ (\A log, other \in Logs : Agree(log, other))'
      BY <2>1, <3>3 DEF DisclosureTypes
    <3>8. BeforeSchedule' /\ ViewIsTrue'
      BY <3>2, <3>3, <3>4 DEF BeforeSchedule, ViewIsTrue
    <3> QED
      BY <2>1, <3>3, <3>4, <3>5, <3>6, <3>7, <3>8 DEF DisclosureInv
  <2>8. ASSUME RevokeSchedule PROVE DisclosureInv'
    <3>1. schedule' = [schedule EXCEPT !.state = "revoked", !.pending = NoPage] /\ schedule.state = "active"
      BY <2>8 DEF RevokeSchedule, SaveSchedule
    <3>2. /\ schedule' \in ScheduleType /\ schedule'.base = schedule.base /\ schedule'.cursor = schedule.cursor
          /\ schedule'.seq = schedule.seq /\ schedule'.pending = NoPage /\ schedule'.state = "revoked"
      BY <2>2, <3>1 DEF ScheduleType
    <3>3. UNCHANGED <<events, born, runner, prepared, archived, mail, reported, view>> /\ Logs' = Logs
      BY <2>8 DEF RevokeSchedule, Logs
    <3>4. GoodCopy(schedule', Logs', schedule'.base, born')
      BY <2>1, <3>2, <3>3 DEF GoodCopy
    <3>5. RunnersAreGood' /\ DisclosureTypes' /\ (\A log, other \in Logs : Agree(log, other))'
      BY <2>1, <3>2, <3>3 DEF DisclosureTypes, RunnersAreGood
    <3>6. BeforeSchedule' /\ ViewIsTrue'
      BY <2>1, <3>2, <3>3 DEF BeforeSchedule, ViewIsTrue
    <3> QED
      BY <2>1, <3>2, <3>3, <3>4, <3>5, <3>6 DEF DisclosureInv
  <2>9. ASSUME NEW p \in mail, ReceivePage(p) PROVE DisclosureInv'
    <3>1. /\ UNCHANGED <<events, born, schedule, runner, prepared, archived, mail, view>> /\ Logs' = Logs
          /\ reported' = reported \cup {p}
      BY <2>9 DEF ReceivePage, Logs
    <3> QED
      BY <2>1, <3>1 DEF DisclosureInv, DisclosureTypes, RunnersAreGood, BeforeSchedule, ViewIsTrue
  <2>10. ASSUME NEW n \in notices, Retransmit(n) PROVE DisclosureInv'
    <3>1. mail' = mail
      BY <2>1, <2>10 DEF Retransmit
    <3> QED
      BY <2>3, <2>10, <3>1 DEF Retransmit
  <2>11. ASSUME ShowView PROVE DisclosureInv'
    <3>1. PICK last \in reported :
            /\ \A p \in reported : p.seq <= last.seq
            /\ view' = [continuous |-> Continuous(reported), told |-> Told(reported), through |-> last.next]
      BY <2>11 DEF ShowView
    <3>2. UNCHANGED <<events, born, schedule, runner, prepared, archived, mail, reported>> /\ Logs' = Logs
      BY <2>11 DEF ShowView, Logs
    <3>3. \A p \in reported : GoodPage(p, {events}, schedule.base, born)
      BY <2>1, <2>2 DEF GoodPage
    <3>4. last.next \in Nat /\ last.next <= born
      BY <3>3 DEF GoodPage, PageType
    <3>5. ASSUME Continuous(reported), last.next \in events
          PROVE  Told(reported) = Activities(events, schedule.base, last.next)
      <4>1. events \subseteq Nat
        BY <2>1, <2>2
      <4> QED
        BY <2>1, <2>2, <3>1, <3>3, <3>5, <4>1, SeriesTells
    <3>6. ViewIsTrue'
      BY <3>1, <3>2, <3>4, <3>5 DEF ViewIsTrue
    <3>7. BeforeSchedule'
      BY <2>1, <3>1, <3>2 DEF BeforeSchedule
    <3> QED
      BY <2>1, <3>2, <3>6, <3>7 DEF DisclosureInv, DisclosureTypes, RunnersAreGood
  <2>12. ASSUME NEW q \in Runners,
                \/ BeginRun(q) \/ ReloadSchedule(q) \/ Prepare(q) \/ NothingNew(q) \/ QueuePage(q)
                \/ ArchivePage(q) \/ RecordSuccess(q) \/ RecordFailure(q) \/ RunnerDies(q)
         PROVE  DisclosureInv'
    <3> DEFINE w == runner[q]
               s == w.copy
               B == schedule.base
    <3>1. /\ w \in RunnerType /\ s \in ScheduleType /\ w.log \in Logs /\ w.log \subseteq Nat
          /\ GoodRunner(w, Logs, B, born, mail)
      BY <2>1 DEF RunnersAreGood, Logs, RunnerType
    <3>2. /\ Resting \in RunnerType /\ Resting.at = "idle" /\ Resting.log = {}
          /\ GoodRunner(Resting, Logs, B, born, mail)
      BY DEF Resting, RunnerType, Stages, NoSchedule, ScheduleType, GoodRunner, Working, Sending
    <3>3. schedule.state # "none"
      BY <2>1, <2>12
         DEF BeforeSchedule, BeginRun, ReloadSchedule, Prepare, NothingNew, QueuePage, ArchivePage,
             RecordSuccess, RecordFailure, RunnerDies
    <3>4. UNCHANGED <<events, born, reported, view>>
      BY <2>12
         DEF BeginRun, ReloadSchedule, Prepare, NothingNew, QueuePage, ArchivePage,
             RecordSuccess, RecordFailure, RunnerDies
    \* A process that goes on keeps its log.
    <3>5. ASSUME NEW stage \in Working, NEW c \in ScheduleType
          PROVE  LET r == [w EXCEPT !.at = stage, !.copy = c]
                 IN  r \in RunnerType /\ r.at = stage /\ r.copy = c /\ r.log = w.log
      BY <3>1 DEF RunnerType, Stages, Working
    \* A process that ends leaves a copy of the schedule, its own or the one there.
    <3>6. ASSUME Ends(q), UNCHANGED <<prepared, archived, mail>>, schedule'.state # "none",
                 GoodCopy(schedule', Logs, B, born)
          PROVE  DisclosureInv'
      BY <2>1, <3>2, <3>3, <3>4, <3>6, RunnerMoves DEF Ends
    \* A process that goes on has a good page when it needs one.
    <3>7. ASSUME NEW stage \in Working, NEW c, At(q, stage, c), c.state = "active",
                 GoodCopy(c, Logs, B, born),
                 stage \in Sending => GoodPage(c.pending, Logs, B, born),
                 stage \in {"queued", "archived"} => c.pending \in mail',
                 schedule' \in {schedule, c}, prepared' \in Nat, mail \subseteq mail',
                 \A p \in mail' : GoodPage(p, Logs, B, born), archived' \subseteq mail'
          PROVE  DisclosureInv'
      <4> DEFINE r == [w EXCEPT !.at = stage, !.copy = c]
      <4>1. c \in ScheduleType
        BY <3>7 DEF GoodCopy
      <4>2. r \in RunnerType /\ r.at = stage /\ r.copy = c /\ r.log = w.log
        BY <3>5, <4>1
      <4>3. runner' = [runner EXCEPT ![q] = r]
        BY <3>7 DEF At
      <4> HIDE DEF r
      <4>4. GoodRunner(r, Logs, B, born, mail')
        BY <3>7, <4>2 DEF GoodRunner
      <4>5. schedule'.state # "none" /\ GoodCopy(schedule', Logs, B, born)
        BY <2>1, <3>3, <3>7
      <4> QED
        BY <3>3, <3>4, <3>7, <4>2, <4>3, <4>4, <4>5, RunnerMoves
    <3>8. CASE BeginRun(q)
      <4> DEFINE r == [Resting EXCEPT !.at = "begun", !.log = events]
      <4>1. r \in RunnerType /\ r.at = "begun" /\ r.log = events
        <5>1. events \in SUBSET Nat
          BY <2>1, <2>2
        <5> QED
          BY <3>2, <5>1 DEF RunnerType, Stages
      <4>2. runner' = [runner EXCEPT ![q] = r] /\ UNCHANGED <<schedule, prepared, archived, mail>>
        BY <3>8 DEF BeginRun
      <4> HIDE DEF r
      <4>3. GoodRunner(r, Logs, B, born, mail')
        BY <4>1 DEF GoodRunner, Working, Sending
      <4> QED
        BY <2>1, <3>3, <3>4, <4>1, <4>2, <4>3, RunnerMoves
    <3>9. CASE ReloadSchedule(q)
      <4>1. UNCHANGED <<prepared, archived, mail>>
        BY <3>9 DEF ReloadSchedule
      <4>2. CASE At(q, "loaded", schedule) /\ UNCHANGED schedule /\ StateOf(schedule) = "active"
        <5>1. schedule.state = "active"
          BY <4>2 DEF StateOf
        <5> QED
          BY <2>1, <3>7, <4>1, <4>2, <5>1 DEF Working, Sending
      <4>3. CASE Ends(q) /\ UNCHANGED schedule
        BY <2>1, <3>3, <3>6, <4>1, <4>3
      <4>4. CASE Ends(q) /\ SaveSchedule([schedule EXCEPT !.pending = NoPage])
        <5>1. /\ schedule' \in ScheduleType /\ schedule'.base = B /\ schedule'.cursor = schedule.cursor
              /\ schedule'.seq = schedule.seq /\ schedule'.pending = NoPage /\ schedule'.state = schedule.state
          BY <2>2, <4>4 DEF SaveSchedule, ScheduleType
        <5>2. GoodCopy(schedule', Logs, B, born)
          BY <2>1, <5>1 DEF GoodCopy
        <5> QED
          BY <3>3, <3>6, <4>1, <4>4, <5>1, <5>2
      <4> QED
        BY <3>9, <4>2, <4>3, <4>4 DEF ReloadSchedule
    <3>10. CASE Prepare(q)
      <4>1. w.at = "loaded" /\ UNCHANGED <<archived, mail>>
        BY <3>10 DEF Prepare
      <4>2. s.state = "active" /\ GoodCopy(s, Logs, B, born)
        BY <3>1, <4>1 DEF GoodRunner, Working
      <4>3. CASE s.pending # NoPage /\ At(q, "prepared", s) /\ UNCHANGED <<schedule, prepared>>
        <5>1. GoodPage(s.pending, Logs, B, born)
          BY <4>2, <4>3 DEF GoodCopy
        <5> QED
          BY <2>1, <3>7, <4>1, <4>2, <4>3, <5>1 DEF Working, Sending
      <4>4. CASE s.pending = NoPage
        <5> DEFINE sheet == Page(w.log, s)
                   end == NextCursor(w.log, s.cursor)
                   c == [s EXCEPT !.pending = sheet]
        <5>1. /\ KnownCursor(w.log, s.cursor) /\ sheet.next # s.cursor /\ prepared' = prepared + 1
              /\ At(q, "prepared", c) /\ schedule' = c
          BY <3>10, <4>4 DEF Prepare, SaveSchedule
        <5>2. /\ sheet.seq = s.seq /\ sheet.after = s.cursor /\ sheet.next = end
              /\ sheet.acts = Activities(w.log, s.cursor, end)
          BY DEF Page
        <5>3. end \in w.log /\ s.cursor < end
          BY <5>1, <5>2 DEF NextCursor, EndsPage
        <5>4. s.seq \in Nat /\ s.cursor \in Nat /\ end \in Nat /\ end <= born
          BY <2>1, <3>1, <5>3 DEF ScheduleType
        <5>5. sheet \in PageType
          <6>1. Activities(w.log, s.cursor, end) \in SUBSET Nat
            BY <3>1 DEF Activities
          <6>2. sheet = [seq |-> s.seq, after |-> s.cursor, acts |-> Activities(w.log, s.cursor, end),
                        next |-> end, issued |-> prepared + 1]
            BY DEF Page
          <6> HIDE DEF sheet, end
          <6> QED
            BY <2>1, <5>4, <6>1, <6>2 DEF PageType
        <5>6. ASSUME NEW log \in Logs, end \in log
              PROVE  KnownCursor(log, s.cursor) /\ Activities(w.log, s.cursor, end) = Activities(log, s.cursor, end)
          <6>1. \A x \in Nat : x <= end => (x \in w.log <=> x \in log)
            BY <2>1, <3>1, <5>3, <5>6 DEF Agree
          <6>2. log \subseteq Nat
            BY <2>1
          <6>3. KnownCursor(log, s.cursor)
            BY <5>1, <5>3, <5>4, <6>1 DEF KnownCursor
          <6> QED
            BY <3>1, <6>1, <6>2, <6>3 DEF Activities
        <5>7. s.seq = 0 => s.cursor = B
          BY <4>2 DEF GoodCopy
        <5> HIDE DEF sheet, end
        <5>8. GoodPage(sheet, Logs, B, born)
          BY <5>2, <5>3, <5>4, <5>5, <5>6, <5>7 DEF GoodPage
        <5>9. /\ c \in ScheduleType /\ c.base = s.base /\ c.cursor = s.cursor /\ c.seq = s.seq
              /\ c.pending = sheet /\ c.state = s.state
          BY <3>1, <5>5 DEF ScheduleType
        <5> HIDE DEF c
        <5>10. GoodCopy(c, Logs, B, born)
          BY <4>2, <5>8, <5>9 DEF GoodCopy
        <5> QED
          BY <2>1, <3>7, <4>1, <4>2, <5>1, <5>8, <5>9, <5>10 DEF Working, Sending
      <4> QED
        BY <3>10, <4>3, <4>4 DEF Prepare
    <3>11. CASE NothingNew(q) \/ RecordFailure(q)
      <4>1. w.at \in Working /\ schedule' = s /\ Ends(q) /\ UNCHANGED <<prepared, archived, mail>>
        BY <3>11 DEF NothingNew, RecordFailure, SaveSchedule, Working
      <4>2. s.state = "active" /\ GoodCopy(s, Logs, B, born)
        BY <3>1, <4>1 DEF GoodRunner
      <4> QED
        BY <3>6, <4>1, <4>2
    <3>12. CASE QueuePage(q)
      <4>1. /\ w.at = "prepared" /\ mail' = mail \cup {s.pending} /\ At(q, "queued", s)
            /\ UNCHANGED <<schedule, prepared, archived>>
        BY <3>12 DEF QueuePage
      <4>2. s.state = "active" /\ GoodCopy(s, Logs, B, born) /\ GoodPage(s.pending, Logs, B, born)
        BY <3>1, <4>1 DEF GoodRunner, Working, Sending
      <4> QED
        BY <2>1, <3>7, <4>1, <4>2 DEF Working, Sending
    <3>13. CASE ArchivePage(q)
      <4>1. /\ w.at = "queued" /\ archived' = archived \cup {s.pending} /\ At(q, "archived", s)
            /\ UNCHANGED <<schedule, prepared, mail>>
        BY <3>13 DEF ArchivePage
      <4>2. /\ s.state = "active" /\ GoodCopy(s, Logs, B, born) /\ GoodPage(s.pending, Logs, B, born)
            /\ s.pending \in mail
        BY <3>1, <4>1 DEF GoodRunner, Working, Sending
      <4> QED
        BY <2>1, <3>7, <4>1, <4>2 DEF Working, Sending
    <3>14. CASE RecordSuccess(q)
      <4>1. /\ w.at = "archived" /\ Ends(q) /\ UNCHANGED <<prepared, archived, mail>>
            /\ schedule' = [s EXCEPT !.cursor = s.pending.next, !.seq = s.seq + 1, !.pending = NoPage]
        BY <3>14 DEF RecordSuccess, SaveSchedule
      <4>2. s.state = "active" /\ GoodCopy(s, Logs, B, born) /\ GoodPage(s.pending, Logs, B, born)
        BY <3>1, <4>1 DEF GoodRunner, Working, Sending
      <4>3. s.pending.next \in Nat /\ s.seq \in Nat /\ s.base = B
        BY <3>1, <4>2 DEF GoodPage, PageType, ScheduleType, GoodCopy
      <4>4. /\ schedule' \in ScheduleType /\ schedule'.base = B /\ schedule'.seq = s.seq + 1
            /\ schedule'.pending = NoPage /\ schedule'.state = "active"
        <5> DEFINE k == s.pending.next
                   n == s.seq + 1
        <5>2. k \in Nat /\ n \in Nat /\ schedule' = [s EXCEPT !.cursor = k, !.seq = n, !.pending = NoPage]
          BY <4>1, <4>3
        <5> HIDE DEF s, k, n
        <5>3. /\ schedule' \in ScheduleType /\ schedule'.base = s.base /\ schedule'.seq = n
              /\ schedule'.pending = NoPage /\ schedule'.state = s.state
          <6>1. s \in ScheduleType
            BY <3>1
          <6>2. schedule' \in ScheduleType
            BY <5>2, <6>1 DEF ScheduleType
          <6> QED
            BY <5>2, <6>1, <6>2 DEF ScheduleType
        <5> QED
          BY <4>2, <4>3, <5>3 DEF n
      <4>5. GoodCopy(schedule', Logs, B, born)
        BY <4>3, <4>4 DEF GoodCopy
      <4> QED
        BY <3>6, <4>1, <4>4, <4>5
    <3>15. CASE RunnerDies(q)
      BY <2>1, <3>3, <3>6, <3>15 DEF RunnerDies
    <3> QED
      BY <2>12, <3>8, <3>9, <3>10, <3>11, <3>12, <3>13, <3>14, <3>15
  <2> QED
    BY <2>4, <2>5, <2>6, <2>7, <2>8, <2>9, <2>10, <2>11, <2>12 DEF DisclosureNext
<1> QED
  BY <1>1, <1>2, PTL DEF DisclosureSpec

\* A series the audience calls proven is the observer's log between the baseline
\* and the last cursor, for any number of runners, events, pages and losses
\* (_analyze_series, project, run_relationship_disclosure_schedules_once).
THEOREM ProvenSeriesIsTheLog == DisclosureSpec => []ProvenContinuous
<1>1. DisclosureInv => ProvenContinuous
  BY DEF DisclosureInv, ViewIsTrue, ProvenContinuous
<1> QED
  BY <1>1, DisclosureInductive, PTL

-----------------------------------------------------------------------------
(* The chain of a device in a control store.                               *)

\* Every object but the first names the one it was signed on top of.
Chain(S) ==
    \A o \in S : \/ o.seq = 1 /\ o.prev = 0
                 \/ \E p \in S : /\ p.id = o.prev /\ o.seq = p.seq + 1
                                 /\ p.id < o.id /\ p.desc <= o.desc

\* No two objects name the same one.
Straight(S) == \A o, q \in S : o.prev = q.prev => o = q

\* The objects of one chain: signed, with digests of their own.
Revisions(S) ==
    /\ S \subseteq ObjectType /\ Chain(S)
    /\ \A o \in S : o.seq > 0 /\ o.id > 0
    /\ \A o, q \in S : o.id = q.id => o = q

\* A chain without a fork has one object of each sequence number.
LEMMA OnePerSequence ==
  ASSUME NEW S, Revisions(S), Straight(S)
  PROVE  \A o, q \in S : o.seq = q.seq => o = q
<1> DEFINE T == {n \in Nat : \E o, q \in S : o.seq = n /\ q.seq = n /\ o # q}
<1>1. \A o \in S : o.seq \in Nat /\ o.id \in Nat /\ o.seq > 0
  BY DEF Revisions, ObjectType
<1>2. SUFFICES ASSUME T # {} PROVE FALSE
  BY <1>1
<1>3. PICK n \in T : \A k \in T : n <= k
  BY <1>2, LeastNatural
<1>4. PICK o \in S, q \in S : o.seq = n /\ q.seq = n /\ o # q
  OBVIOUS
<1>5. o.prev # q.prev
  BY <1>4 DEF Straight
<1>6. CASE n = 1
  <2>1. ASSUME NEW x \in S, x.seq = 1 PROVE x.prev = 0
    <3>1. ASSUME NEW p \in S PROVE x.seq # p.seq + 1
      BY <1>1, <2>1
    <3> QED
      BY <2>1, <3>1 DEF Revisions, Chain
  <2> QED
    BY <1>4, <1>5, <1>6, <2>1
<1>7. CASE n # 1
  <2>1. PICK p \in S : p.id = o.prev /\ o.seq = p.seq + 1
    BY <1>4, <1>7 DEF Revisions, Chain
  <2>2. PICK r \in S : r.id = q.prev /\ q.seq = r.seq + 1
    BY <1>4, <1>7 DEF Revisions, Chain
  <2>3. p.seq = r.seq /\ p.seq \in Nat /\ ~(n <= p.seq) /\ p # r
    BY <1>1, <1>4, <1>5, <2>1, <2>2
  <2>4. p.seq \in T
    BY <2>3
  <2> QED
    BY <1>3, <2>3, <2>4
<1> QED
  BY <1>6, <1>7

\* Where a chain without a fork goes on, the object that comes next exists.
LEMMA NextExists ==
  ASSUME NEW S, Revisions(S), Straight(S), NEW h \in S \cup {Genesis}, NEW r \in S, r.seq > h.seq
  PROVE  \E o \in S : Follows(h, o)
<1> DEFINE T == {n \in Nat : n > h.seq /\ \E o \in S : o.seq = n}
<1>1. \A o \in S \cup {Genesis} : o.seq \in Nat /\ o.id \in Nat
  BY DEF Revisions, ObjectType, Genesis
<1>2. T # {}
  BY <1>1
<1>3. PICK n \in T : \A k \in T : n <= k
  BY <1>2, LeastNatural
<1>4. PICK o \in S : o.seq = n /\ n > h.seq
  OBVIOUS
<1>5. CASE o.seq = 1 /\ o.prev = 0
  <2>1. h.seq = 0
    BY <1>1, <1>4, <1>5
  <2>2. h = Genesis
    BY <2>1 DEF Revisions
  <2> QED
    BY <1>5, <2>2 DEF Follows, Genesis
<1>6. ASSUME NEW p \in S, p.id = o.prev, o.seq = p.seq + 1 PROVE Follows(h, o)
  <2>1. p.seq \in Nat /\ ~(n <= p.seq)
    BY <1>1, <1>4, <1>6
  <2>2. ~(p.seq > h.seq)
    BY <1>3, <2>1
  <2>3. p.seq = h.seq
    BY <1>1, <1>4, <1>6, <2>1, <2>2
  <2>4. p.seq > 0
    BY DEF Revisions
  <2>5. h \in S
    BY <2>3, <2>4 DEF Genesis
  <2>6. p = h
    BY <2>3, <2>5, OnePerSequence
  <2> QED
    BY <1>6, <2>6 DEF Follows
<1> QED
  BY <1>5, <1>6 DEF Revisions, Chain

\* Along a chain without a fork objects were signed one after the other.
LEMMA SignedInOrder ==
  ASSUME NEW S, Revisions(S), Straight(S), NEW o \in S, NEW q \in S, o.id < q.id
  PROVE  o.seq < q.seq
<1> DEFINE T == {n \in Nat : n > q.seq /\ \E x \in S : x.seq = n /\ ~(x.id > q.id)}
<1>1. \A x \in S : x.seq \in Nat /\ x.id \in Nat
  BY DEF Revisions, ObjectType
<1>2. SUFFICES ASSUME o.seq > q.seq PROVE FALSE
  <2>1. o # q
    BY <1>1
  <2>2. o.seq # q.seq
    BY <2>1, OnePerSequence
  <2> QED
    BY <1>1, <2>2
<1>3. T # {}
  BY <1>1, <1>2
<1>4. PICK n \in T : \A k \in T : n <= k
  BY <1>3, LeastNatural
<1>5. PICK x \in S : x.seq = n /\ ~(x.id > q.id) /\ n > q.seq
  OBVIOUS
<1>6. q.seq > 0
  BY DEF Revisions
<1>7. PICK p \in S : x.seq = p.seq + 1 /\ p.id < x.id
  <2>1. x.seq # 1
    BY <1>1, <1>5, <1>6
  <2> QED
    BY <2>1 DEF Revisions, Chain
<1>8. p.seq \in Nat /\ ~(n <= p.seq) /\ ~(p.id > q.id) /\ p.id # q.id
  BY <1>1, <1>5, <1>7
<1>9. ~(p.seq > q.seq)
  BY <1>4, <1>8
<1>10. p.seq = q.seq
  BY <1>1, <1>5, <1>7, <1>9
<1>11. p = q
  BY <1>10, OnePerSequence
<1> QED
  BY <1>8, <1>11

\* A new object extends the chain of its kind.
LEMMA ChainGrows ==
  ASSUME NEW S, Revisions(S), NEW p \in S \cup {Genesis}, NEW o \in ObjectType,
         o.seq = p.seq + 1, o.prev = p.id, p.desc <= o.desc, \A x \in S : x.id < o.id, o.id > 0
  PROVE  Revisions(S \cup {o})
<1>1. \A x \in S : x.seq \in Nat /\ x.id \in Nat
  BY DEF Revisions, ObjectType
<1>2. p.seq \in Nat /\ o.seq > 0 /\ (p = Genesis => o.seq = 1 /\ o.prev = 0)
  BY <1>1 DEF Genesis
<1>3. \/ o.seq = 1 /\ o.prev = 0
      \/ \E x \in S : /\ x.id = o.prev /\ o.seq = x.seq + 1
                      /\ x.id < o.id /\ x.desc <= o.desc
  BY <1>2
<1>4. Chain(S \cup {o})
  BY <1>3 DEF Revisions, Chain
<1>5. \A x \in S : x.id # o.id
  BY <1>1 DEF ObjectType
<1>6. \A x, y \in S \cup {o} : x.id = y.id => x = y
  BY <1>5 DEF Revisions
<1> QED
  BY <1>2, <1>4, <1>6 DEF Revisions

\* An object is offered to the store and taken: it is the next of its chain.
CanBeImported(o) ==
    /\ o.id \notin expired
    /\ \/ o.kind = "descriptor" /\ Follows(descriptor, o)
       \/ o.kind \in {"grant", "revocation"} /\ BoundToCurrent(o) /\ Open /\ Follows(device, o)

\* The objects of signers and the heads the store has of them.
ChainsAreSigned ==
    /\ IsFiniteSet(signed) /\ Revisions(Descriptors) /\ Revisions(HumanObjects)
    /\ \A o \in signed : o.id \in Nat /\ o.id <= Cardinality(signed)
    /\ \A d \in Descriptors : d.desc = 0
    /\ \A o \in HumanObjects : \E d \in Descriptors : d.id = o.desc
    /\ descriptor \in Descriptors \cup {Genesis} /\ device \in HumanObjects \cup {Genesis}

\* Up to a grant that is the head, a chain without a fork has only grants: the
\* store takes nothing after a revocation.
GrantsSoFar ==
    ~Forked /\ device.kind = "grant" =>
        \A o \in HumanObjects : o.seq <= device.seq => o.kind = "grant"

DeviceInv == ChainsAreSigned /\ GrantsSoFar

\* Without a fork both chains are straight.
LEMMA NoForkIsStraight ==
  ASSUME ~Forked PROVE Straight(Descriptors) /\ Straight(HumanObjects)
BY DEF Forked, Straight, Descriptors, HumanObjects

\* A device, or the human, signs one more object.
LEMMA ObjectSigned ==
  ASSUME DeviceInv, NEW o \in ObjectType, Sign(o), o.id = NextId,
         \/ /\ o.kind = "descriptor" /\ o.desc = 0
            /\ \E p \in Descriptors \cup {Genesis} :
                  o.seq = p.seq + 1 /\ o.prev = p.id /\ p.desc <= o.desc
         \/ /\ o.kind \in {"grant", "revocation"} /\ \E d \in Descriptors : d.id = o.desc
            /\ \E p \in HumanObjects \cup {Genesis} :
                  o.seq = p.seq + 1 /\ o.prev = p.id /\ p.desc <= o.desc
  PROVE  DeviceInv'
<1>1. signed' = signed \cup {o} /\ UNCHANGED <<expired, descriptor, device>>
  BY DEF Sign
<1>2. /\ IsFiniteSet(signed) /\ Revisions(Descriptors) /\ Revisions(HumanObjects)
      /\ \A x \in signed : x.id \in Nat /\ x.id <= Cardinality(signed)
      /\ \A x \in HumanObjects : \E d \in Descriptors : d.id = x.desc
      /\ \A d \in Descriptors : d.desc = 0
      /\ descriptor \in Descriptors \cup {Genesis} /\ device \in HumanObjects \cup {Genesis}
      /\ GrantsSoFar
  BY DEF DeviceInv, ChainsAreSigned
<1>3. Cardinality(signed) \in Nat
  BY <1>2, FS_CardinalityType
<1>4. \A x \in signed : x.id < o.id
  BY <1>2, <1>3 DEF NextId
<1>5. o.id \in Nat /\ o.id > 0 /\ o \notin signed
  BY <1>3, <1>4 DEF NextId
<1>6. IsFiniteSet(signed') /\ Cardinality(signed') = Cardinality(signed) + 1
  BY <1>1, <1>2, <1>5, FS_AddElement
<1>7. \A x \in signed' : x.id \in Nat /\ x.id <= Cardinality(signed')
  BY <1>1, <1>2, <1>3, <1>6 DEF NextId
<1>8. CASE o.kind = "descriptor"
  <2>1. Descriptors' = Descriptors \cup {o} /\ HumanObjects' = HumanObjects
    BY <1>1, <1>8 DEF Descriptors, HumanObjects
  <2>2. PICK p \in Descriptors \cup {Genesis} : o.seq = p.seq + 1 /\ o.prev = p.id /\ p.desc <= o.desc
    BY <1>8
  <2>3. \A x \in Descriptors : x.id < o.id
    BY <1>4 DEF Descriptors
  <2>4. Revisions(Descriptors \cup {o})
    BY <1>2, <1>5, <2>2, <2>3, ChainGrows
  <2>5. GrantsSoFar'
    <3>1. Forked => Forked'
      BY <1>1 DEF Forked
    <3> QED
      BY <1>1, <1>2, <2>1, <3>1 DEF GrantsSoFar
  <2> QED
    BY <1>1, <1>2, <1>6, <1>7, <1>8, <2>1, <2>4, <2>5 DEF DeviceInv, ChainsAreSigned
<1>9. CASE o.kind \in {"grant", "revocation"}
  <2>1. Descriptors' = Descriptors /\ HumanObjects' = HumanObjects \cup {o}
    BY <1>1, <1>9 DEF Descriptors, HumanObjects
  <2>2. PICK p \in HumanObjects \cup {Genesis} : o.seq = p.seq + 1 /\ o.prev = p.id /\ p.desc <= o.desc
    BY <1>9
  <2>3. \A x \in HumanObjects : x.id < o.id
    BY <1>4 DEF HumanObjects
  <2>4. Revisions(HumanObjects \cup {o})
    BY <1>2, <1>5, <2>2, <2>3, ChainGrows
  <2>5. GrantsSoFar'
    <3> SUFFICES ASSUME ~Forked', device.kind = "grant", NEW x \in HumanObjects \cup {o},
                        x.seq <= device.seq
                 PROVE  x.kind = "grant"
      BY <1>1, <2>1 DEF GrantsSoFar
    <3>1. ~Forked
      BY <1>1 DEF Forked
    <3>2. CASE x \in HumanObjects
      BY <1>2, <3>1, <3>2 DEF GrantsSoFar
    <3>3. CASE x = o
      <4>1. device \in HumanObjects
        BY <1>2 DEF Genesis
      <4>2. device.seq > p.seq
        <5>1. device.seq \in Nat /\ p.seq \in Nat
          BY <1>2, <4>1 DEF Revisions, ObjectType, Genesis
        <5> QED
          BY <2>2, <3>3, <5>1
      <4>3. PICK q \in HumanObjects : Follows(p, q)
        BY <1>2, <3>1, <4>1, <4>2, NextExists, NoForkIsStraight
      <4>4. q \in signed' /\ o \in signed' /\ q # o /\ q.prev = o.prev /\ q.kind # "descriptor"
        BY <1>1, <1>5, <2>2, <4>3 DEF HumanObjects, Follows
      <4>5. o.kind # "descriptor"
        BY <1>9
      <4> QED
        BY <4>4, <4>5 DEF Forked
    <3> QED
      BY <3>2, <3>3
  <2> QED
    BY <1>1, <1>2, <1>6, <1>7, <1>9, <2>1, <2>4, <2>5 DEF DeviceInv, ChainsAreSigned
<1> QED
  BY <1>8, <1>9

\* The store of a node keeps what the signers signed, in their order.
LEMMA DeviceInductive == DeviceSpec => []DeviceInv
<1>1. DeviceInit => DeviceInv
  <2> SUFFICES ASSUME DeviceInit PROVE DeviceInv
    OBVIOUS
  <2>1. signed = {} /\ descriptor = Genesis /\ device = Genesis
    BY DEF DeviceInit
  <2>2. Descriptors = {} /\ HumanObjects = {} /\ IsFiniteSet(signed)
    BY <2>1, FS_EmptySet DEF Descriptors, HumanObjects
  <2>3. Revisions({})
    BY DEF Revisions, Chain
  <2> QED
    BY <2>1, <2>2, <2>3 DEF DeviceInv, ChainsAreSigned, GrantsSoFar
<1>2. DeviceInv /\ [DeviceNext]_deviceVars => DeviceInv'
  <2> SUFFICES ASSUME DeviceInv, [DeviceNext]_deviceVars PROVE DeviceInv'
    OBVIOUS
  <2>1. /\ IsFiniteSet(signed) /\ Revisions(Descriptors) /\ Revisions(HumanObjects)
        /\ descriptor \in Descriptors \cup {Genesis} /\ device \in HumanObjects \cup {Genesis}
        /\ GrantsSoFar /\ \A d \in Descriptors : d.desc = 0
    BY DEF DeviceInv, ChainsAreSigned
  <2>2. NextId \in Nat
    BY <2>1, FS_CardinalityType DEF NextId
  <2>3. /\ Genesis \in ObjectType /\ Descriptors \cup {Genesis} \subseteq ObjectType
        /\ HumanObjects \cup {Genesis} \subseteq ObjectType
    BY <2>1 DEF Revisions, Genesis, ObjectType, Kinds
  <2>4. ASSUME NEW p \in Descriptors \cup {Genesis}, SignDescriptor(p) PROVE DeviceInv'
    <3> DEFINE o == IssueNodeDescriptor(NextId, p, 0)
    <3>1. p \in ObjectType /\ p.desc = 0
      BY <2>1, <2>3 DEF Genesis
    <3>2. /\ o \in ObjectType /\ o.id = NextId /\ o.kind = "descriptor" /\ o.desc = 0
          /\ o.seq = p.seq + 1 /\ o.prev = p.id
      BY <2>2, <3>1 DEF IssueNodeDescriptor, ObjectType, Kinds
    <3>3. Sign(o) /\ p.desc <= o.desc
      BY <2>4, <3>1, <3>2 DEF SignDescriptor
    <3> HIDE DEF o
    <3> QED
      BY <3>2, <3>3, ObjectSigned
  <2>5. ASSUME NEW p \in HumanObjects \cup {Genesis}, NEW d \in Descriptors,
               SignGrant(p, d) \/ SignRevocation(p, d)
        PROVE  DeviceInv'
    <3>1. p \in ObjectType /\ d \in ObjectType
      BY <2>3
    <3>2. p.desc <= d.id
      BY <2>5, <3>1 DEF SignGrant, SignRevocation, ObjectType
    <3>3. ASSUME NEW o, o \in {IssueHumanDeviceGrant(NextId, p, d), IssueHumanDeviceRevocation(NextId, p, d)},
                 Sign(o)
          PROVE  DeviceInv'
      <4>1. /\ o \in ObjectType /\ o.id = NextId /\ o.kind \in {"grant", "revocation"} /\ o.desc = d.id
            /\ o.seq = p.seq + 1 /\ o.prev = p.id
        BY <2>2, <3>1, <3>3 DEF IssueHumanDeviceGrant, IssueHumanDeviceRevocation, ObjectType, Kinds
      <4> QED
        BY <3>2, <3>3, <4>1, ObjectSigned
    <3> QED
      BY <2>5, <3>3 DEF SignGrant, SignRevocation
  <2>6. ASSUME NEW o \in signed, Expire(o) PROVE DeviceInv'
    BY <2>6 DEF Expire, DeviceInv, ChainsAreSigned, GrantsSoFar, Forked, Descriptors, HumanObjects
  <2>7. ASSUME NEW o \in signed, AcceptDescriptor(o) PROVE DeviceInv'
    <3>1. o \in Descriptors /\ descriptor' = o /\ UNCHANGED <<signed, expired, device>>
      BY <2>7 DEF AcceptDescriptor, Descriptors
    <3> QED
      BY <3>1 DEF DeviceInv, ChainsAreSigned, GrantsSoFar, Forked, Descriptors, HumanObjects
  <2>8. ASSUME NEW o \in signed, AcceptHumanGrant(o) \/ AcceptHumanRevocation(o) PROVE DeviceInv'
    <3>1. /\ o \in HumanObjects /\ Follows(device, o) /\ device.kind # "revocation"
          /\ device' = o /\ UNCHANGED <<signed, expired, descriptor>>
      BY <2>8 DEF AcceptHumanGrant, AcceptHumanRevocation, HumanObjects, Open
    <3>2. Descriptors' = Descriptors /\ HumanObjects' = HumanObjects /\ (Forked' <=> Forked)
      BY <3>1 DEF Descriptors, HumanObjects, Forked
    <3>3. GrantsSoFar'
      <4> SUFFICES ASSUME ~Forked, o.kind = "grant", NEW x \in HumanObjects, x.seq <= o.seq
                   PROVE  x.kind = "grant"
        BY <3>1, <3>2 DEF GrantsSoFar
      <4>1. \A y \in HumanObjects : y.seq \in Nat /\ y.seq > 0
        BY <2>1 DEF Revisions, ObjectType
      <4>2. CASE x.seq = o.seq
        BY <2>1, <3>1, <4>2, OnePerSequence, NoForkIsStraight
      <4>3. CASE x.seq # o.seq
        <5>1. device.seq \in Nat
          BY <2>1, <4>1 DEF Genesis
        <5>2. x.seq <= device.seq
          BY <3>1, <4>1, <4>3, <5>1 DEF Follows
        <5>3. device \in HumanObjects
          BY <2>1, <4>1, <5>2 DEF Genesis
        <5>4. device.kind = "grant"
          BY <3>1, <5>3 DEF HumanObjects
        <5> QED
          BY <2>1, <5>2, <5>4 DEF GrantsSoFar
      <4> QED
        BY <4>2, <4>3
    <3> QED
      BY <3>1, <3>2, <3>3 DEF DeviceInv, ChainsAreSigned
  <2>9. CASE UNCHANGED deviceVars
    BY <2>9 DEF deviceVars, DeviceInv, ChainsAreSigned, GrantsSoFar, Forked, Descriptors, HumanObjects
  <2> QED
    BY <2>4, <2>5, <2>6, <2>7, <2>8, <2>9 DEF DeviceNext, ControlImport
<1> QED
  BY <1>1, <1>2, PTL DEF DeviceSpec

\* While a device has a grant in force although its human has signed a
\* revocation, and neither a fork nor an expiry has come between, the store
\* can take a next step towards it.
RevocationNeverBlocked ==
    (HumanDeviceGrant /\ ~Forked /\ expired = {} /\ \E r \in signed : r.kind = "revocation")
        => \E o \in signed : CanBeImported(o)

(***************************************************************************)
(* Descriptors and human objects of a device may be imported in any order, *)
(* and each is refused unless it is the next of its chain and bound to the *)
(* descriptor the store has now (_check_revision,                          *)
(* _require_current_descriptor): the rules never block one another with a  *)
(* grant in force behind which a revocation waits.                         *)
(***************************************************************************)
THEOREM RevocationIsReachable == DeviceSpec => []RevocationNeverBlocked
<1>1. DeviceInv => RevocationNeverBlocked
  <2> SUFFICES ASSUME DeviceInv, HumanDeviceGrant, ~Forked, expired = {},
                      NEW r \in signed, r.kind = "revocation"
               PROVE  \E o \in signed : CanBeImported(o)
    BY DEF RevocationNeverBlocked
  <2>1. /\ Revisions(Descriptors) /\ Revisions(HumanObjects)
        /\ Straight(Descriptors) /\ Straight(HumanObjects)
        /\ \A x \in HumanObjects : \E d \in Descriptors : d.id = x.desc
        /\ descriptor \in Descriptors \cup {Genesis} /\ device \in HumanObjects \cup {Genesis}
        /\ GrantsSoFar
    BY NoForkIsStraight DEF DeviceInv, ChainsAreSigned
  <2>2. device.kind = "grant" /\ device.desc = descriptor.id
    BY DEF HumanDeviceGrant, BoundToCurrent
  <2>3. device \in HumanObjects /\ r \in HumanObjects
    BY <2>1, <2>2 DEF Genesis, HumanObjects
  <2>4. \A x \in HumanObjects \cup Descriptors : /\ x.seq \in Nat /\ x.id \in Nat /\ x.desc \in Nat
                                                /\ x.id > 0
    BY <2>1 DEF Revisions, ObjectType
  <2>5. r.seq > device.seq
    BY <2>1, <2>2, <2>3, <2>4 DEF GrantsSoFar
  <2>6. PICK o \in HumanObjects : Follows(device, o)
    BY <2>1, <2>3, <2>5, NextExists
  <2>7. device.desc <= o.desc
    <3>1. o.prev = device.id /\ device.id > 0
      BY <2>3, <2>4, <2>6 DEF Follows
    <3>2. PICK p \in HumanObjects : p.id = o.prev /\ p.desc <= o.desc
      BY <2>1, <2>4, <3>1 DEF Revisions, Chain
    <3>3. p = device
      BY <2>1, <2>3, <3>1, <3>2 DEF Revisions
    <3> QED
      BY <3>2, <3>3
  <2>8. CASE o.desc = descriptor.id
    <3>1. CanBeImported(o) /\ o \in signed
      BY <2>2, <2>6, <2>8 DEF CanBeImported, BoundToCurrent, Open, HumanObjects
    <3> QED
      BY <3>1
  <2>9. CASE o.desc # descriptor.id
    <3>1. PICK d \in Descriptors : d.id = o.desc
      BY <2>1
    <3>2. descriptor \in Descriptors
      <4>1. PICK c \in Descriptors : c.id = device.desc
        BY <2>1, <2>3
      <4> QED
        BY <2>1, <2>2, <2>4, <4>1 DEF Genesis
    <3>3. descriptor.id < d.id
      BY <2>2, <2>4, <2>7, <2>9, <3>1, <3>2
    <3>4. d.seq > descriptor.seq
      <4>1. descriptor.seq < d.seq
        BY <2>1, <3>2, <3>3, SignedInOrder
      <4> QED
        BY <2>4, <3>2, <4>1
    <3>5. PICK x \in Descriptors : Follows(descriptor, x)
      BY <2>1, <3>2, <3>4, NextExists
    <3>6. CanBeImported(x) /\ x \in signed
      BY <3>5 DEF CanBeImported, Descriptors
    <3> QED
      BY <3>6
  <2> QED
    BY <2>8, <2>9
<1> QED
  BY <1>1, DeviceInductive, PTL
=============================================================================
