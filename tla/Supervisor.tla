----------------------------- MODULE Supervisor -----------------------------
(***************************************************************************)
(* The supervisor of a node home (remote_control.py, supervisor_health.py):*)
(* it holds the lock of the home, fetches the control page, applies        *)
(* configuration, peer cards and software, records what it applied and     *)
(* keeps a server child running.  `anet control-sync' does one such sync   *)
(* under the same lock.  A sync is split at its file writes; a process may *)
(* die between any two of them, and any of them may fail.  The lock is the *)
(* operating system's, so it dies with its holder, and the service manager *)
(* ends the child with the supervisor (systemd stops the whole unit).      *)
(*                                                                         *)
(* A sync may also go on without the lock.  The supervisor syncs in a      *)
(* thread (asyncio.to_thread); when its task is cancelled meanwhile, it    *)
(* gives up child and lock, and the thread writes on until it is through:  *)
(* it is the process "thread" here.  And a supervisor that could not       *)
(* replace itself after an update goes on without the lock when another    *)
(* process took it in between.                                             *)
(*                                                                         *)
(* A page is known by its digest.  ControlPages models how a page and its  *)
(* nested sources are verified and merged; here the result is a page that  *)
(* passed.  A configuration stands for its network fields, of which the    *)
(* signed card is a copy.                                                  *)
(***************************************************************************)
EXTENDS Integers, FiniteSets

CONSTANTS Pages,        \* control pages the publisher may put up
          Seq0,         \* sequence number of a page
          Signed,       \* pages that carry a signature
          ConfigOf,     \* configuration of a page, or Nothing
          NodesOf,      \* peer cards of a page
          SoftwareOf,   \* software of a page, or Nothing
          Refused,      \* pages with a configuration or a card that is refused
          OneShots,     \* processes that run `anet control-sync'
          Pinned,       \* cards that the operator may pin meanwhile
          Nothing,
          MaxDeaths,    \* bound: processes killed or stopped
          MaxTroubles   \* bound: failed fetches, installs, writes

ASSUME SupervisorAssumption ==
    /\ Seq0 \in [Pages -> Nat]
    /\ Signed \cup Refused \subseteq Pages
    /\ {"sup", "thread"} \cap OneShots = {}
    /\ Nothing \notin Pages \cup OneShots \cup {"sup", "thread"}
    /\ MaxDeaths \in Nat /\ MaxTroubles \in Nat

SupProcs == {"sup", "thread"} \cup OneShots

VARIABLES page,      \* what the control URL serves
          config, card, peers, package,      \* the files of the node
          recorded,  \* remote-control-state.json
          lock,      \* holder of supervisor.lock
          loose,     \* processes that go on without the lock
          step,      \* where each process is
          state,     \* the copy of remote-control-state.json in its sync
          doc,       \* the page a process works on
          saved,     \* its snapshot of the node files and the package
          change,    \* what its sync has changed so far
          server,    \* the server child and what it loaded at its start
          health,    \* supervisor-health.json
          deaths, troubles,
          torn,      \* history: a sync was cut short, nothing recorded since
          oldCard,   \* history: between configuration and card
          stray,     \* history: it left a package that was never recorded
          missed,    \* history: a restart was skipped by an error
          mixed      \* history: two processes are at work, one without the lock

files == <<config, card, peers, package>>
locals == <<state, doc, saved, change>>
losses == <<torn, oldCard, stray, missed>>
supVars == <<page, files, recorded, lock, loose, step, locals, server, health,
             deaths, troubles, losses, mixed>>

NoChange == [restart |-> FALSE, software |-> FALSE]
NoServer == [up |-> FALSE, config |-> "first", peers |-> {}, package |-> "old"]

NoRecord == [seq |-> -1, page |-> Nothing, software |-> Nothing]

SupInit ==
    /\ page \in Pages
    /\ config = "first" /\ card = "first" /\ peers = {} /\ package = "old"
    /\ recorded = NoRecord
    /\ lock = Nothing /\ loose = {}
    /\ step = [p \in SupProcs |-> "off"]
    /\ state = [p \in SupProcs |-> NoRecord]
    /\ doc = [p \in SupProcs |-> Nothing]
    /\ saved = [p \in SupProcs |-> Nothing]
    /\ change = [p \in SupProcs |-> NoChange]
    /\ server = NoServer
    /\ health = [inst |-> 0, state |-> "missing", synced |-> FALSE]
    /\ deaths = 0 /\ troubles = 0
    /\ torn = FALSE /\ oldCard = FALSE /\ stray = FALSE /\ missed = FALSE
    /\ mixed = FALSE

Idle == UNCHANGED <<page, deaths>>
Goto(p, s) == step' = [step EXCEPT ![p] = s]

\* The local variables of a sync, when it is over.
Forget(p) ==
    /\ state' = [state EXCEPT ![p] = NoRecord]
    /\ doc' = [doc EXCEPT ![p] = Nothing]
    /\ saved' = [saved EXCEPT ![p] = Nothing]
    /\ change' = [change EXCEPT ![p] = NoChange]

----------------------------------------------------------------------------
(* The world around: publisher, operator, death.                           *)

Publish(d) ==
    /\ page' = d /\ d # page
    /\ UNCHANGED <<files, recorded, lock, loose, step, locals, server, health,
                   deaths, troubles, losses, mixed>>

\* Another command pins a card; it does not take the lock of the home.
OperatorPins(c) ==
    /\ c \notin peers
    /\ peers' = peers \cup {c}
    /\ UNCHANGED <<page, config, card, package, recorded, lock, loose, step,
                   locals, server, health, deaths, troubles, losses, mixed>>

ServerExits ==
    /\ server.up
    /\ server' = NoServer
    /\ missed' = FALSE
    /\ UNCHANGED <<page, files, recorded, lock, loose, step, locals, health,
                   deaths, troubles, torn, oldCard, stray, mixed>>

\* SupervisorLock.release, and the operating system for a process that ends:
\* without effect for one that does not hold the lock.
LetGo(p) ==
    /\ lock' = IF lock = p THEN Nothing ELSE lock
    /\ loose' = loose \ {p}

Applying == {"config", "card", "nodes", "install", "verify", "record", "rollback"}

Die(p) ==
    /\ deaths < MaxDeaths /\ step[p] # "off"
    /\ deaths' = deaths + 1
    /\ Goto(p, "off")
    /\ LetGo(p)
    /\ server' = IF p = "sup" THEN NoServer ELSE server
    /\ torn' = (torn \/ step[p] \in Applying)
    /\ oldCard' = (oldCard \/ (step[p] \in {"card", "rollback"} /\ config # card))
    /\ stray' = (stray \/ step[p] = "verify"
                       \/ (step[p] = "record" /\ change[p].software))
    /\ missed' = (missed /\ p # "sup")
    /\ Forget(p)
    /\ UNCHANGED <<page, files, recorded, health, troubles, mixed>>

Passed(f, none) == [f EXCEPT !["thread"] = f["sup"], !["sup"] = none]

\* The task of the supervisor is cancelled, or ends, where it awaits: the
\* finally clause of run_supervisor.  A sync under way is not cancelled with
\* it; the thread that runs it goes on.  (Bound: one such thread at a time.)
StopService ==
    /\ deaths < MaxDeaths /\ deaths' = deaths + 1
    /\ \/ /\ step["sup"] \in {"done", "failed", "wait"}
          /\ Goto("sup", "off") /\ Forget("sup") /\ LetGo("sup")
       \/ /\ step["sup"] \in Applying \cup {"sync"} /\ step["thread"] = "off"
          /\ step' = Passed(step, "off")
          /\ state' = Passed(state, NoRecord) /\ doc' = Passed(doc, Nothing)
          /\ saved' = Passed(saved, Nothing) /\ change' = Passed(change, NoChange)
          /\ lock' = IF lock = "sup" THEN Nothing ELSE lock
          /\ loose' = (loose \cup {"thread"}) \ {"sup"}
    /\ server' = NoServer
    /\ health' = [health EXCEPT !.state = "stopped"]
    /\ missed' = FALSE
    /\ UNCHANGED <<page, files, recorded, troubles, torn, oldCard, stray, mixed>>

----------------------------------------------------------------------------
(* The lock, and a supervisor that begins (also after an update, when the  *)
(* old process has released the lock and replaced itself).                 *)

Busy(p) == step[p] \notin {"off", "exec"}

\* History: p goes to work, and `without' have no lock from now on.  Work of
\* two at a time may leave anything; the next that begins alone starts on it.
Joins(p, without) ==
    /\ loose' = without
    /\ mixed' = \E q \in SupProcs \ {p} : Busy(q) /\ {p, q} \cap without # {}
    /\ IF mixed THEN torn' = TRUE /\ oldCard' = TRUE /\ stray' = TRUE /\ missed' = TRUE
                ELSE UNCHANGED losses

\* The state file is loaded when a sync begins.
Begins(p) ==
    /\ lock' = p /\ Joins(p, loose \ {p})
    /\ Goto(p, "sync")
    /\ state' = [state EXCEPT ![p] = recorded]
    /\ health' = IF p = "sup" THEN [inst |-> health.inst + 1, state |-> "starting",
                                    synced |-> FALSE]
                              ELSE health

Acquire(p) ==
    /\ p # "thread" /\ step[p] = "off" /\ lock = Nothing
    /\ package # "partial"
    /\ Begins(p)
    /\ UNCHANGED <<files, recorded, doc, saved, change, server, troubles>>
    /\ Idle

\* After an update: os.execv, and run_supervisor of the new package.
Boot ==
    /\ step["sup"] = "exec"
    /\ IF lock = Nothing
       THEN Begins("sup")
       ELSE /\ Goto("sup", "off")
            /\ UNCHANGED <<lock, loose, state, health, losses, mixed>>
    /\ UNCHANGED <<files, recorded, doc, saved, change, server, troubles>>
    /\ Idle

\* os.execv fails: the lock is taken back and the error handled.  When
\* another process has the lock by now, that fails too; its error is handled
\* in the same place, and the supervisor goes on without the lock.
ExecFails ==
    /\ step["sup"] = "exec"
    /\ troubles < MaxTroubles /\ troubles' = troubles + 1
    /\ IF lock = Nothing THEN lock' = "sup" /\ Joins("sup", loose \ {"sup"})
                         ELSE lock' = lock /\ Joins("sup", loose \cup {"sup"})
    /\ Goto("sup", "failed")
    /\ UNCHANGED <<files, recorded, locals, server, health>>
    /\ Idle

----------------------------------------------------------------------------
(* One sync: _sync_remote_control_unlocked.                                *)

StaleOrSame(s, d) == Seq0[d] <= s.seq                        \* mutant
Stale(s, d) == Seq0[d] < s.seq
ForksRecord(s, d) ==
    d \in Signed /\ Seq0[d] = s.seq /\ s.page \notin {Nothing, d}
Known(s, d) == d = s.page

\* The page is read and verified, compared with the state, and the node
\* files are copied.  For a page that was applied before, the state is
\* written again with the time.
Fetch(p) ==
    LET s == state[p] IN
    /\ step[p] = "sync"
    /\ change' = [change EXCEPT ![p] = NoChange]
    /\ doc' = [doc EXCEPT ![p] = page]
    /\ IF Stale(s, page) \/ (Known(s, page) /\ ~ForksRecord(s, page))
       THEN /\ Goto(p, "done") /\ UNCHANGED saved
            /\ recorded' = IF Stale(s, page) THEN recorded ELSE s
       ELSE IF ForksRecord(s, page)
       THEN Goto(p, "failed") /\ UNCHANGED <<saved, recorded>>
       ELSE /\ Goto(p, "config") /\ UNCHANGED recorded
            /\ saved' = [saved EXCEPT ![p] = [config |-> config, card |-> card,
                                              peers |-> peers, package |-> package]]
    /\ UNCHANGED <<files, lock, loose, state, server, health, troubles, losses, mixed>>
    /\ Idle

\* The page cannot be read, or does not pass verification, or the state of a
\* known page cannot be written again.
FetchFails(p) ==
    /\ step[p] = "sync"
    /\ troubles < MaxTroubles /\ troubles' = troubles + 1
    /\ Goto(p, "failed")
    /\ UNCHANGED <<files, recorded, lock, loose, locals, server, health, losses, mixed>>
    /\ Idle

\* _apply_config up to the canonical config.json; a refused configuration
\* leaves the file as it was and raises.
ApplyConfig(p) ==
    LET d == doc[p] IN
    /\ step[p] = "config"
    /\ \/ ConfigOf[d] \in {Nothing, config} /\ Goto(p, "nodes") /\ UNCHANGED config
       \/ /\ ConfigOf[d] \notin {Nothing, config}
          /\ \/ Goto(p, "card") /\ config' = ConfigOf[d]
             \/ d \in Refused /\ Goto(p, "rollback") /\ UNCHANGED config
    /\ UNCHANGED <<card, peers, package, recorded, lock, loose, locals, server,
                   health, troubles, losses, mixed>>
    /\ Idle

\* _apply_config, the signed card of the new configuration.
ApplyCard(p) ==
    /\ step[p] = "card"
    /\ card' = config
    /\ oldCard' = FALSE
    /\ change' = [change EXCEPT ![p].restart = TRUE]
    /\ Goto(p, "nodes")
    /\ UNCHANGED <<config, peers, package, recorded, lock, loose, state, doc,
                   saved, server, health, troubles, torn, stray, missed, mixed>>
    /\ Idle

ApplyNodes(p) ==
    LET new == NodesOf[doc[p]] IN
    /\ step[p] = "nodes"
    /\ IF doc[p] \in Refused
       THEN Goto(p, "rollback") /\ UNCHANGED <<peers, change>>
       ELSE /\ peers' = peers \cup new
            /\ change' = [change EXCEPT ![p].restart = @ \/ ~(new \subseteq peers)]
            /\ Goto(p, "install")
    /\ UNCHANGED <<config, card, package, recorded, lock, loose, state, doc,
                   saved, server, health, troubles, losses, mixed>>
    /\ Idle

\* config.json, card.json or peers.json cannot be written.
ApplyFails(p) ==
    /\ step[p] \in {"config", "card", "nodes"}
    /\ troubles < MaxTroubles /\ troubles' = troubles + 1
    /\ Goto(p, "rollback")
    /\ UNCHANGED <<files, recorded, lock, loose, locals, server, health, losses, mixed>>
    /\ Idle

\* Nothing to install, or what the installer put there before the first sync.
Installed(s, d) ==
    \/ SoftwareOf[d] \in {Nothing, s.software}
    \/ SoftwareOf[d] = package /\ s.software = Nothing

\* _install_software: the package is copied aside and the installer runs.
Install(p) ==
    /\ step[p] = "install"
    /\ IF Installed(state[p], doc[p])
       THEN Goto(p, "record") /\ UNCHANGED package
       ELSE Goto(p, "verify") /\ package' = "partial"
    /\ UNCHANGED <<config, card, peers, recorded, lock, loose, locals, server,
                   health, troubles, losses, mixed>>
    /\ Idle

VerifySoftware(p) ==
    /\ step[p] = "verify"
    /\ package' = SoftwareOf[doc[p]]
    /\ change' = [change EXCEPT ![p].software = TRUE]
    /\ Goto(p, "record")
    /\ UNCHANGED <<config, card, peers, recorded, lock, loose, state, doc, saved,
                   server, health, troubles, losses, mixed>>
    /\ Idle

\* The installer or the check of the new version fails and the copy is put
\* back.  There is no copy of a package that lies outside sys.prefix, and to
\* put it back may fail: then the package stays as the installer left it.
InstallFails(p) ==
    /\ step[p] = "verify"
    /\ troubles < MaxTroubles /\ troubles' = troubles + 1
    /\ \/ /\ package' = saved[p].package
          /\ UNCHANGED <<stray, missed>>
       \/ /\ package' \in {"partial", SoftwareOf[doc[p]]}
          /\ stray' = TRUE /\ missed' = (missed \/ server.up)
    /\ Goto(p, "rollback")
    /\ UNCHANGED <<config, card, peers, recorded, lock, loose, locals, server,
                   health, torn, oldCard, mixed>>
    /\ Idle

\* _restore_control_files: the files as they were at the snapshot.
RestoredFiles(p) ==
    /\ config' = saved[p].config
    /\ card' = saved[p].card
    /\ peers' = saved[p].peers

Rollback(p) ==
    /\ step[p] = "rollback"
    /\ RestoredFiles(p)
    /\ oldCard' = (saved[p].card # saved[p].config)
    /\ Goto(p, "failed")
    /\ UNCHANGED <<package, recorded, lock, loose, locals, server, health,
                   troubles, torn, stray, missed, mixed>>
    /\ Idle

\* A file cannot be restored: those before it were, the others stay.  The
\* order is config.json, card.json, peers.json.
RollbackFails(p) ==
    /\ step[p] = "rollback"
    /\ troubles < MaxTroubles /\ troubles' = troubles + 1
    /\ peers' = peers
    /\ \/ UNCHANGED <<config, card>>
       \/ config' = saved[p].config /\ card' \in {card, saved[p].card}
    /\ torn' = TRUE /\ oldCard' = (card' # config')
    /\ missed' = (missed \/ server.up)
    /\ Goto(p, "failed")
    /\ UNCHANGED <<package, recorded, lock, loose, locals, server, health, stray, mixed>>
    /\ Idle

Record(p) ==
    LET d == doc[p] IN
    /\ step[p] = "record"
    /\ recorded' = [seq |-> Seq0[d], page |-> d,
                    software |-> IF SoftwareOf[d] = Nothing THEN state[p].software
                                                            ELSE SoftwareOf[d]]
    /\ torn' = FALSE
    /\ stray' = (stray /\ package # recorded'.software)
    /\ Goto(p, "done")
    /\ UNCHANGED <<files, lock, loose, locals, server, health, troubles, oldCard,
                   missed, mixed>>
    /\ Idle

\* The state file cannot be written.  That is after the rollback: what was
\* applied stays and the error skips the restart; the next sync finds the
\* files as the page wants them and no change.
RecordFails(p) ==
    /\ step[p] = "record"
    /\ troubles < MaxTroubles /\ troubles' = troubles + 1
    /\ torn' = TRUE
    /\ stray' = (stray \/ change[p].software)
    /\ missed' = (missed \/ (server.up /\ change[p] # NoChange))
    /\ Goto(p, "failed")
    /\ UNCHANGED <<files, recorded, lock, loose, locals, server, health, oldCard, mixed>>
    /\ Idle

----------------------------------------------------------------------------
(* After the sync.                                                         *)

\* `anet control-sync' gives the lock back, an abandoned thread ends.
Release(p) ==
    /\ p # "sup" /\ step[p] \in {"done", "failed"}
    /\ LetGo(p)
    /\ Goto(p, "off")
    /\ Forget(p)
    /\ UNCHANGED <<files, recorded, server, health, troubles, losses, mixed>>
    /\ Idle

Loaded == [up |-> TRUE, config |-> config, peers |-> peers, package |-> package]
ConfigOnly == change["sup"].restart /\ server.config # config  \* mutant
RestartRequired == change["sup"].restart

\* start_child: a child that is still running is left alone.
StartedChild(kept) == IF kept /\ server.up THEN server ELSE Loaded

\* The sync went well: health.synced, then a restart of whatever changed.
AfterSync ==
    /\ step["sup"] = "done"
    /\ IF change["sup"].software
       THEN /\ server' = NoServer
            /\ health' = [health EXCEPT !.state = "restarting", !.synced = TRUE]
            /\ LetGo("sup")
            /\ Goto("sup", "exec")
       ELSE /\ server' = StartedChild(~RestartRequired)
            /\ health' = [health EXCEPT !.state = "running", !.synced = TRUE]
            /\ Goto("sup", "wait")
            /\ UNCHANGED <<lock, loose>>
    /\ missed' = (missed /\ server' = server)
    /\ Forget("sup")
    /\ UNCHANGED <<files, recorded, troubles, torn, oldCard, stray, mixed>>
    /\ Idle

\* The health file cannot be written: the error path, without a restart.
HealthFails ==
    /\ step["sup"] = "done"
    /\ troubles < MaxTroubles /\ troubles' = troubles + 1
    /\ missed' = (missed \/ (server.up /\ change["sup"] # NoChange))
    /\ Goto("sup", "failed")
    /\ UNCHANGED <<files, recorded, lock, loose, locals, server, health, torn,
                   oldCard, stray, mixed>>
    /\ Idle

\* The sync failed: the child is kept or started, and the state is degraded.
AfterFailure ==
    /\ step["sup"] = "failed"
    /\ server' = StartedChild(TRUE)
    /\ health' = [health EXCEPT !.state = "degraded"]
    /\ missed' = (missed /\ server.up)
    /\ Goto("sup", "wait")
    /\ Forget("sup")
    /\ UNCHANGED <<files, recorded, lock, loose, troubles, torn, oldCard, stray,
                   mixed>>
    /\ Idle

\* The interval is over, or the child has exited.
Wake ==
    /\ step["sup"] = "wait"
    /\ Goto("sup", "sync") /\ Joins("sup", loose)
    /\ state' = [state EXCEPT !["sup"] = recorded]
    /\ health' = IF server.up THEN health ELSE [health EXCEPT !.state = "degraded"]
    /\ UNCHANGED <<files, recorded, lock, doc, saved, change, server, troubles>>
    /\ Idle

SyncStep(p) == \/ Fetch(p) \/ ApplyConfig(p) \/ ApplyCard(p) \/ ApplyNodes(p)
               \/ Install(p) \/ VerifySoftware(p) \/ Rollback(p) \/ Record(p)
               \/ Release(p)
SupStep == SyncStep("sup") \/ AfterSync \/ AfterFailure \/ Wake \/ Boot

SupNext ==
    \/ \E d \in Pages : Publish(d)
    \/ \E c \in Pinned : OperatorPins(c)
    \/ ServerExits \/ StopService \/ Boot \/ ExecFails
    \/ AfterSync \/ HealthFails \/ AfterFailure \/ Wake
    \/ \E p \in SupProcs :
          \/ Die(p) \/ Acquire(p) \/ SyncStep(p)
          \/ FetchFails(p) \/ ApplyFails(p) \/ InstallFails(p)
          \/ RollbackFails(p) \/ RecordFails(p)

\* The service manager starts the service again, a process runs on, the
\* interval ends.
SupFairness ==
    /\ SF_supVars(Acquire("sup"))
    /\ WF_supVars(SupStep)
    /\ \A p \in SupProcs \ {"sup"} : WF_supVars(SyncStep(p))

SupSpec == SupInit /\ [][SupNext]_supVars /\ SupFairness

----------------------------------------------------------------------------

SupTypeOK ==
    /\ page \in Pages /\ lock \in SupProcs \cup {Nothing}
    /\ loose \subseteq SupProcs
    /\ recorded.page \in Pages \cup {Nothing}
    /\ doc \in [SupProcs -> Pages \cup {Nothing}]
    /\ DOMAIN step = SupProcs
    /\ health.inst \in Nat /\ troubles \in 0 .. MaxTroubles

(***************************************************************************)
(* What remote-control-state.json says was applied is what the node files  *)
(* hold: configuration, card, peer cards and package of the recorded page, *)
(* whenever no sync is under way, whatever failed and was rolled back in   *)
(* between (_sync_remote_control_unlocked and its rollback).  Excepted are *)
(* a sync that was cut short by a death, or that could write neither the   *)
(* state nor the old files back, until the next one is recorded; a card    *)
(* that such a sync left behind: nothing makes it new afterwards, since    *)
(* the configuration is then found unchanged; and a package installed by   *)
(* such a sync or not put back by it, which stays when the next page asks  *)
(* for no software or for the recorded one (_install_software asks the     *)
(* state file, not pip).                                                   *)
(***************************************************************************)
RecordedIsApplied ==
    LET d == recorded.page IN
    (d # Nothing /\ ~torn /\ \A p \in SupProcs : step[p] \notin Applying) =>
        /\ ConfigOf[d] # Nothing => config = ConfigOf[d]
        /\ card = config \/ oldCard
        /\ NodesOf[d] \subseteq peers
        /\ recorded.software # Nothing => package = recorded.software \/ stray

(***************************************************************************)
(* A supervisor that waits with a child it calls running has a child that  *)
(* loaded the present configuration and package and every peer card of the *)
(* recorded page (run_supervisor: restart_required, and the restart after  *)
(* an update), but for a card that the operator had pinned before the page *)
(* named it: it is not new to the sync, and the child rereads its peers by *)
(* itself (ANode.run, reload_peers).  The other exception is a restart     *)
(* skipped by an error after the files had changed (the health or the      *)
(* state file not written, files or package not put back): the next sync   *)
(* finds nothing new.                                                      *)
(***************************************************************************)
ChildIsCurrent ==
    (step["sup"] = "wait" /\ server.up /\ ~missed) =>
        /\ server.config = config
        /\ server.package = package
        /\ recorded.page # Nothing /\ ~torn =>
              NodesOf[recorded.page] \subseteq server.peers \cup Pinned

\* What was recorded, what the files of the node hold and what its process
\* runs with are the same, at every rest of the supervisor.  The lock is what
\* this stands on: it is not said of processes that worked at a time because
\* one of them was left without it (`mixed': a cancelled sync that goes on, a
\* supervisor that lost the lock to another process after an update), until
\* the next sync that begins alone.
HomeIsCurrent == ~mixed => RecordedIsApplied /\ ChildIsCurrent

(***************************************************************************)
(* A page that stays up is recorded in the end, unless it is older than    *)
(* what was applied, forks it, or is refused, or a death left the package  *)
(* half installed so that no supervisor can start.                         *)
(***************************************************************************)
EventuallyApplied ==
    <>[][page' = page]_page =>
        []<>(Known(recorded, page) \/ Seq0[page] < recorded.seq
             \/ ForksRecord(recorded, page) \/ page \in Refused \/ package = "partial")
=============================================================================
