# Anet: TLA+ models, model checks and proofs

Anet is a private, encrypted store-and-forward network for agents. A *node*
seals messages into packets, spreads them over TLS connections, carrier
directories, offline bundles and *Ahub* mailboxes, and hands what arrives to
local workers under leases. This directory models the parts of
`src/src/anet/` whose correctness depends on order, repetition, crashes and
concurrent processes, checks them with TLC on small instances, and proves the
most important results with TLAPS for every instance.

Paths below are relative to `src/src/anet/` unless they start with `src/`.

## 1. Inventory

| Component | State it keeps | Operations | Hard behaviour |
|---|---|---|---|
| Packet intake (`node.py`, `store.py`, `packet.py`) | tables `packets`, `inbox`, `packet_rejections`, `local_prekeys`; imported books | accept from a carrier, scan the spool, open, decide trust, import, commit, answer, reject, purge, revoke | several workers on one SQLite file, each store call atomic, the sequence not; process death between calls; redelivery |
| Mesh forwarding (`store.py`, `node.py`, `bundle.py`) | `packets.depth`, `received_from`, `deliveries` | offer, store, acknowledge, receipt, bundle export and import, purge, reconcile at start | lost and repeated offers and acknowledgements, copies over paths of different length, a crash between autocommitted statements |
| One-time prekeys (`prekeys.py`, `node.py`, `store.py`) | `local_prekeys`, `peer_prekeys`, `peer_prekey_bundles`, memory of requests and answers | reserve, seal, burn, request, answer, generate, import, expire, purge | two parties and several sealing processes, bundles out of order, crashes between batch and answer |
| Consumer groups (`store.py`) | `consumer_groups`, `consumer_deliveries` | open, claim, acknowledge, reject, renew, purge, revoke | leases that lapse while their holder works, reuse of row ids |
| Agent tasks (`store.py`, `agent_protocol.py`) | `agent_task_executions`, `agent_task_cancellations` | begin, settle, cancel, the guard of generic settlement | duplicate requests, takeover of a run, cancellation before, during and after it |
| Peer book (`peers.py`) | `peers.json`, `revocations.json` and a copy of both in every process | reload, pin, revoke | whole-file writes from stale copies without a lock; death between two writes |
| Ahub mailbox (`ahub.py`, `carriers/ahub.py`) | mailbox, claims, settlements, allow list, quotas; at a node `ahub_deliveries` | submit, claim, settle, pull and acknowledge settlements, allow, expire | lost answers of any call, lapsed claims, two holders of one packet |
| Ahub request authentication (`ahub.py`) | nonces, allow list | verify, consume, purge | replay after the purge, clocks that disagree |
| Ahub relay (`ahub_relay.py`, `ahub.py`) | reservations on disk; waiting owners, active reservations and load in memory | reserve, authorize, wait, join, end, restart | everything read before an `await` may be stale after it |
| Companion approvals (`store.py`, `companion_protocol.py`, `mcp_server.py`) | `companion_approval_requests`, `_authorizations`, `_effects` | register, activate a decision, begin and settle an effect | grants checked before the transaction; execution tokens outlive leases; uses that run out |
| A2A gateway (`a2a_v1.py`, `node.py`, `store.py`) | `a2a_gateway_tasks`, `_messages`, `_dispatches`, `_events`; reserved one-time keys | register a message, request a cancellation, claim, seal, commit or retry an intent, append events | several drainers, leases that run out inside a batch, deaths between reservation and commit, cancellations that race messages and outcomes |
| Routing and scheduling (`routing.py`, `scheduling.py`, `node.py`, `store.py`) | path metrics, `route_state`, the timers of the background loop | dial, probe, choose a path, run the carriers that are due, back off | decisions on counters that other steps reset; paths that break and come back; a packet that waits behind a dead path |
| Control plane (`control_plane.py`, `carriers/ahub.py`, `ahub.py`) | heads of signed chains at a store and at an Ahub; `control-state.json`, `reachability-state.json` | issue, publish, commit a checkpoint, import, look up a grant | two threads and one file, answers that are lost or late, restarts between publish and checkpoint, forks, gaps, expiry |
| Remote control and supervisor (`remote_control.py`, `supervisor_health.py`) | `remote-control-state.json`, `config.json`, `card.json`, `peers.json`, the installed package, the health file, the lock of the home | fetch and verify a web of pages, apply, record, roll back, restart the server, replace itself | a death between any two file writes; a second sync command; pages put up in any order; pins and delegations across nested pages |
| Continuity gate (`continuity.py`) | challenges and receipts | prepare, expire, verify | several verifiers of one challenge, files that change between two looks |
| Relations (`relations.py`, `relation_*.py`, `relationship_claims.py`, `friendship.py`, `discord_relation_projection.py`) | `relationships.json`, a copy of it in the node, the book of claims | observe, link, supersede, merge, split, set circle and trust, decide a suggestion, confirm, withdraw, project a packet | whole-file writes from old copies; two files written one after the other |
| Disclosures (`relationship_disclosure_schedules.py`, `relationship_disclosures.py`, `relation_activity.py`, `reported_relationship_views.py`, `relationship_disclosure_recovery.py`) | schedules, archive, reported views | create, run, queue, archive, revoke, receive, report a gap, retransmit | two runners of one schedule, lost and repeated pages, a log saved from an old copy |
| Directory and WebDAV carriers (`carriers/directory.py`, `carriers/webdav.py`) | frames in weekly mailboxes | scan, accept, acknowledge, consume, push, quarantine | clocks apart, mailboxes that rotate, names that exist already, answers that are lost |
| Social and Discord bridge (`social.py`, `discord_social.py`) | `discord-social.sqlite3`: events, accounts, outbound replies, cursor | poll, ingest, evaluate, route, label, reply | every statement commits alone; polls die anywhere; edits and reactions in between; nonces that Discord forgets |
| Ahub HTTP front (`ahub_http.py`) | token buckets | admit, dispatch, map errors to a status | buckets pruned and evicted while callers wait |
| Pairing (`pairing.py`) | none: two signed files that an operator carries | create, verify | none of its own; the pinned card is in `PeerBook` |
| Direct transport, HTTP, wake-up | connections | framing, TLS | I/O only; its effect on the stores is in `Mesh` and `PacketIntake` |
| CLI, MCP server, configuration | files | parsing, printing | none of its own; commands that change shared files are actions of the modules |
| `src/amesh`; mobile application, installers, site | | | see section 8 |

Interactions. Every carrier ends in `accept_carrier_packet` or the spool scan
(`PacketIntake`); a committed message becomes available to consumer groups
(`ConsumerGroups`), which tasks refine by a ledger of their own
(`AgentTasks`, which extends that module and calls its operators). The prekey
a packet names was issued by `Prekeys` and is erased by the intake
transaction. Relays and the source run `Mesh`, the Ahub is one more custodian
of a packet (`AhubMailbox`). Trust everywhere is the verdict of the peer book
(`PeerBook`). A decision of a Companion device is a packet of the inbox claimed
through a group (`CompanionApproval`, which extends `ConsumerGroups`); what its
signature is worth is the verdict of the control store (`DeviceGrants`). Before
its mailbox pass a node publishes itself at the Ahub (`Publication`). The A2A
gateway turns foreign task messages into packets under one-time keys
(`A2AGateway`). The background loop picks a path to a peer (`Routing`) and runs
the carrier passes (`Carriers`, `AhubMailbox`). A supervisor keeps the node
process running with the configuration, cards and software of the control page
(`Supervisor`), whose nested sources are verified first (`ControlPages`); the
continuity gate watches the supervisor (`Continuity`, which extends it). What
the intake accepts is projected into the relationship book (`Relations`), whose
event log the disclosure schedules publish (`Disclosures`); the Discord bridge
is one more source of events for it (`DiscordSocial`).

## 2. Modules

| Module | Models | Composes |
|---|---|---|
| `PacketCustody` | what intake promises: accept at most once, one key per packet | |
| `PacketIntake` | a packet at its destination | refines `PacketCustody` (`INSTANCE ... WITH`) |
| `PacketIntakeProofs` | theorems about it | |
| `ConsumerGroups` | one consumer group over the inbox | |
| `AgentTasks` | task ledger on that group | extends `ConsumerGroups` |
| `Mesh` | one packet in a mesh of nodes | |
| `Prekeys` | one issuer, one requester with several processes | |
| `PeerBook` | the two files and the processes that share them | |
| `CompanionApproval` | requests, decisions and effects | extends `ConsumerGroups` |
| `ControlPlane` | signed objects and the rule of their chains | |
| `Publication` | a node and its chains at an Ahub | extends `ControlPlane` |
| `DeviceGrants` | the device chain in a control store | extends `ControlPlane` |
| `A2AGateway` | outbox and task ledger of one A2A task | |
| `AhubMailbox`, `AhubRelay`, `AhubRequests` | the parts of an Ahub | `MCAhub` puts them into one process |
| `AhubRequestsProofs` | theorem about `AhubRequests` | |
| `AhubFront` | rate limiter and dispatch of the Ahub's HTTP front | in `MCAhub` |
| `Supervisor` | sync, restart and self-replacement on one node home | |
| `Continuity` | challenges and receipts over that supervisor | extends `Supervisor` |
| `ControlPages` | verification of a root page and its nested sources | |
| `Relations` | the relationship book, its commands and the node's projector | |
| `Disclosures` | a disclosure schedule and its audience | |
| `Carriers` | two parties and a shared directory or WebDAV collection | |
| `Routing` | background loop of a node towards one peer | |
| `DiscordSocial` | poll and reply of the Discord bridge | |
| `DeliveryProofs` | theorems about `Mesh`, `A2AGateway`, `Publication` | |
| `AgentTasksProofs` | theorems about `ConsumerGroups`, `AgentTasks` | |
| `PrekeysProofs` | theorem about `Prekeys` | |
| `NodeProofs` | theorems about `PeerBook`, `CompanionApproval`, `ControlPages`, `DiscordSocial`, `Relations` | |
| `AhubProofs` | theorems about `AhubMailbox`, `AhubRelay`, `AhubFront` | |
| `LoopsProofs` | theorems about `Supervisor`, `Continuity`, `Disclosures`, `DeviceGrants` | |
| `MCNode` | | sum of `PeerBook`, `CompanionApproval`, `Relations`, `DiscordSocial`, `ControlPages` |
| `MCMesh` | | sum of `Mesh` and `Disclosures` |
| `MCLoops` | | sum of `Continuity` (with `Supervisor`), `DeviceGrants`, `Carriers`, `Routing` |
| `MCDelivery` | | sum of `Mesh`, `Publication`, `A2AGateway` |
| other `MC*` | small instances | |

How state and steps correspond to the code:

* **PacketIntake.** `row`, `inbox`, `rejections` and `prekey` are the tables;
  `worker` and `job` are the local variables of a handler between two store
  calls. `accept_carrier_packet` is split exactly at its store and peer-book
  accesses: look-up, open (key look-up), trust, projection, commit, follow-up,
  mark. A `ValueError` of a deterministic check leads to
  `mark_local_rejected`; anything else aborts the handler and leaves the row.
  `Purge` carries the cut-offs of `PacketStore.purge` as guards. Signatures
  and ciphers are the verdict sets `Undecodable`, `KeyOf`, `Sender`.
* **Mesh.** One packet, because packets do not interact in the store. An offer
  carries the depth read when it was written. `mark_acked` is three
  autocommitted statements, so it is two steps with a crash in between, and
  `Restart` applies the repair of `_init_schema`.
* **Prekeys.** A key is `<<generation, index>>`. `hold` is what a process has
  reserved and not yet sealed; failures of sealing and deaths before and after
  `bind_peer_prekey` are `SealFails`.
* **ConsumerGroups.** A claim token is its attempt number. A claim takes the
  oldest available messages in one transaction (`Claim(last)`), as
  `claim_messages` does with its limit. Row ids are SQLite's: largest plus one.
  A handler asks once whether it trusts the sender (`DecideTrust`) and commits
  later with that verdict (`Receive`); `verdicts` holds those that are open.
  `anet peer-revoke` writes the deny record (`Deny`) and then cleans up the
  store (`RevokePeer`); `overtaken` remembers the messages whose trusting
  verdict was open when the record was written.
* **AgentTasks.** The execution token is `<<task, number of the run>>`;
  `runs[t]` keeps the claim of each. `bypassed` remembers tasks whose message
  was settled by the generic operations.
* **PeerBook.** Each reload, pin and revocation is split at its file accesses.
* **AhubMailbox.** Each Ahub call is one transaction; at the client the answer
  of `submit`, the intake of a claim and the recording of a settlement are
  separate steps that may be lost.
* **AhubRelay.** A step is what runs between two `await`s, or under the lock.
* **AhubRequests.** The clock window, the nonce table and its purge, with
  clocks of senders that are off by any amount.
* **ControlPlane, Publication, DeviceGrants.** An object is known by its digest,
  here the number of its signing. `Follows` is `_check_revision`. A pass of
  `sync_ahub_once` is split at its file accesses and HTTP calls; a request whose
  client gave up stays in `late` until the Ahub handles it, or for ever. In the
  control store an import is one transaction; signers may fork their chains.
* **CompanionApproval.** `activate_` and `begin_companion_approval_effect` read
  the clock and check the grant, then open their transaction: two steps, with
  what was read kept in `doing`. The execution token is the number of the run.
* **A2AGateway.** Every store call is one transaction. The rows of the outbox
  are ordered by `place`. A drainer holds a batch of claims, each with the token
  and the reservation id it was given, and works through them in the order of
  their rows (`Turn`); `MayCommit` is
  the set of conditions of `commit_a2a_dispatch_packet`.
* **Supervisor.** A sync is split at its file writes and external effects:
  acquire the lock, fetch, snapshot, write configuration, card, peers, install,
  record; any process may die between two of them, which frees the lock, and
  each of them may fail. Up to the installation a failure leads to the rollback,
  which may fail too, as may the restoring of the package; the state file is
  written after it (`RecordFails`). A sync works with the copy of the state file
  it loaded (`state`). When the task of the supervisor is cancelled while it
  awaits its sync, the thread of the sync goes on without the lock; it is the
  process `"thread"`. A supervisor whose `execv` failed and that finds the lock
  taken goes on without it as well. Both are in `loose`, and `mixed` says that
  such a process worked at the same time as another. A page is known by its
  digest; `torn`, `oldCard`, `stray` and `missed` mark what a death or a failed
  write left behind (section 6). The server child runs with what it read at its
  start; it dies with its supervisor, as under systemd.
* **ControlPages.** The recursion of `_normalise_document` is a stack of
  frames, one step per page; a page is its signer, freshness, delegated keys
  and links. All webs of a set (`Webs`) are initial states.
* **Continuity.** Preparing and verifying are split where they read the health
  file; the exclusive creation of the receipt is one step.
* **Relations.** A book maps subjects to links and a relationship (circle,
  trust, open or ended, the reasons for the circle). A command opens, changes
  and saves its own copy; the node keeps the copy it opened at its first packet
  and saves it after each. `Primary` is any of the subjects that the code's
  ranking, which uses confidences, may prefer. On `relationships.json` commands
  run one at a time (a second one adds what the long-lived copy of the node
  already does). The file of claims has no such second writer in the node, so
  two commands share it: each loads it whole (`LoadClaims`), adds to its copy and
  saves that (`AddClaim`, `AddWithdrawal`); `raced` remembers the claims that one
  of them added while the other held a copy. `Valid` is
  `_validate_model`, one conjunct per group of its checks; `reload` applies it,
  and so does a transition before it saves, but no other command.
* **Disclosures.** A runner is split at its files: schedule, log, outbox,
  archive. The log is the set of its events, each known by its number; the order
  of the numbers is the order of the log. A page carries its two cursors, its
  sequence number and what it tells; the audience judges the pages it has as
  `reported_relationship_views.py` does: gaps, broken links, what they tell.
* **Carriers.** A pass is scan, handle each frame, push. The mailbox and the
  file name follow from kind, packet and epoch, so that a second write of a
  week is a no-op. Weeks are steps; `History` and `MaxAge` are the code's
  constants (five epochs, 31 days) scaled to the instance.
* **Routing.** Per path the consecutive successes and failures, saturated at
  their thresholds; scores and latencies are abstracted to "any path the
  counters allow". A round of the loop is dial or probe, choose, run what is
  due; timers count rounds.
* **DiscordSocial.** Each SQL statement and each end of an API call is a step.
  Scores, confidence, labels and thresholds are computed as in `social.py`;
  Discord is external: it keeps messages, reactions and recent nonces. The
  actions `amplify` and `connect_candidate` only add thresholds of the same
  form and are left out.
* **AhubFront.** Tokens are counted in units so that fractions stay integers;
  a bucket carries its place in the code's `OrderedDict`, which a use moves to
  the end, so that the one evicted is the one used least recently. A
  request that passes is answered by one of the answers its route and service may give.

## 3. Runs

`tlc -workers 2 -config <cfg> <module>` in this directory; `PROJECT.json`
lists them. All bounds are constants of the modules.

| Run | Instance | What it shows |
|---|---|---|
| `IntakeSafety` | two workers; packets `a`, `b` under one one-time key, one of them an imported bundle; one abort | an acknowledged packet is settled on disk; refinement of `PacketCustody`, hence one packet per key |
| `IntakeLive` | two workers; a static-mode request and a packet of another peer that names a foreign key; one abort; fair | at most one commit and one answer per packet; only the peer of a key consumes it; every packet offered again and again is acknowledged or expires |
| `IntakeRevoke` | one worker, one packet (violation) | see section 6 |
| `Tasks` | one group used in two ways. Tasks: two copies of a request and a cancellation, two claims each, three runs. Messages: the same three arrive, one of them transient and purged, with a revocation in two steps; one verdict is open at a time, and the second copy is judged after the first was committed; fair | ledgers agree with each other and the inbox (`LedgersSound`); outcomes are final, only the newest run decides, none starts after a cancellation (`RunsAreFenced`); cancellations conclude; after the clean-up of a revocation only a message judged trusted before the deny record can be held under a claim (`RevocationReaches`); every message is acknowledged in the end |
| `Mesh` | mesh: ring of three nodes with the destination beside one of them, two messages in flight, one fault, a bundle from source to destination; disclosures: two runners, two events, two pages, one rewrite of the log | nothing counts as delivered before the destination took it and acknowledged custodians have the packet (`CustodyIsReal`); `mark_acked` is atomic after recovery; a series the audience calls proven-continuous is the observer's log |
| `Prekeys` | two sealing processes, two generations of one key, two packets in transit, one fault; fair | no key seals two packets and packets sealed in time can be opened (`KeysServeOnce`); stock is replenished |
| `Node` | peer book: three processes, one revokes, one death; approvals: two rival decisions, two servers, two effects for one use, two runs each; relations: two actors, two packets, three claims, two commands (one of which may be the second one at the file of claims), one death; Discord: two messages, one reaction, two posts, one failure or death; pages: all webs of three pages | a reload after the deny record never trusts the peer; no effect without an approval and no more than the uses allow; every saved book loads again; a circle beyond "known" has a reason on file, or one that two commands raced about; the cursor passes an event only when it is stored, counted once and routed; one text per reply; every accepted source has a publisher the operator answers for |
| `Loops` | supervisor: four pages, two of them with an update (the second of those is put up only after the first was recorded without mishap), put up while some process is about to read one and not after the second mishap; a sync command beside it, one death or stop, one failure; work of two at a time with one mishap, within two lives of the supervisor and with pages put up before the first record only; the operator pins no card before a mishap; gate: two verifiers of one challenge; device chain: five signed objects, one expires; carriers: one packet, three weeks, one mishap; routing: two carriers beside the direct path, one upset; fair | what is recorded is applied and run, as long as the lock holds (`HomeIsCurrent`); one receipt per challenge, of a later supervisor; a page that stays up is applied; a signed revocation takes effect; a packet is carried and acknowledged, or purged; a packet leaves if some path works |
| `Delivery` | mesh: line of three nodes; publication: two threads, three events (starts, changes, time-outs); gateway: two messages, two drainers with batches of up to two, one key, one mishap; fair | the packet is settled or expires; a checkpoint is a revision the Ahub has, and the newest configuration is published; one packet per intent; cancellations cover every message and agree with the outcome (`CancelSound`); every intent is sent |
| `PeerBookRevokers` | two processes revoke (violation) | see section 6 |
| `PublishRetry` | one thread, three events (violation) | see section 6 |
| `Ahub` | mailbox: two uploaders, two packets, one rejected, an uploader's quota of one; relay: one pair, two connections each side, two reservations, one restart; requests: three of two senders, retention equal to the window; front: two callers, one bucket | custody and settlement (`CustodyKept`); exclusive sessions and exact load; effects at most once; the rate is respected and a `Retry-After` is kept (`LimiterSound`); acknowledgement and release in the end |

In `Node` interchangeable servers, effects and claims are used in one order
(`Approving`, `Relating` in `MCNode`), which loses nothing but names, and the
approvals begin with the deny record of a revocation written and its clean-up
still to come.

`MCAhub`, `MCNode`, `MCLoops` and `MCDelivery` are sums: their parts share no
variable, so a behaviour moves one of them and the others rest in a state in
which no fair action of theirs is enabled. (The resting mesh is one whose packet
has expired.) Loops that never rest, the supervisor's, the carriers' and the
router's, are fair in the part that moves only. `MCAgentTasks` is such a sum of
two uses of one group, and `MCMesh` of a packet and the pages of a schedule.

Most modules also define their type invariant; the types that a proof needs are
proved with its inductive invariant (section 5).

Why the bounds are enough to be interesting. Two workers, two copies or two
claims are what every race here needs; a second fault only repeats the first
at another place, and the run explores all places. Two generations of prekeys
cover resend, next generation and an old bundle after a new one. The ring has
two ways of different length to the neighbour of the destination. Three events
let a process start, lose an answer and start again, or see two changes. With
one key for up to four intents the gateway also falls back to the static key.
Request clocks range over more than window plus retention on both sides. With an
uploader's quota of one, a second upload meets the limit while the first is
claimed, settled or expires. Three pages are enough for a newer page, an older
one and one that is refused after part of it was applied; the fourth brings a
second update, so that a death can leave a package behind that the state file
does not name. Two log events with one event a page give two pages, so that one
can be lost, repeated or overtaken; the second is out of the schedule's scope,
so a page may also be empty. Three weeks let a frame outlive the mailbox it was
written to. Failures and recoveries of a path need the thresholds of the
instance (two for the direct path, one for a carrier); one upset reaches each of
them at each point of the loop. `Enough = 1` in `Relations` (two and three in
`relation_advisor.py`) only makes a suggestion come sooner. Every property is
also broken by a plausible mutation of the code (`PROJECT.json`, `mutants`),
which shows that the bound reaches the case the property is about.

## 4. Fairness

* Intake: handlers that started are run by the loop (weak); a sender offers a
  packet until it is acknowledged (`pending_for_peer`), so an offer is strongly
  fair. Aborts are bounded by `MaxAborts`; without a bound a handler might fail
  for ever.
* Groups and tasks: a worker keeps claiming (strong: a claim is disabled while
  another lease runs) and handles what it claimed; leases run out by the clock
  (weak). `MaxClaims` bounds lapses; the claim the bound keeps belongs to a
  worker that settles.
* Mesh: `sync_loop` and carrier polling repeat (strong, for each direction of
  a link), a connection ends in some way (weak), the spool scan repeats (weak).
* Prekeys: `maintain_prekeys` runs in every round, sealing is local, packets
  are offered until they arrive, the two intervals elapse.
* Ahub: the carrier scheduler repeats its passes; claims lapse by the clock;
  the event loop runs every ready coroutine and time-outs end every wait and
  session. Nothing makes a peer come to the relay, and nothing is assumed.
* Publication: the carrier scheduler and the listener loop run again and again
  (weak); starts, changes and time-outs are finitely many (`MaxEvents`), and a
  late request need not arrive.
* Gateway: somebody keeps draining (strong: other leases disable a claim), a
  drainer works through its batch (weak), the lease of a dead drainer runs out
  (weak). `MaxMishaps` bounds failures, deaths and leases that are too short.
* Device chain: the operator imports every object again and again (weak).
* Supervisor: the service manager starts it again, so it gets the lock in the
  end (strong: a sync command may hold it); a process that runs goes on, and the
  interval of the loop ends (weak). The claim is about a page that stays up.
* Carriers: the loops of `node.py` repeat their passes and a retry falls due
  (weak). Weeks, mishaps and clock differences are bounded.
* Routing: the loop goes on, a probe ends and the cooldown passes (weak). That
  some path works from some time on is the hypothesis of the property.
* `Node` and `Mesh` are checked for safety only; the liveness of the mesh is in
  `Delivery`.

`CHECK_DEADLOCK FALSE` everywhere: with finitely many packets the system may
come to rest when all are settled or expired.

## 5. Proofs

TLAPS checks, for every value of the constants that satisfies the named
assumptions:

* `PacketIntakeProofs` (assumption `IntakeAssumption`): `TypeCorrect`,
  `IntakeAtMostOnce`, `PrekeysSpentOnce`, `KeysConsumedByTheirPeer`,
  `AcksAreSettled`, `ProjectionPrecedesInbox`, and the refinement
  `IntakeImplementsCustody`.
  None of these is inductive alone. The inductive invariant `IntakeInv` adds:
  `RowKept` (a row disappears only when its packet has expired, so a worker
  that found a packet still has a row to mark), `NoLateCommit` (a worker past
  its look-up can only commit while the inbox row is missing), `FollowOnce`
  (the follow-up belongs to the worker whose commit inserted the row; at most
  one such worker exists), `SettledRow` (a delivered row stands for a commit, a
  rejection or an expired packet) and `ImportedFirst` (a worker that is past
  the projection of an importable packet has imported it). One lemma per action
  shows that it keeps the invariant; the refinement follows from it, since each
  commit is an `Accept` of the abstract specification and each purge or
  revocation a `Retire`.
* `AhubRequestsProofs` (assumption `RequestsAssumption`, with
  `Skew <= Retention`): `RequestsAtMostOnce`. The inductive invariant says
  that a request that took effect is remembered or too old for the window, now
  and later (`RememberedOrStale`); the lemma `KeptGuardsWindow` is the
  arithmetic: whatever is still in the window survives the purge. The model's
  clock of the Ahub does not run backwards, and the theorem rests on that.

* `DeliveryProofs`.
  *Mesh* (`MeshAssumption`: any set of nodes and links, with a source and another
  destination): `MeshCustody`, `MeshAcksAtomic`. `MeshInv` adds `FlightIsReal`
  (an acknowledgement in flight speaks of a row that exists until the packet
  expires) and `RecordsAreReal` (so does the row it leaves behind, also while
  `mark_acked` is half done): custody is claimed by messages before it is
  claimed by tables.
  *Gateway* (`GatewayAssumption`): `GatewaySendsOnce`, `GatewayCancels`.
  `GatewayInv` adds `PacketsMatch` (packets and dispatched intents correspond),
  `KeysMatch` (the key of a packet is used up) and `TaskExists`.
  *Publication* (`PublicationAssumption`): `CheckpointPublished`. `PubInv` adds
  `RecordsAreChained` (every record that may still reach the Ahub was signed on
  top of the checkpoint of its time), `HubIsClose` (the Ahub is at the
  checkpoint or one record beyond) and `CommitsArePublished`.
* `AgentTasksProofs` (`GroupAssumption`, `TaskAssumption`; the copies of a task
  have one sender, since the task id is bound to it): `GroupRespectsRevocation`,
  `TaskLedgersSound` and the action property `TaskRunsFenced`. `GroupInv` says of
  a sender whose deny record is written that every open verdict trusting it is
  one of those that were open then, and of one whose clean-up is done that every
  trusted row is. `TaskInv` adds
  `RunsAreOwn`: a run without an outcome belongs to a claim on a copy of its own
  request, inside the policy and with the body the task is bound to.
* `PrekeysProofs` (`PrekeyAssumption`): `PrekeysServeOnce`. `PrekeyInv` says
  that the requester knows only generations that exist (`GenerationsInOrder`),
  that a reservation belongs to one process (`ReservationsExclusive`), that a
  key is in one packet at most (`PacketsDistinct`), and which private keys the
  issuer still has (`PrivateKeysKept`).
* `NodeProofs`.
  *Peer book* (`BookAssumption`): `RevocationHolds`, under the hypothesis that
  one process revokes; `PeerBookRevokers` shows that it is needed. `BookInv`
  says that its copy of the ledger is the ledger (`LedgerIsComplete`) and that
  what a process knew at its reload it denies (`KnownIsDenied`).
  *Approvals* (`ApprovalAssumption`; decisions are visible messages,
  `node.py:2558`, so none is transient): `ApprovalsSound`. `ApprovalInv`
  relates what a server checked before its transaction to the tables in it
  (`ChecksHold`), decisions to acknowledged packets of the asked device
  (`DecisionsAreBound`), effects to approvals (`EffectsAreApproved`) and
  counts reservations (`UsesAreBounded`).
  *Control pages* (`PagesAssumption`: any webs of pages): `SourcesAreVouchedFor`.
  `PagesInv` follows the stack of the recursion: the root first
  (`RootComesFirst`, `RootIsLocal`), then which keys are in force in a frame
  (`KeysAreLayered`) and that every link of a visited page is verified or still
  on the stack (`VisitedIsVerified`).
  *Discord* (`DiscordAssumption`): `RepliesAreOne`, and `CursorHolds` under the
  hypothesis that all events fit under the cap of 10000 that
  `discord_social.py:842` puts on a counter. `DiscordInv` says that a stored
  event stays stored (`StoredIsKept`), that the row of a reply precedes its
  posts (`RowsAreReserved`), that a command past its reservation holds the text
  of the row (`CommandsAreReserved`), and what each step of the poll has already
  done for the head of its page (`PollIsEarned`).
  *Relations* (`RelationAssumption`: who signs a claim has a card of its own, and
  a claim is not named like another reason of a circle): `RelationBookReloads`
  and `RelationCirclesAreEarned`, from `RelationInv` and `ClaimsKept`. The latter
  is about the file of claims alone: whatever was stored while nobody else held a
  copy is on file and in every copy loaded since. `RelationInv` says of the book
  and of every copy of it, old or new, that it is valid, that its circles are
  earned by claims that were stored (`WellEarned`), and that nothing hangs on a
  reference that was not handed out (`RefsInOrder`). The last is what an old copy
  needs: a process that observes an actor in it uses a reference that no copy
  has. `CommandInHand` and `NodeInHand` say what a process may rely on between
  two of its saves. One lemma per method of the book shows that a good book
  stays good (`CircleSet`, `ActorObserved`, `SubjectsReplaced` and others); that
  claims only become more and references only grow carries over to the copy of
  the other process (`BookStaysGood`).
* `AhubProofs` (`MailboxAssumption`, `RelayAssumption`, `FrontAssumption`):
  `MailboxKeepsCustody`, `RelayBooksSessions` and `LimiterKeepsPromises`.
  `MailboxInv` adds that whatever a pass may settle was
  taken in (`SettledWasTaken`), that a packet has one row (`OneRow`) and that a
  receipt at a node is covered by the Ahub (`ReceiptsAreCovered`). For the
  relay, `SessionsAreExact` is inductive with its types and the finiteness of
  the set of sessions (`RelayInv`); the proof is the counting. For the rate
  limiter, `FrontInv` balances the books of every caller (`BooksBalance`: what was
  granted and what is left came from one full bucket, one more per eviction, and
  what flowed back; a bucket that is pruned was full again, `PrunedWasFull`) and
  says that at the second of a `Retry-After` the bucket has a token
  (`PromiseIsFunded`).
* `LoopsProofs` (`SupervisorAssumption`). `ContinuityHolds`: `GateInv` follows
  what a verifier carries across its two looks at the files (`VerifierSound`)
  and uses that instances only grow (`InstancesGrow`). `HomeStaysCurrent`:
  `HomeInv` has two parts. `HomeBase` holds always: types, that whoever works has
  the lock or is known to have lost it (`Locked`), and that the child ends with
  its supervisor. `InOrder` holds unless `mixed`: one process at work (`Alone`)
  with an up-to-date copy of the state file (`Copied`), the claim at rest
  (`AtRest`), how far a sync has come, write by write, with a snapshot that still
  satisfies what is recorded (`Progress`), and what the child was started with
  (`ChildKnown`). It comes back when a process begins alone
  (`BeginningsKeepHome`).
  `ProvenSeriesIsTheLog`: `DisclosureInv` says that two copies of the log agree
  up to any event they share (`Agree`), that every copy of the schedule, page
  prepared, sent or archived tells all of each such log between its cursors
  (`GoodCopy`, `GoodPage`), and that the view is true (`ViewIsTrue`). That pages
  linked one to the next tell the whole stretch is proved by a least page that
  does not (`SeriesLinks`, `SeriesTells`).
  `RevocationIsReachable`: while a grant is in force although a revocation was
  signed after it, and no chain is forked and nothing expired, some object can be
  imported. This is the part of `RevocationTakesEffect` that does not need
  fairness; the run shows that fair imports then come to the end. `DeviceInv`
  says that heads are signed objects in chains (`ChainsAreSigned`) and that up
  to a grant there are only grants (`GrantsSoFar`); the lemmas `OnePerSequence`,
  `NextExists` and `SignedInOrder` are about chains without a fork.

Induction over data is out of the prover's reach, but the least-number principle
is not: `LeastNatural` follows from the theorem of the library that `<` is well
founded, and the proofs about series and chains argue by a least counterexample.

The larger inductive invariants (`GateInv`, `DiscordInv`) were first
checked by TLC on the instance of their run.
Type invariants hold the values a proof needs; the record or sequence facts that
come up again and again are lemmas.

Only model-checked:

* all liveness properties: liveness under fairness is out of the prover's reach.
  These are all run properties of `DeviceGrants`, `Carriers` and `Routing`, the
  `Eventually...` ones of the others, `CancellationConcludes`, `Replenished` and
  `OwnerReleased`.

Every invariant and action property of a passing run is proved; `RevokedNeverTrusted`
and `CursorIsEarned` under the hypotheses named above. `RevocationReaches`,
`CircleIsEarned` and `HomeIsCurrent` name in their statement the races that the
code loses (section 6).

## 6. Disagreements with the documentation

Kept as runs that TLC refutes (`findings` in `PROJECT.json`):

* `IntakeRevoke`: trust is decided before the inbox transaction; a revocation
  whose clean-up runs in between leaves a trusted row (`node.py:2531`,
  `src/SECURITY.md:90`). Such a row can be leased to a worker afterwards, since the
  claim filter looks at the row only; hence `overtaken` in `RevocationReaches`.
* `PeerBookRevokers`: a second revoker writes its stale ledger and drops the
  first deny record (`peers.py:135`, `src/SECURITY.md:90`).
* `PublishRetry`: the Ahub accepts a reachability record, the process dies
  before the checkpoint, and the next process signs another record with the
  same sequence: a fork, refused for good (`carriers/ahub.py:220`,
  `src/docs/CONTROL_PLANE_V1.md:170`).

Met while modelling, visible in the models, not kept as runs:

* A worker that passed `packet_delivered` before another committed the same
  packet finds the one-time key erased and records a rejection of a packet that
  is in the inbox (`node.py:2480`; `src/PROTOCOL.md:126` says that a replay is
  confirmed by the primary keys). `AckMeansSettled` therefore does not exclude
  that a packet is both committed and rejected.
* A rejected packet is acknowledged when it comes again, since
  `mark_local_rejected` sets `delivered` (`node.py:2461`; `src/PROTOCOL.md:220`
  reads an acknowledgement of the destination as acceptance). Hence
  `AckMeansSettled` and not "accepted".
* A group opened at `latest` after the newest row, a transient one, was purged
  skips the next message, which gets the same row id (`store.py:2021`,
  `src/PROTOCOL.md:330`). Hence `rowid[p] <= startAfter`
  in `EventuallyAcknowledged`.
* `acknowledge_claim` refuses the token of the open run only; a later claim of
  the same packet may be acknowledged generically (`store.py:2177`,
  `src/docs/AGENT_TASK_PROTOCOL.md:120`). Hence `bypassed` in `NoLostTask`.
* A relay that acknowledged the copy of a longer way is not offered the shorter
  one again and may stop one hop early (`store.py:630`;
  `src/docs/SIGNAL_REFERENCE.md:43` promises convergence). `EventuallySettled`
  is checked on a line, where there is only one way; it fails on a kite (a way
  of three links next to one of two, two more links to the destination,
  `MaxHops = 3`).
* The sync thread and the relay listener write `control-state.json` without a
  lock: both may sign the next descriptor, and the one that loses at the Ahub
  may be the one in the file (`carriers/ahub.py:59`). A descriptor that never
  reached an Ahub leaves a gap there (`carriers/ahub.py:308`). Hence
  `DescriptorBroken` in `EventuallyPublished`. In both cases `sync_ahub_once`
  fails before its mailbox pass.
* A store that imported a newer descriptor first can never import a grant bound
  to an older one, nor what follows it; the chain fails closed. An object that
  expires on the way blocks a later revocation. Hence the exceptions in
  `RevocationTakesEffect`.
* A device grant revoked between check and commit still starts one run
  (`store.py:2676`, `src/docs/COMPANION_V1.md:133`).
* A drainer whose lease ran out may reserve a key under a reservation that is
  finished, and nobody burns it (`node.py:512`,
  `src/docs/A2A_V1_GATEWAY.md:102`). An intent to cancel may be sent before a
  request that waits for its retry (`store.py:3741`,
  `src/docs/A2A_V1_GATEWAY.md:123`).
* An imported bundle starts again at depth 0 (`bundle.py:59`,
  `src/PROTOCOL.md:224`), so `max_hops` bounds each stretch between two bundles.
* A relay owner is counted only when it is paired, so that a node may exceed
  its connection limit by the reservations it owns (`ahub_relay.py:138`,
  `src/docs/RELAY_V1.md:110`).
* When `relay.waiting` cannot be sent, the entry of the owner stays in
  `_waiting` (`ahub_relay.py:86`, `src/docs/RELAY_V1.md:26`).
* Supervisor. The state file is written after the rollback
  (`remote_control.py:1615`): when that fails, the page stays applied and
  unrecorded, the error skips the restart, and the next sync records the page
  but finds no change, so that the child runs on with the old configuration
  until something restarts it (`torn`, `missed`, and `stray` for a package). A
  rollback that fails leaves the files half restored, and a package outside
  `sys.prefix` is not snapshot and not put back
  (`remote_control.py:1271`, `remote_control.py:1468`). A supervisor cancelled
  during its sync gives the lock back while the thread of the sync writes on
  (`remote_control.py:1733`, `remote_control.py:1799-1807`), and one whose
  `execv` failed goes on without the lock when another process took it meanwhile
  (`remote_control.py:1762-1772`). The two that then work at a time may leave any
  mixture of files; hence `mixed` in `HomeIsCurrent`. A death between `config.json` and `card.json` leaves the old card
  beside the new configuration until a page changes the configuration again
  (`remote_control.py:1136-1185`), and a half-applied page that is withdrawn
  stays half applied; hence `torn` and `oldCard` in `RecordedIsApplied`. A
  health file that cannot be written after a sync skips the restart of the
  server as well (`remote_control.py:1744`). The rollback
  writes `peers.json` back from the snapshot and drops a card that the operator
  pinned meanwhile (`remote_control.py:1123`). A death inside the installation
  leaves a package that may not start (`package = "partial"` in
  `EventuallyApplied`). A death between the installation and the record leaves a
  package that the state file never names; a later page without software, or
  with the recorded one, is recorded over it, because `_install_software`
  compares the software of the state file only (`remote_control.py:1417`;
  `stray` in `RecordedIsApplied`; met in the proof of `HomeStaysCurrent`). A card
  that the operator pinned before a page names it causes no restart; the child
  rereads the book itself (`node.py:869`, `node.py:1165`), hence `Pinned` in
  `ChildIsCurrent`.
* Control pages. A nested source without a pin is accepted from any local
  trusted key (`remote_control.py:902-907`;
  `src/docs/CONTROL_SOURCE_PINS_V1.md`). `SourcesVouchedFor` says so.
* Relations. The node saves the whole copy it opened at its first packet, so a
  relationship that a command ended is open again after the next packet
  (`node.py:2667-2679`, `src/docs/RELATIONS_V1.md:407-409`). A mutual claim, a
  friend scan and an accepted suggestion also reopen an ended one. No property
  claims that an end is final. The file of claims is loaded when a command starts
  and saved whole without a lock (`relationship_claims.py:579-669`): of two
  commands at a time the second may drop the claim of the first, which the
  relationship book goes on citing, or its withdrawal, which makes the claim
  active again. Hence `raced` in `CircleIsEarned`, and no property about
  withdrawals.
* Disclosures. A runner that loaded the schedule before its revocation saves it
  unrevoked (`relationship_disclosure_schedules.py:575-627`,
  `src/docs/RELATIONSHIP_DISCLOSURES_V1.md:205-206`). Two runners may leave a
  pending page that the archive refuses for ever. `ProvenContinuous` holds all
  the same, because the audience does not call such a series continuous. The
  view marks a subject as superseded on any activity of type `subject.*`
  (`reported_relationship_views.py:477`); facets are not modelled.
* Discord. A reaction or pin between a failed poll and the next one changes the
  body under the same revision, and the event "conflicts" in every later poll
  (`discord_social.py:808-822`, `src/docs/DISCORD_SOCIAL_V1.md:244-245`); the
  cursor stays where it is, which is what `CursorIsEarned` asks, but the channel
  is stuck, so no liveness is claimed. Without a cursor each poll reads the
  newest hundred messages only. An edit before the retry leaves the event of the
  first revision unrouted and counts for the author once more. A stored
  evaluation is not revised when a risk label comes later.
* Rate limiter. An evicted bucket gives its caller a fresh burst
  (`ahub_http.py:197`); `RateRespected` counts evictions.

## 7. Plan

Done: models of all parts of section 1 down to the Ahub's HTTP front, and a
theorem for every safety property of the runs. Next, in order:

1. `Carriers`: that a frame is acknowledged only after its packet was taken in,
   as an invariant and a theorem.
2. The requester's view of agent tasks and the phone's side of approvals, each
   with the module it talks to.
3. One-off disclosures outside a schedule.

New modules that are checked together are named and composed like the parts
of `MCAhub`.

## 8. Not modelled

* Ciphers, signatures, canonical encodings, TLS and HTTP framing: their
  verdicts appear as constants; their inner workings are libraries or pure I/O.
* Real time: expiry, leases and intervals are steps that may happen at any
  moment after their cause.
* Configuration, command line, MCP server and printing: the operations they
  call are actions of the modules; what remains is parsing and wording.
* Pairing (`pairing.py`): the verification of two signed files that an operator
  carries; it keeps no state. Its effect, a pinned card, is an action of
  `PeerBook`.
* Direct transport (`transport.py`, framing, TLS): its effect on the stores, and
  the loss and repetition of its messages, are in `Mesh` and `PacketIntake`.
* Locators (`locator.py`): the parsing and ordering of a peer's addresses.
* Of agent tasks: the requester's view of results; of approvals: the phone's side
  and its other messages; of the gateway: event pages and artifacts; of the
  control plane: a peer's look-up of a published record; of
  relations: one-off disclosures outside a schedule, facets and the texts of the
  advisor; of the Ahub's front: the parsing of HTTP.
* `src/amesh` (a separate package), the mobile application, installers and the
  web site.
