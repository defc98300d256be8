----------------------------- MODULE Publication ----------------------------
(***************************************************************************)
(* A node publishes its descriptor and its reachability at an Ahub         *)
(* (carriers/ahub.py current_node_descriptor, current_node_reachability,   *)
(* commit_node_reachability and the head of sync_ahub_once; the listener   *)
(* of node.py; ahub.py publish_descriptor and publish_reachability).       *)
(*                                                                         *)
(* The workers are threads of one node: "sync" runs sync_ahub_once, the    *)
(* others are relay listeners, which publish the descriptor only.          *)
(* control-state.json is read and written without a lock.  The descriptor  *)
(* is saved before it is published, the checkpoint of the reachability     *)
(* after.  A client may give up on a request that the Ahub handles later.  *)
(*                                                                         *)
(* caps counts the changes of the capabilities, addrs those of the         *)
(* addresses; an object that has come close to its expiry is out of date   *)
(* in the same way.  No object expires at the Ahub.                        *)
(***************************************************************************)
EXTENDS ControlPlane, FiniteSets

CONSTANTS
    Workers,    \* threads, "sync" among them
    MaxEvents   \* bound on the starts of the node, the changes of its
                \* configuration and the requests it gives up on

ASSUME PublicationAssumption ==
    "sync" \in Workers /\ MaxEvents \in Nat

VARIABLES
    caps, addrs,    \* versions of the configuration
    issued,         \* number of objects signed
    descFile,       \* control-state.json
    checkpoint,     \* reachability-state.json
    cached,         \* _reachability_record of the process
    session,        \* control_session_id of the process, 0 before the first start
    step,           \* where each worker is
    hand,           \* the object each worker deals with
    hubDesc,        \* control_node_descriptors of the Ahub
    hubReach,       \* control_reachability of the Ahub
    late,           \* requests in flight whose client has given up
    timeouts        \* number of such requests

configuration == <<caps, addrs>>
nodeFiles == <<descFile, checkpoint>>
hub == <<hubDesc, hubReach>>
process == <<cached, session>>
workers == <<step, hand>>
pubVars == <<configuration, issued, nodeFiles, process, workers, hub, late, timeouts>>

\* Files, tables and local variables hold only values the code can put there.
PubTypeOK ==
    /\ caps \in Nat /\ addrs \in Nat /\ issued \in Nat /\ session \in Nat /\ timeouts \in Nat
    /\ {descFile, checkpoint, cached, hubDesc, hubReach} \subseteq ObjectType
    /\ step \in [Workers -> {"idle", "save", "descriptor", "prepare", "reachability", "commit"}]
    /\ hand \in [Workers -> ObjectType]
    /\ late \subseteq ObjectType

PubInit ==
    /\ caps = 1 /\ addrs = 0 /\ issued = 0 /\ session = 0 /\ timeouts = 0
    /\ descFile = Genesis /\ checkpoint = Genesis /\ cached = Genesis
    /\ hubDesc = Genesis /\ hubReach = Genesis
    /\ step = [w \in Workers |-> "idle"]
    /\ hand = [w \in Workers |-> Genesis]
    /\ late = {}

\* One more event fits the bound (caps starts at 1).
AnotherEvent == caps + addrs + timeouts + session <= MaxEvents

GoTo(w, s, o) ==
    /\ step' = [step EXCEPT ![w] = s]
    /\ hand' = [hand EXCEPT ![w] = o]

\* Between two calls a worker holds nothing.
Done(w) == GoTo(w, "idle", Genesis)

-----------------------------------------------------------------------------
(* The node.                                                               *)

\* current_node_descriptor, up to the file: read it and, when it is missing,
\* out of date or about to expire, sign its successor.
CurrentNodeDescriptor(w) ==
    /\ step[w] = "idle" /\ session > 0
    /\ \/ /\ descFile.input = caps
          /\ GoTo(w, "descriptor", descFile)
          /\ UNCHANGED issued
       \/ /\ descFile.input # caps
          /\ GoTo(w, "save", IssueNodeDescriptor(issued + 1, descFile, caps))
          /\ issued' = issued + 1
    /\ UNCHANGED <<configuration, nodeFiles, process, hub, late, timeouts>>

\* atomic_json replaces the file, whatever it holds by now.
SaveDescriptor(w) ==
    /\ step[w] = "save"
    /\ descFile' = hand[w]
    /\ GoTo(w, "descriptor", hand[w])
    /\ UNCHANGED <<configuration, issued, checkpoint, process, hub, late, timeouts>>

AfterDescriptor(w) ==
    IF w = "sync" THEN GoTo(w, "prepare", hand[w]) ELSE Done(w)

\* The record in memory still says what the node would say now.
CachedAlways(descriptor) == cached.id > 0                     \* mutant
CachedIsCurrent(descriptor) ==
    /\ cached.id > 0
    /\ cached.desc = descriptor.id
    /\ cached.input = caps + addrs

\* current_node_reachability: one revision beyond the checkpoint.
CurrentNodeReachability(w) ==
    /\ step[w] = "prepare"
    /\ \/ /\ CachedIsCurrent(hand[w])
          /\ GoTo(w, "reachability", cached)
          /\ UNCHANGED <<issued, cached>>
       \/ /\ ~CachedIsCurrent(hand[w])
          /\ issued' = issued + 1
          /\ cached' = IssueReachabilityRecord(issued + 1, checkpoint, hand[w], caps + addrs)
          /\ GoTo(w, "reachability", cached')
    /\ UNCHANGED <<configuration, nodeFiles, session, hub, late, timeouts>>

\* commit_node_reachability, once the Ahub has answered: a checkpoint that is
\* not the predecessor is left alone, with an error when it conflicts.
CommitNodeReachability(w) ==
    /\ step[w] = "commit"
    /\ checkpoint' = Advance(checkpoint, hand[w])
    /\ Done(w)
    /\ UNCHANGED <<configuration, issued, descFile, process, hub, late, timeouts>>

-----------------------------------------------------------------------------
(* The Ahub.                                                               *)

\* publish_reachability: the record is verified against the descriptor that
\* is current at the Ahub.
AnyAnswer(o) == TRUE                                          \* mutant
ReachabilityAccepted(o) == o.desc = hubDesc.id /\ Accepted(hubReach, o)

\* accept_descriptor and accept_reachability for a request, whoever waits.
Handle(o) ==
    \/ /\ o.kind = "descriptor"
       /\ hubDesc' = Advance(hubDesc, o)
       /\ UNCHANGED hubReach
    \/ /\ o.kind = "reachability"
       /\ hubReach' = IF o.desc = hubDesc.id THEN Advance(hubReach, o) ELSE hubReach
       /\ UNCHANGED hubDesc

\* The answer to publish_descriptor; an error ends the pass.
PublishDescriptor(w) ==
    /\ step[w] = "descriptor"
    /\ Handle(hand[w])
    /\ IF Accepted(hubDesc, hand[w]) THEN AfterDescriptor(w) ELSE Done(w)
    /\ UNCHANGED <<configuration, issued, nodeFiles, process, late, timeouts>>

\* The answer to publish_reachability; an error ends the pass.
PublishReachability(w) ==
    /\ step[w] = "reachability"
    /\ Handle(hand[w])
    /\ IF ReachabilityAccepted(hand[w]) THEN GoTo(w, "commit", hand[w]) ELSE Done(w)
    /\ UNCHANGED <<configuration, issued, nodeFiles, process, late, timeouts>>

\* The client times out; the request may still arrive, or be lost.
RequestTimesOut(w) ==
    /\ step[w] \in {"descriptor", "reachability"}
    /\ AnotherEvent
    /\ timeouts' = timeouts + 1
    /\ late' = late \cup {hand[w]}
    /\ Done(w)
    /\ UNCHANGED <<configuration, issued, nodeFiles, process, hub>>

LateRequest(o) ==
    /\ o \in late
    /\ Handle(o)
    /\ late' = late \ {o}
    /\ UNCHANGED <<configuration, issued, nodeFiles, process, workers, timeouts>>

-----------------------------------------------------------------------------
(* The environment.                                                        *)

ChangeCapabilities ==
    /\ AnotherEvent
    /\ caps' = caps + 1
    /\ UNCHANGED <<addrs, issued, nodeFiles, process, workers, hub, late, timeouts>>

ChangeAddresses ==
    /\ AnotherEvent
    /\ addrs' = addrs + 1
    /\ UNCHANGED <<caps, issued, nodeFiles, process, workers, hub, late, timeouts>>

\* The process starts, for the first time or after it died at any point.
Start ==
    /\ AnotherEvent
    /\ session' = session + 1
    /\ cached' = Genesis
    /\ step' = [w \in Workers |-> "idle"]
    /\ hand' = [w \in Workers |-> Genesis]
    /\ UNCHANGED <<configuration, issued, nodeFiles, hub, late, timeouts>>

\* One worker's next step.
Work(w) ==
    \/ CurrentNodeDescriptor(w) \/ SaveDescriptor(w) \/ PublishDescriptor(w)
    \/ CurrentNodeReachability(w) \/ PublishReachability(w) \/ CommitNodeReachability(w)

PubNext ==
    \/ \E w \in Workers : Work(w) \/ RequestTimesOut(w)
    \/ \E o \in late : LateRequest(o)
    \/ ChangeCapabilities \/ ChangeAddresses
    \/ Start

PubSpec == PubInit /\ [][PubNext]_pubVars

\* The carrier loop and the listener call again and again, and the Ahub
\* answers all but finitely many requests in time.
PubFairness == \A w \in Workers : WF_pubVars(Work(w))

-----------------------------------------------------------------------------
(* Properties.                                                             *)

\* The checkpoint of the node is a revision the Ahub has: its newest or the
\* one before (commit_node_reachability runs after the answer).  Time-outs,
\* late requests and restarts never let the node run ahead.
CheckpointIsPublished ==
    hubReach.id = checkpoint.id \/ hubReach.prev = checkpoint.id

\* The Ahub holds another descriptor than the node, and not the predecessor.
DescriptorBroken == hubDesc.id # descFile.id /\ hubDesc.id # descFile.prev

\* The Ahub holds a record the node has forgotten.
ReachabilityBroken == hubReach.id # checkpoint.id /\ hubReach.id # cached.id

UpToDate ==
    /\ descFile.input = caps /\ hubDesc = descFile
    /\ cached.input = caps + addrs /\ cached.desc = descFile.id
    /\ hubReach = cached /\ checkpoint = cached

\* The Ahub gets to know the newest configuration of a running node, unless a
\* chain is broken for good: the publication cannot get stuck otherwise.
EventuallyPublished ==
    <>[](session > 0 => UpToDate \/ DescriptorBroken \/ ReachabilityBroken)

\* "A failed publish does not advance the checkpoint, so the same revision can
\* be retried" (CONTROL_PLANE_V1.md): with the descriptor in place, the Ahub
\* accepts the record the node is about to publish.
RevisionCanBeRetried ==
    \A w \in Workers : step[w] = "reachability" /\ hand[w].desc = hubDesc.id =>
        Accepted(hubReach, hand[w])
=============================================================================
