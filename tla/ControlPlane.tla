---------------------------- MODULE ControlPlane ----------------------------
(***************************************************************************)
(* Signed, revisioned control objects (control_plane.py): node descriptors *)
(* and reachability records, signed by a node, device grants and           *)
(* revocations, signed by a human.                                         *)
(*                                                                         *)
(* Signatures cannot be forged, so an object is known by its digest, here  *)
(* the number id of its signing; previous_digest is the id of another      *)
(* object and the all-zero digest is 0.  desc is descriptor_digest, input  *)
(* the configuration the object describes.                                 *)
(***************************************************************************)
EXTENDS Naturals

Kinds == {"none", "descriptor", "reachability", "grant", "revocation"}

ObjectType ==
    [id : Nat, kind : Kinds, seq : Nat, prev : Nat, desc : Nat, input : Nat]

\* No object yet: the head of an empty chain.
Genesis ==
    [id |-> 0, kind |-> "none", seq |-> 0, prev |-> 0, desc |-> 0, input |-> 0]

\* issue_node_descriptor: the successor of the revision before.
IssueNodeDescriptor(id, previous, input) ==
    [id |-> id, kind |-> "descriptor", seq |-> previous.seq + 1, prev |-> previous.id,
     desc |-> 0, input |-> input]

\* issue_reachability_record: bound to the digest of a descriptor.
IssueReachabilityRecord(id, previous, descriptor, input) ==
    [id |-> id, kind |-> "reachability", seq |-> previous.seq + 1, prev |-> previous.id,
     desc |-> descriptor.id, input |-> input]

\* issue_human_device_grant.
IssueHumanDeviceGrant(id, previous, descriptor) ==
    [id |-> id, kind |-> "grant", seq |-> previous.seq + 1, prev |-> previous.id,
     desc |-> descriptor.id, input |-> 0]

\* issue_human_device_revocation.
IssueHumanDeviceRevocation(id, previous, descriptor) ==
    [id |-> id, kind |-> "revocation", seq |-> previous.seq + 1, prev |-> previous.id,
     desc |-> descriptor.id, input |-> 0]

-----------------------------------------------------------------------------
(* _check_revision, the rule of every chain.                               *)

\* An exact duplicate of the head changes nothing.
Duplicate(head, o) == o.id = head.id

\* The next revision: no gap, no fork, no roll-back; an empty chain begins
\* with sequence 1 and the all-zero digest.
Follows(head, o) ==
    /\ o.seq = head.seq + 1
    /\ o.prev = head.id

\* The head of the chain once the object was offered to the store.
Advance(head, o) == IF Follows(head, o) THEN o ELSE head

\* The caller is told that its object is the head, or gets an error.
Accepted(head, o) == Duplicate(head, o) \/ Follows(head, o)
=============================================================================
