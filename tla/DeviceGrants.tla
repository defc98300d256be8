---------------------------- MODULE DeviceGrants ----------------------------
(***************************************************************************)
(* The device chain of one human and one device in the control store of a  *)
(* node (control_plane.py ControlPlaneStore, cli.py control-import).  The  *)
(* device signs descriptors, the human signs grants and a revocation; the  *)
(* operator imports objects in any order, some twice, some never.  A signer *)
(* that lost or shared its state forks its chain.                          *)
(***************************************************************************)
EXTENDS ControlPlane, FiniteSets

CONSTANTS
    MaxSigned,  \* bound on the objects signed
    MaxExpired  \* bound on the objects that expire

ASSUME DeviceAssumption == MaxSigned \in Nat /\ MaxExpired \in Nat

VARIABLES
    signed,     \* objects that exist
    expired,    \* ids of those whose validity window is over
    descriptor, \* control_node_descriptors, the head of the device
    device      \* control_human_devices, the head of the chain

deviceVars == <<signed, expired, descriptor, device>>

\* The tables hold only objects somebody signed.
DeviceTypeOK ==
    /\ signed \subseteq ObjectType
    /\ expired \subseteq {o.id : o \in signed}
    /\ descriptor \in ObjectType /\ device \in ObjectType

DeviceInit ==
    /\ signed = {} /\ expired = {}
    /\ descriptor = Genesis /\ device = Genesis

Descriptors == {o \in signed : o.kind = "descriptor"}
HumanObjects == {o \in signed : o.kind \in {"grant", "revocation"}}
NextId == Cardinality(signed) + 1

-----------------------------------------------------------------------------
(* The signers.                                                            *)

Sign(o) ==
    /\ Cardinality(signed) < MaxSigned
    /\ signed' = signed \cup {o}
    /\ UNCHANGED <<expired, descriptor, device>>

SignDescriptor(previous) == Sign(IssueNodeDescriptor(NextId, previous, 0))

\* The human has seen the descriptor d and never goes back to an older one.
SignGrant(previous, d) ==
    d.id >= previous.desc /\ Sign(IssueHumanDeviceGrant(NextId, previous, d))

SignRevocation(previous, d) ==
    /\ d.id >= previous.desc
    /\ Sign(IssueHumanDeviceRevocation(NextId, previous, d))

\* The validity window of a descriptor or a grant ends; a revocation has none.
Expire(o) ==
    /\ o.kind # "revocation"
    /\ o.id \notin expired
    /\ Cardinality(expired) < MaxExpired
    /\ expired' = expired \cup {o.id}
    /\ UNCHANGED <<signed, descriptor, device>>

-----------------------------------------------------------------------------
(* The store.  An import that the rules refuse changes nothing.            *)

\* verify of every object bound to a descriptor, and _require_current_descriptor.
BoundToCurrent(o) == o.desc = descriptor.id /\ descriptor.id \notin expired

\* forbid_after_terminal.
Open == device.kind # "revocation"

AcceptDescriptor(o) ==
    /\ o.kind = "descriptor"
    /\ o.id \notin expired
    /\ Follows(descriptor, o)
    /\ descriptor' = o
    /\ UNCHANGED <<signed, expired, device>>

AcceptHumanGrant(o) ==
    /\ o.kind = "grant"
    /\ o.id \notin expired /\ BoundToCurrent(o)
    /\ Open /\ Follows(device, o)
    /\ device' = o
    /\ UNCHANGED <<signed, expired, descriptor>>

AcceptHumanRevocation(o) ==
    /\ o.kind = "revocation"
    /\ BoundToCurrent(o)
    /\ device # Genesis
    /\ Open /\ Follows(device, o)
    /\ device' = o
    /\ UNCHANGED <<signed, expired, descriptor>>

ControlImport(o) == AcceptDescriptor(o) \/ AcceptHumanGrant(o) \/ AcceptHumanRevocation(o)

IsHumanDeviceRevoked == device.kind = "revocation"

\* human_device_grant: the grant is bound to the descriptor the store has now,
\* and neither is out of date.
GrantOfAnyDescriptor == device.kind = "grant"                 \* mutant
HumanDeviceGrant ==
    /\ device.kind = "grant"
    /\ device.id \notin expired
    /\ BoundToCurrent(device)

DeviceNext ==
    \/ \E p \in Descriptors \cup {Genesis} : SignDescriptor(p)
    \/ \E p \in HumanObjects \cup {Genesis}, d \in Descriptors :
          SignGrant(p, d) \/ (p # Genesis /\ SignRevocation(p, d))
    \/ \E o \in signed : Expire(o) \/ ControlImport(o)

DeviceSpec == DeviceInit /\ [][DeviceNext]_deviceVars

\* Every signed object is imported again and again.
DeviceFairness == \A n \in 1..MaxSigned :
    WF_deviceVars(\E o \in signed : o.id = n /\ ControlImport(o))

-----------------------------------------------------------------------------
(* Properties.                                                             *)

\* Two objects of one chain claim the same predecessor.
Forked == \E o, q \in signed :
    /\ o # q /\ o.prev = q.prev
    /\ (o.kind = "descriptor") = (q.kind = "descriptor")

\* Once a revocation is signed, the device ends up without authority, even
\* where the revocation itself is refused because the device has moved on to
\* another descriptor.  Exceptions: a signer forks its chain, or an object on
\* the way expires before it is imported and leaves a gap.
RevocationTakesEffect ==
    []((\E o \in signed : o.kind = "revocation")
       => <>[](~HumanDeviceGrant \/ Forked \/ expired # {}))
=============================================================================
