------------------------------- MODULE MCLoops ------------------------------
(***************************************************************************)
(* The loops that keep a node going, in parts that share no variable: the  *)
(* supervisor that applies the control page, the gate for continuity with  *)
(* it, the imports of device grants, a mailbox carrier and the choice of   *)
(* paths.  A behaviour moves one part and leaves the others at rest, where *)
(* they have nothing to do: an idle service is not installed and the page  *)
(* up is one that is refused, nothing is signed, carried or queued.  The   *)
(* fairness of the supervisor and of the loops, which never rest, is that  *)
(* of the part that moves.                                                 *)
(*                                                                         *)
(* Supervisor: "p" brings a configuration, a peer and an update, "q" an    *)
(* update, "u" is unsigned and brings none, "b" is refused.  Continuity:   *)
(* the page "u" stays up, two verifiers hold one challenge.  Carriers: one *)
(* packet, and the card of its receiver rotates.  Routing: two adaptive    *)
(* carriers beside the direct path.                                        *)
(***************************************************************************)
EXTENDS Continuity, DeviceGrants, Carriers, Routing

MCSeq == [d \in Pages |-> IF d \in {"q", "b"} THEN 2 ELSE 1]
MCConfig == [d \in Pages |-> CASE d \in {"u", "q"} -> Nothing [] d = "p" -> "c2" [] OTHER -> "c1"]
MCNodes == [d \in Pages |-> CASE d = "p" -> {"n"} [] d = "u" -> {"m"} [] OTHER -> {}]
MCSoftware == [d \in Pages |-> CASE d = "p" -> "new" [] d = "q" -> "newer" [] OTHER -> Nothing]
MCShipper == [p \in Loads |-> "a"]
MCMode == [c \in Lanes |-> "adaptive"]

VARIABLE part

vars == <<part, continuityVars, deviceVars, carrierVars, routeVars>>

CarriersAtRest ==
    /\ week = [n \in Parties |-> 0]
    /\ box = {} /\ taken = Loads /\ tried = {}
    /\ status = [p \in Loads |-> "acked"]
    /\ pass = [n \in Parties |-> NoPass]
    /\ mishaps = 0

Supervised == part \in {"supervisor", "gate"}

Init ==
    /\ part \in {"supervisor", "gate", "devices", "carriers", "routing"}
    /\ SupInit /\ GateInit /\ DeviceInit /\ RouteInit
    /\ page # "q"
    /\ part = "gate" => page = "u"
    /\ ~Supervised => page = "b"
    /\ part # "gate" => material = "m1"
    /\ IF part = "carriers" THEN CarrierInit ELSE CarriersAtRest
    /\ part # "routing" => works = {}

\* Bounds.  The second update is put up when the first was recorded without
\* any death or trouble, which may come from then on.  A page is put up while
\* a process is about to read one (nothing else looks at it), and none after
\* the second mishap.  When two are at work, one of them without the lock, a
\* single mishap and at most two lives of the supervisor have brought them
\* there, and only "p" is put up, before the first record.  The operator has
\* pinned nothing when a mishap comes (a rollback without one loses a pin too).
Supervision ==
    /\ SupNext /\ UNCHANGED gateVars
    /\ page' # page =>
          /\ \E p \in SupProcs : step[p] = "sync"
          /\ page' = "q" => recorded.page = "p" /\ deaths + troubles = 0
          /\ deaths + troubles < 2
          /\ mixed => recorded.page = Nothing /\ page' = "p"
    /\ mixed' => deaths' + troubles' = 1 /\ health'.inst <= 2
    /\ deaths' + troubles' > 0 => peers' \cap Pinned = {}
Gating == ContinuityNext /\ page' = page /\ peers' \subseteq {"m"} /\ troubles' = 0

Next ==
    /\ \/ /\ part = "supervisor" /\ Supervision
          /\ UNCHANGED <<deviceVars, carrierVars, routeVars>>
       \/ /\ part = "gate" /\ Gating
          /\ UNCHANGED <<deviceVars, carrierVars, routeVars>>
       \/ /\ part = "devices" /\ DeviceNext
          /\ UNCHANGED <<continuityVars, carrierVars, routeVars>>
       \/ /\ part = "carriers" /\ CarrierNext
          /\ UNCHANGED <<continuityVars, deviceVars, routeVars>>
       \/ /\ part = "routing" /\ RouteNext
          /\ UNCHANGED <<continuityVars, deviceVars, carrierVars>>
    /\ UNCHANGED part

Fairness ==
    /\ SF_supVars(Supervised /\ Acquire("sup"))
    /\ WF_supVars(Supervised /\ SupStep)
    /\ \A p \in SupProcs \ {"sup"} : WF_supVars(Supervised /\ SyncStep(p))
    /\ DeviceFairness
    /\ \A n \in Parties : WF_carrierVars(part = "carriers" /\ Pass(n))
    /\ \A p \in Loads : WF_carrierVars(part = "carriers" /\ RetryDue(p))
    /\ WF_routeVars(part = "routing" /\ RoundNext)
    /\ WF_routeVars(part = "routing" /\ ProbeEnds)
    /\ WF_routeVars(part = "routing" /\ CooldownEnds)

Spec == Init /\ [][Next]_vars /\ Fairness
=============================================================================
