----------------------------- MODULE MCDelivery -----------------------------
(***************************************************************************)
(* The parts of a node that have to get something out in the end, and that *)
(* share no variable: the mesh (a packet reaches its destination), the     *)
(* publication at an Ahub and the outbox of the A2A gateway.  A behaviour  *)
(* moves one part and leaves the others where no fair action of them is    *)
(* enabled: the packet of an idle mesh has expired, an idle node is not    *)
(* started, an idle outbox is empty.                                       *)
(***************************************************************************)
EXTENDS Mesh, Publication, A2AGateway

Line == {{"s", "a"}, {"a", "d"}}

VARIABLE part

deliveryVars == <<part, vars, pubVars, gatewayVars>>

DeliveryInit ==
    /\ part \in {"mesh", "publication", "gateway"}
    /\ Queued /\ expired = (part # "mesh")
    /\ PubInit
    /\ GatewayInit

DeliveryNext ==
    /\ \/ part = "mesh" /\ Next /\ UNCHANGED <<pubVars, gatewayVars>>
       \/ part = "publication" /\ PubNext /\ UNCHANGED <<vars, gatewayVars>>
       \/ part = "gateway" /\ GatewayNext /\ UNCHANGED <<vars, pubVars>>
    /\ UNCHANGED part

DeliverySpec ==
    /\ DeliveryInit /\ [][DeliveryNext]_deliveryVars
    /\ Fairness /\ PubFairness /\ GatewayFairness
=============================================================================
