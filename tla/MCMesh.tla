------------------------------- MODULE MCMesh -------------------------------
(***************************************************************************)
(* What nodes send each other through losses and repetitions; a behaviour  *)
(* is of one of two parts.                                                 *)
(*                                                                         *)
(* "mesh": one packet, in a ring of three nodes, one of them a neighbour   *)
(* of the destination.                                                     *)
(*                                                                         *)
(* "disclosures": the pages of one schedule of one event a page, which the *)
(* node and a command run; the second event is out of its scope.           *)
(***************************************************************************)
EXTENDS Mesh, Disclosures

Ring == {{"s", "a"}, {"s", "b"}, {"a", "b"}, {"a", "d"}}

VARIABLE part

Start == part \in {"mesh", "disclosures"} /\ Init /\ DisclosureInit

Step ==
    /\ \/ part = "mesh" /\ Next /\ UNCHANGED disclosureVars
       \/ part = "disclosures" /\ DisclosureNext /\ UNCHANGED vars
    /\ UNCHANGED part

PartSpec == Start /\ [][Step]_<<part, vars, disclosureVars>>
=============================================================================
