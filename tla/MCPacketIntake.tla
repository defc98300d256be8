--------------------------- MODULE MCPacketIntake ---------------------------
(***************************************************************************)
(* Small instances of PacketIntake: "a" and "b" are sealed to the same     *)
(* one-time prekey by the peer it was issued to, "c" names the same prekey *)
(* but comes from another peer, "d" is a static packet that does not       *)
(* decode.                                                                 *)
(***************************************************************************)
EXTENDS PacketIntake, TLC

MCSender == [p \in Packets |-> IF p = "c" THEN "s2" ELSE "s1"]
MCKeyOf == [p \in Packets |-> IF p \in {"d", "e"} THEN NoKey ELSE "k"]
MCKind == [p \in Packets |-> CASE p = "a" -> "message"
                               [] p = "b" -> "bundle"
                               [] p = "e" -> "request"
                               [] OTHER -> "receipt"]
MCUndecodable == Packets \cap {"d"}
MCPrekeyPeer == [k \in Prekeys |-> "s1"]

WorkerSymmetry == Permutations(Workers)
=============================================================================
