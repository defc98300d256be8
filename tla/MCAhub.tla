-------------------------------- MODULE MCAhub ------------------------------
(***************************************************************************)
(* One Ahub: its mailbox, its relay, its authentication of requests and    *)
(* its rate limit.  The four share a process and a database file but no    *)
(* variable, so that their interleavings add nothing: a behaviour moves    *)
(* one part and leaves the others in their initial state, in which no fair *)
(* action of them is enabled.                                              *)
(*                                                                         *)
(* Mailbox: u1 and u2 both hold p1, u1 holds p2, which the destination d   *)
(* rejects.  Relay: one pair whose two ends reconnect.  Requests: of two   *)
(* senders; the retention is just as long as the window.  Rate limit: two  *)
(* callers and one bucket.                                                 *)
(***************************************************************************)
EXTENDS AhubMailbox, AhubRelay, AhubRequests, AhubFront

CONSTANTS p1, p2, u1, u2, d
MCDest == [p \in Packets |-> d]
MCHolders == [p \in Packets |-> IF p = p1 THEN {u1, u2} ELSE {u1}]
MCPairs == {<<"a", "b">>}
MCFrom == [r \in Requests |-> IF r = "r3" THEN "m" ELSE "n"]

VARIABLE part

vars == <<part, mailboxVars, relayVars, requestVars, frontVars>>

Init ==
    /\ part \in {"mailbox", "relay", "requests", "front"}
    /\ MailboxInit /\ RelayInit /\ RequestsInit /\ FrontInit

Next ==
    /\ \/ part = "mailbox" /\ MailboxNext /\ UNCHANGED <<relayVars, requestVars, frontVars>>
       \/ part = "relay" /\ RelayNext /\ UNCHANGED <<mailboxVars, requestVars, frontVars>>
       \/ part = "requests" /\ RequestsNext /\ UNCHANGED <<mailboxVars, relayVars, frontVars>>
       \/ part = "front" /\ FrontNext /\ UNCHANGED <<mailboxVars, relayVars, requestVars>>
    /\ UNCHANGED part

Spec ==
    /\ Init /\ [][Next]_vars
    /\ MailboxFairness /\ RelayFairness
=============================================================================
