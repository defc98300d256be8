---------------------------- MODULE PacketCustody ---------------------------
(***************************************************************************)
(* What packet intake promises, without workers, tables or retries: a      *)
(* packet is accepted at most once, and only together with the one-time    *)
(* prekey it names, which nobody can use afterwards.                       *)
(***************************************************************************)
CONSTANTS Packets, Prekeys, NoKey, KeyOf

VARIABLES
    accepted,   \* packets delivered to the inbox
    spent       \* one-time prekeys whose private key is gone

custodyVars == <<accepted, spent>>

CInit == accepted = {} /\ spent = {}

Accept(p) ==
    /\ p \notin accepted
    /\ KeyOf[p] \notin spent
    /\ accepted' = accepted \cup {p}
    /\ spent' = spent \cup ({KeyOf[p]} \ {NoKey})

\* Prekeys are retired by expiry or by the revocation of their peer.
Retire(K) == spent' = spent \cup K /\ UNCHANGED accepted

CNext ==
    \/ \E p \in Packets : Accept(p)
    \/ \E K \in SUBSET Prekeys : Retire(K)

CSpec == CInit /\ [][CNext]_custodyVars
=============================================================================
