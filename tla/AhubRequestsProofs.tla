-------------------------- MODULE AhubRequestsProofs ------------------------
(***************************************************************************)
(* Replay protection of the Ahub, for every window, every retention that   *)
(* is at least as long as the window, and every set of requests.           *)
(***************************************************************************)
EXTENDS AhubRequests, TLAPS

\* The inductive invariant holds initially.
LEMMA InitRequestsInv == RequestsInit => RequestsInv
BY DEF RequestsInit, RequestsInv, RequestsTypeOK, AtMostOnce, RememberedOrStale, EffectsAreSigned

\* Purging keeps what can still be replayed: a request within the window whose
\* operation took effect is among the nonces that _purge keeps.
LEMMA KeptGuardsWindow ==
    ASSUME RequestsInv, NEW r \in Requests, InWindow(r), effects[r] > 0
    PROVE  r \in Kept
BY RequestsAssumption DEF RequestsInv, RequestsTypeOK, RememberedOrStale, InWindow, Kept

\* Every step keeps the inductive invariant.
LEMMA NextRequestsInv == RequestsInv /\ [RequestsNext]_requestVars => RequestsInv'
<1> SUFFICES ASSUME RequestsInv, [RequestsNext]_requestVars
             PROVE  RequestsInv'
    OBVIOUS
<1> USE RequestsAssumption DEF RequestsInv, RequestsTypeOK
<1>1. CASE Tick
    BY <1>1 DEF Tick, AtMostOnce, RememberedOrStale, EffectsAreSigned
<1>2. ASSUME NEW r \in Requests, NEW t \in 0..Horizon, Sign(r, t)
      PROVE  RequestsInv'
    <2>1. RequestsTypeOK' /\ AtMostOnce'
        BY <1>2 DEF Sign, AtMostOnce
    <2>2. effects[r] = 0
        BY <1>2 DEF Sign, EffectsAreSigned
    <2> QED BY <1>2, <2>1, <2>2 DEF Sign, RememberedOrStale, EffectsAreSigned
<1>3. CASE Purge
    BY <1>3 DEF Purge, Kept, AtMostOnce, RememberedOrStale, EffectsAreSigned
<1>4. ASSUME NEW r \in Requests, Serve(r)
      PROVE  RequestsInv'
    <2>1. effects[r] = 0
        BY <1>4, KeptGuardsWindow DEF Serve
    <2>2. RequestsTypeOK' /\ AtMostOnce'
        BY <1>4, <2>1 DEF Serve, Kept, AtMostOnce
    <2>3. RememberedOrStale' /\ EffectsAreSigned'
        BY <1>4 DEF Serve, Kept, RememberedOrStale, EffectsAreSigned
    <2> QED BY <2>2, <2>3
<1>5. ASSUME NEW n \in Senders, Allow(n) \/ Disallow(n)
      PROVE  RequestsInv'
    BY <1>5 DEF Allow, Disallow, AtMostOnce, RememberedOrStale, EffectsAreSigned
<1>6. CASE UNCHANGED requestVars
    BY <1>6 DEF requestVars, AtMostOnce, RememberedOrStale, EffectsAreSigned
<1> QED BY <1>1, <1>2, <1>3, <1>4, <1>5, <1>6 DEF RequestsNext

\* The operation of a request takes effect at most once.
THEOREM RequestsAtMostOnce == RequestsSpec => []AtMostOnce
<1>1. RequestsInv => AtMostOnce
    BY DEF RequestsInv
<1> QED BY <1>1, InitRequestsInv, NextRequestsInv, PTL DEF RequestsSpec
=============================================================================
