---------------------------- MODULE AhubRequests ----------------------------
(***************************************************************************)
(* Authentication of requests by an Ahub (ahub.py AhubRequest.verify,      *)
(* AhubStore._consume_request and _purge).  A signed request carries its   *)
(* time of issue, by the clock of its sender, and a nonce.  The network    *)
(* may deliver it again at any time.  The Ahub accepts it within a window  *)
(* around its own clock and remembers the nonce, for a while.              *)
(*                                                                         *)
(* A request stands for its nonce.  The clock of the Ahub does not run     *)
(* backwards.                                                              *)
(***************************************************************************)
EXTENDS Integers

CONSTANTS
    Requests,   \* signed requests of all senders
    Senders,    \* node ids
    From,       \* Requests -> Senders
    Skew,       \* AHUB_REQUEST_SKEW_MS
    Retention,  \* AHUB_NONCE_RETENTION_MS
    Horizon     \* bound on clocks

ASSUME RequestsAssumption ==
    /\ From \in [Requests -> Senders]
    /\ Skew \in Nat /\ Retention \in Nat /\ Horizon \in Nat
    /\ Skew <= Retention

VARIABLES
    now,        \* the Ahub's clock
    issued,     \* issued_ms of a request, -1 before it is signed
    nonces,     \* ahub_nonces
    allowed,    \* ahub_allowlist
    effects     \* how often the operation of a request was committed

requestVars == <<now, issued, nonces, allowed, effects>>

\* The variables stay within the values the code can store.
RequestsTypeOK ==
    /\ now \in Nat
    /\ issued \in [Requests -> Int]
    /\ nonces \subseteq Requests
    /\ allowed \subseteq Senders
    /\ effects \in [Requests -> Nat]

RequestsInit ==
    /\ now = 0
    /\ issued = [r \in Requests |-> -1]
    /\ nonces = {}
    /\ allowed = Senders
    /\ effects = [r \in Requests |-> 0]

Tick ==
    /\ now < Horizon
    /\ now' = now + 1
    /\ UNCHANGED <<issued, nonces, allowed, effects>>

\* A sender signs a request; its clock may be off by any amount.
Sign(r, t) ==
    /\ issued[r] = -1
    /\ issued' = [issued EXCEPT ![r] = t]
    /\ UNCHANGED <<now, nonces, allowed, effects>>

\* AhubRequest.verify: the clock window.
InWindow(r) == now - issued[r] <= Skew /\ issued[r] - now <= Skew

\* _purge: a nonce is dropped by its request's time of issue.
KeptShort == {r \in nonces : issued[r] >= now}               \* mutant
Kept == {r \in nonces : issued[r] >= now - Retention}

\* _purge alone, as part of a call that needs no request.
Purge ==
    /\ nonces' = Kept
    /\ nonces' # nonces
    /\ UNCHANGED <<now, issued, allowed, effects>>

\* One transaction: purge, verify, insert the nonce, the operation.  When the
\* operation or a check raises, all of it is rolled back, the nonce included:
\* the state is unchanged and the request may be sent again.
Serve(r) ==
    /\ issued[r] # -1
    /\ InWindow(r)
    /\ From[r] \in allowed
    /\ r \notin Kept
    /\ nonces' = Kept \cup {r}
    /\ effects' = [effects EXCEPT ![r] = @ + 1]
    /\ UNCHANGED <<now, issued, allowed>>

Allow(n) ==
    /\ n \notin allowed
    /\ allowed' = allowed \cup {n}
    /\ UNCHANGED <<now, issued, nonces, effects>>

Disallow(n) ==
    /\ n \in allowed
    /\ allowed' = allowed \ {n}
    /\ UNCHANGED <<now, issued, nonces, effects>>

RequestsNext ==
    \/ Tick
    \/ \E r \in Requests : \E t \in 0..Horizon : Sign(r, t)
    \/ Purge
    \/ \E r \in Requests : Serve(r)
    \/ \E n \in Senders : Allow(n) \/ Disallow(n)

RequestsSpec == RequestsInit /\ [][RequestsNext]_requestVars

-----------------------------------------------------------------------------
(* Properties.                                                             *)

\* However often a request is delivered, and whenever, before or after its
\* nonce was purged, its operation takes effect at most once.
AtMostOnce == \A r \in Requests : effects[r] <= 1

\* What keeps it so: a request that took effect is remembered, or too old for
\* the window from now on.
RememberedOrStale ==
    \A r \in Requests :
        effects[r] > 0 => r \in nonces \/ issued[r] < now - Retention

\* Only signed requests took effect.
EffectsAreSigned == \A r \in Requests : effects[r] > 0 => issued[r] # -1

RequestsInv == RequestsTypeOK /\ AtMostOnce /\ RememberedOrStale /\ EffectsAreSigned
=============================================================================
