------------------------------ MODULE AhubFront -----------------------------
(***************************************************************************)
(* The HTTP front of an Ahub worker (ahub_http.py, class AhubASGI): the    *)
(* token buckets of its rate limiter, and the way from a request to the    *)
(* service behind it and back to a status.                                 *)
(*                                                                         *)
(* Tokens are counted in units: a request costs Cost units and Rate units  *)
(* flow back in one second, so that fractions of a token stay integers.    *)
(* What the service does with a request it accepts is in AhubMailbox,      *)
(* AhubRelay, AhubRequests and Publication; here it is one of its answers. *)
(***************************************************************************)
EXTENDS Naturals, FiniteSets, FiniteSetsExt

CONSTANTS
    Callers,        \* peer addresses
    Cost,           \* units of one request
    Rate,           \* units that flow back in a second
    Burst,          \* requests a full bucket allows
    MinStale,       \* seconds a bucket is kept at least (60)
    MaxBuckets,     \* max_buckets
    MaxSecond, MaxCalls   \* bounds of the environment

ASSUME FrontAssumption ==
    /\ {Cost, Rate, Burst, MaxBuckets} \subseteq Nat \ {0}
    /\ MinStale \in Nat

VARIABLES
    second,     \* the monotonic clock
    buckets,    \* the bucket of a caller, with its place in the dictionary
    granted,    \* history: requests of a caller that passed the limiter
    evicted,    \* history: times a caller's bucket made room for another
    promised,   \* history: the second from which a refused caller may come
                \* again, as Retry-After told it; 0 when it was not refused
    reply       \* status of the last answer, 0 before the first

frontVars == <<second, buckets, granted, evicted, promised, reply>>

\* No bucket has place 0; the least recently used bucket has place 1.
NoBucket == [tokens |-> 0, updated |-> 0, place |-> 0]

FrontInit ==
    /\ second = 0
    /\ buckets = [c \in Callers |-> NoBucket]
    /\ granted = [c \in Callers |-> 0]
    /\ evicted = [c \in Callers |-> 0]
    /\ promised = [c \in Callers |-> 0]
    /\ reply = 0

-----------------------------------------------------------------------------
(* The rate limiter                                                        *)

\* Mutant: a bucket is forgotten before it would have filled up again.
StaleSoon(b) == (second - b.updated) * Rate > Burst

\* Unused for a minute, and for twice the time it takes to fill it.
StaleBucket(b) ==
    (second - b.updated) * Rate > Max({MinStale * Rate, 2 * Burst * Cost})

Held == {c \in Callers : buckets[c].place > 0}

\* The stale buckets at the old end go.
Pruned ==
    {c \in Held : \A d \in Held : buckets[d].place <= buckets[c].place => StaleBucket(buckets[d])}

Live == Held \ Pruned

\* A new bucket is full, an old one has filled up since it was last used.
Tokens(c) ==
    IF c \notin Live THEN Burst * Cost
    ELSE Min({Burst * Cost, buckets[c].tokens + (second - buckets[c].updated) * Rate})

\* The oldest buckets make room for a new one when the table is full.
Displaced(c) ==
    IF c \in Live THEN {}
    ELSE {d \in Live : Cardinality({e \in Live : buckets[e].place > buckets[d].place}) >= MaxBuckets - 1}

Others(c) == Live \ (Displaced(c) \cup {c})

\* The bucket of the caller becomes the most recently used one.
Touched(c, tokens) ==
    [d \in Callers |->
        IF d = c THEN [tokens |-> tokens, updated |-> second, place |-> Cardinality(Others(c)) + 1]
        ELSE IF d \in Others(c)
        THEN [buckets[d] EXCEPT !.place = 1 + Cardinality({e \in Others(c) : buckets[e].place < @})]
        ELSE NoBucket]

\* Whole seconds until a token has flowed back.
RetryAfter(tokens) == Max({1, (Cost - tokens + Rate - 1) \div Rate})

Evictions(c) ==
    [d \in Callers |-> IF d \in Displaced(c) THEN evicted[d] + 1 ELSE evicted[d]]

-----------------------------------------------------------------------------
(* From a request to a status                                              *)

OpenRoutes == {"health", "descriptor", "reachability"}
SignedRoutes == {"node_lookup", "relay_reservation", "relay_discovery", "relay_stream",
                 "mailbox_submit", "mailbox_claim", "mailbox_settlements",
                 "mailbox_settlement_ack", "mailbox_settle"}
Routes == OpenRoutes \cup SignedRoutes \cup {"unknown"}

\* Routes whose body is a JSON object or must be empty; the node lookup and
\* the mailbox upload hand the body on.
CheckedBody == Routes \ {"node_lookup", "mailbox_submit", "unknown"}

\* What the service behind the front may answer: done, or one of the
\* exceptions the front turns into a status.
ServiceAnswers == {"done", "permission", "lookup", "overflow", "value", "bug"}
StatusOf(answer) ==
    CASE answer = "done"       -> 200
      [] answer = "permission" -> 403
      [] answer = "lookup"     -> 404
      [] answer = "overflow"   -> 429
      [] answer = "value"      -> 400
      [] OTHER                 -> 500

\* The request is read, then routed, its body is checked, its signature is
\* parsed; only then does the service see it.
Dispatch(route, body, headers, answer) ==
    IF body \in {"large", "disconnected"} THEN 400
    ELSE IF route = "unknown" THEN 404
    ELSE IF body = "malformed" /\ route \in CheckedBody THEN 400
    ELSE IF headers = "malformed" /\ route \in SignedRoutes THEN 400
    ELSE StatusOf(answer)

\* The relay stream is a WebSocket: the same causes, as codes of its close
\* frame, and a session (in AhubRelay) when there is none.
HandleWebsocket(headers, answer) ==
    IF headers = "malformed" THEN 4400
    ELSE CASE answer = "done"                -> 101
           [] answer = "permission"          -> 4403
           [] answer = "lookup"              -> 4404
           [] answer \in {"overflow", "value"} -> 4400
           [] OTHER                          -> 1011

Answer(route, body, headers, answer) ==
    IF route = "relay_stream" THEN HandleWebsocket(headers, answer)
    ELSE Dispatch(route, body, headers, answer)

Replies ==
    {Answer(route, body, headers, answer) :
        route \in Routes, body \in {"fine", "malformed", "large", "disconnected"},
        headers \in {"fine", "malformed"}, answer \in ServiceAnswers}

\* One call of the front: a refused caller is told when to come back.
HandleCall(c) ==
    /\ granted[c] < MaxCalls
    /\ evicted' = Evictions(c)
    /\ \/ /\ Tokens(c) >= Cost
          /\ buckets' = Touched(c, Tokens(c) - Cost)
          /\ granted' = [granted EXCEPT ![c] = @ + 1]
          /\ promised' = [promised EXCEPT ![c] = 0]
          /\ reply' \in Replies
       \/ /\ Tokens(c) < Cost
          /\ buckets' = Touched(c, Tokens(c))
          /\ promised' = [promised EXCEPT ![c] = second + RetryAfter(Tokens(c))]
          /\ reply' = 429
          /\ UNCHANGED granted
    /\ UNCHANGED second

FrontTick ==
    /\ second < MaxSecond
    /\ second' = second + 1
    /\ UNCHANGED <<buckets, granted, evicted, promised, reply>>

\* The process is replaced: the buckets are in its memory.
FrontRestart ==
    /\ Held # {}
    /\ evicted' = [c \in Callers |-> IF c \in Held THEN evicted[c] + 1 ELSE evicted[c]]
    /\ \A c \in Callers : evicted[c] < 1
    /\ buckets' = [c \in Callers |-> NoBucket]
    /\ promised' = [c \in Callers |-> 0]
    /\ UNCHANGED <<second, granted, reply>>

FrontNext == FrontTick \/ FrontRestart \/ \E c \in Callers : HandleCall(c)

FrontSpec == FrontInit /\ [][FrontNext]_frontVars

-----------------------------------------------------------------------------
(* Properties                                                              *)

\* However a caller spreads its calls, the limiter lets through no more
\* than a full bucket and what flowed back, plus a full bucket for every
\* time its own was displaced: pruning buckets that are only unused gives
\* nothing away (allow, _prune).
RateRespected ==
    \A c \in Callers : granted[c] * Cost <= Burst * Cost * (1 + evicted[c]) + Rate * second

\* A caller that waits as long as Retry-After says is let through (allow).
RetryAfterKept ==
    \A c \in Callers : promised[c] > 0 /\ second >= promised[c] => Tokens(c) >= Cost

\* The limiter keeps its two promises: to the Ahub, and to the caller it
\* turned away.
LimiterSound == RateRespected /\ RetryAfterKept
=============================================================================
