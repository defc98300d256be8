------------------------------ MODULE Routing -------------------------------
(***************************************************************************)
(* The background loop of one node towards one peer: dial it directly or   *)
(* probe it in the background, let the router choose a path from the path  *)
(* metrics (routing.py), then run the carriers that are due (scheduling.py *)
(* and adaptive_sync_once of node.py).  Which paths work changes a finite  *)
(* number of times.                                                        *)
(***************************************************************************)
EXTENDS Naturals, FiniteSets

CONSTANTS Lanes,            \* enabled carriers of the peer
          Mode,             \* carrier -> "adaptive", "always" or "receive-only"
          HasDirect,        \* direct is enabled and the peer has an address
          Jobs, Urgent,     \* packets; those of QoS control and interactive
          DirectFailures, DirectRecovery, LaneFailures, LaneRecovery,
          Replicas,         \* carrier_replica_count
          MaxBackoff,       \* max_backoff, in rounds of the loop
          MaxUpsets         \* bound: paths that break or come back, restarts

Paths == Lanes \cup {"direct"}
Timers == Paths \cup {"probe"}
Usable == {c \in Lanes : Mode[c] # "receive-only"}

VARIABLES works,     \* which paths work now
          upsets,
          metric,    \* per path: consecutive failures and successes
          route,     \* route_state.selected_path; "" when there is no row
          cooled,    \* switch_cooldown has passed since the last switch
          waiting,   \* packets pending for the peer
          unsent,    \* packets not queued yet
          noticed,   \* per path: the pending packets of its last round
          timer,     \* per path: idle rounds and rounds until it is due
          probe,     \* the background probe
          loop       \* where the loop is: step, carriers left, push sets

routeVars == <<works, upsets, metric, route, cooled, waiting, unsent, noticed, timer,
               probe, loop>>

Fresh0 == [idle |-> 0, wait |-> 0]
AtStart == [at |-> "start", left |-> {}, push |-> [c \in Lanes |-> {}]]

RouteInit ==
    /\ works \in SUBSET Paths /\ upsets = 0
    /\ metric = [p \in Paths |-> [bad |-> 0, good |-> 0]]
    /\ route = "" /\ cooled = TRUE
    /\ waiting = {} /\ unsent = Jobs
    /\ noticed = [p \in Paths |-> {}]
    /\ timer = [p \in Timers |-> Fresh0]
    /\ probe = "none" /\ loop = AtStart

-----------------------------------------------------------------------------
(* Metrics and schedules.                                                  *)

Least(a, b) == IF a < b THEN a ELSE b

KeepsFailures(m, ok) ==                                       \* mutant
    IF ok THEN [bad |-> m.bad, good |-> Least(m.good + 1, DirectRecovery + LaneRecovery)]
    ELSE [bad |-> Least(m.bad + 1, DirectFailures + LaneFailures), good |-> 0]

\* record_path_result; the counts saturate above every threshold.
PathResult(m, ok) ==
    IF ok THEN [bad |-> 0, good |-> Least(m.good + 1, DirectRecovery + LaneRecovery)]
    ELSE [bad |-> Least(m.bad + 1, DirectFailures + LaneFailures), good |-> 0]

\* AdaptiveSchedule.record: idle rounds double the delay, up to a limit.
Backoff(t, active) ==
    LET idle == IF active THEN 0 ELSE Least(t.idle + 1, MaxBackoff) IN
    [idle |-> idle, wait |-> IF idle <= 1 THEN 1 ELSE Least(2 ^ (idle - 1), MaxBackoff)]

\* AdaptiveSchedule.due.
DueNow(p, new) == new \/ timer[p].wait = 0

-----------------------------------------------------------------------------
(* AdaptiveRouter.decide.                                                  *)

LaneHealthy == {c \in Usable : metric[c].bad < LaneFailures}

\* The scores mix priority, failures and measured latency, so any candidate
\* may come first.
Best == IF LaneHealthy # {} THEN LaneHealthy ELSE Usable

\* What becomes of a fallback that is selected and still configured.
FromFallback(best) ==
    LET others == LaneHealthy \ {route} IN
    IF metric[route].bad >= LaneFailures /\ others # {} THEN others
    ELSE IF HasDirect /\ metric["direct"].good >= DirectRecovery /\ cooled THEN {"direct"}
    ELSE IF best # route /\ cooled /\ metric[best].good >= LaneRecovery THEN {best}
    ELSE {route}

Selected(best) ==
    IF route \in Usable THEN FromFallback(best)
    ELSE IF ~HasDirect \/ metric["direct"].bad >= DirectFailures THEN {best}
    ELSE {"direct"}

\* The path chosen when no carrier can be pushed to.
NoFallback == IF HasDirect THEN "direct" ELSE "none"

\* The push sets: always-on carriers, the selected one and its replicas, and
\* the urgent classes as soon as one direct attempt failed.
PushSets(sel) ==
    LET pool == Best
        always == {c \in Usable : Mode[c] = "always"}
        copies == IF sel \in Usable
                  THEN {r \cup {sel} : r \in {r \in SUBSET (pool \ {sel}) :
                                    Cardinality(r) = Least(Replicas - 1, Cardinality(pool \ {sel}))}}
                  ELSE IF sel = "direct" /\ metric["direct"].bad >= 1
                  THEN {r \in SUBSET pool : Cardinality(r) = Least(Replicas, Cardinality(pool))}
                  ELSE {{}} IN
    {[c \in Lanes |-> IF c \in always \/ (c \in r /\ sel \in Usable) THEN Jobs
                      ELSE IF c \in r THEN Urgent ELSE {}] : r \in copies}

-----------------------------------------------------------------------------
(* adaptive_sync_once and _sync_loop.                                      *)

Stay == UNCHANGED <<works, upsets, unsent>>

\* The loop dials in the foreground unless a fallback is selected.
BeginRound ==
    LET new == waiting \ noticed["direct"] # {}
        dials == HasDirect /\ route \notin Lanes IN
    /\ loop.at = "start"
    /\ noticed' = IF dials THEN [noticed EXCEPT !["direct"] = waiting] ELSE noticed
    /\ timer' = IF dials /\ new THEN [timer EXCEPT !["direct"].idle = 0] ELSE timer
    /\ loop' = [loop EXCEPT !.at = IF dials /\ DueNow("direct", new) THEN "dial"
                                   ELSE IF HasDirect /\ ~dials THEN "probe" ELSE "decide"]
    /\ UNCHANGED <<metric, route, cooled, waiting, probe>> /\ Stay

\* _sync_peer: a probe that is still under way holds the lock of the peer.
Dial ==
    LET ok == "direct" \in works /\ probe # "running" IN
    /\ loop.at = "dial"
    /\ metric' = IF probe = "running" THEN metric
                 ELSE [metric EXCEPT !["direct"] = PathResult(@, ok)]
    /\ timer' = [timer EXCEPT !["direct"] = Backoff(@, ok /\ waiting # {})]
    /\ waiting' = IF ok THEN {} ELSE waiting
    /\ loop' = [loop EXCEPT !.at = "decide"]
    /\ UNCHANGED <<route, cooled, noticed, probe>> /\ Stay

\* _schedule_fallback_probes.
StartProbe ==
    LET t == IF probe \in {"ok", "failed"} THEN Backoff(timer["probe"], probe = "ok")
             ELSE timer["probe"] IN
    /\ loop.at = "probe"
    /\ timer' = [timer EXCEPT !["probe"] = IF probe = "running" THEN @ ELSE t]
    /\ probe' = IF probe # "running" /\ t.wait = 0 THEN "running"
                ELSE IF probe = "running" THEN probe ELSE "none"
    /\ loop' = [loop EXCEPT !.at = "decide"]
    /\ UNCHANGED <<metric, route, cooled, waiting, noticed>> /\ Stay

\* _background_fallback_probe ends at any time.
ProbeEnds ==
    LET ok == "direct" \in works IN
    /\ probe = "running"
    /\ probe' = IF ok THEN "ok" ELSE "failed"
    /\ metric' = [metric EXCEPT !["direct"] = PathResult(@, ok)]
    /\ waiting' = IF ok THEN {} ELSE waiting
    /\ UNCHANGED <<route, cooled, noticed, timer, loop>> /\ Stay

\* decide and set_route.
DecideRoute ==
    /\ loop.at = "decide"
    /\ \E sel \in IF Usable = {} THEN {NoFallback} ELSE UNION {Selected(b) : b \in Best} :
          /\ route' = sel
          /\ cooled' = (cooled /\ sel = route)
          /\ \E push \in PushSets(sel) : loop' = [at |-> "lanes", left |-> Lanes, push |-> push]
    /\ UNCHANGED <<metric, waiting, noticed, timer, probe>> /\ Stay

\* One carrier of the round: it pulls, and pushes its classes.
RunLane(c) ==
    LET mine == waiting \cap loop.push[c]
        new == mine \ noticed[c] # {}
        ok == c \in works IN
    /\ loop.at = "lanes" /\ c \in loop.left
    /\ noticed' = [noticed EXCEPT ![c] = mine]
    /\ loop' = [loop EXCEPT !.left = @ \ {c}]
    /\ IF DueNow(c, new)
       THEN /\ metric' = [metric EXCEPT ![c] = PathResult(@, ok)]
            /\ waiting' = IF ok THEN waiting \ mine ELSE waiting
            /\ timer' = [timer EXCEPT ![c] = Backoff(IF new THEN Fresh0 ELSE @, ok /\ mine # {})]
       ELSE UNCHANGED <<metric, waiting, timer>>
    /\ UNCHANGED <<route, cooled, probe>> /\ Stay

\* The loop sleeps; delays run down.
Rest ==
    /\ loop.at = "lanes" /\ loop.left = {}
    /\ loop' = AtStart
    /\ timer' = [p \in Timers |-> [timer[p] EXCEPT !.wait = IF @ = 0 THEN 0 ELSE @ - 1]]
    /\ UNCHANGED <<metric, route, cooled, waiting, noticed, probe>> /\ Stay

CooldownEnds ==
    /\ ~cooled /\ cooled' = TRUE
    /\ UNCHANGED <<metric, route, waiting, noticed, timer, probe, loop>> /\ Stay

\* queue: a packet for the peer.
Enqueue(j) ==
    /\ j \in unsent /\ unsent' = unsent \ {j} /\ waiting' = waiting \cup {j}
    /\ UNCHANGED <<works, upsets, metric, route, cooled, noticed, timer, probe, loop>>

Flip(p) ==
    /\ upsets < MaxUpsets /\ upsets' = upsets + 1
    /\ works' = IF p \in works THEN works \ {p} ELSE works \cup {p}
    /\ UNCHANGED <<metric, route, cooled, waiting, unsent, noticed, timer, probe, loop>>

\* Schedules are in memory, metrics and the route in the store.
Reboot ==
    /\ upsets < MaxUpsets /\ upsets' = upsets + 1
    /\ noticed' = [p \in Paths |-> {}] /\ timer' = [p \in Timers |-> Fresh0]
    /\ probe' = "none" /\ loop' = AtStart
    /\ UNCHANGED <<works, metric, route, cooled, waiting, unsent>>

RoundNext == BeginRound \/ Dial \/ StartProbe \/ DecideRoute \/ Rest \/ \E c \in Lanes : RunLane(c)

RouteNext ==
    \/ RoundNext \/ ProbeEnds \/ CooldownEnds \/ Reboot
    \/ \E j \in Jobs : Enqueue(j)
    \/ \E p \in Paths : Flip(p)

\* The loop and its tasks run on, and time passes.
RouteFairness == WF_routeVars(RoundNext) /\ WF_routeVars(ProbeEnds) /\ WF_routeVars(CooldownEnds)

RouteSpec == RouteInit /\ [][RouteNext]_routeVars /\ RouteFairness

(***************************************************************************)
(* A packet does not wait for ever behind a path that is dead: if from     *)
(* some time on one path that may be pushed to works, every packet queued  *)
(* for the peer leaves, whatever broke before, in which order failures and *)
(* recoveries were counted, and across restarts.                           *)
(***************************************************************************)
EventuallyRouted ==
    <>[](\E p \in works : p \in Usable \/ (p = "direct" /\ HasDirect))
        => \A j \in Jobs : (j \in waiting) ~> (j \notin waiting)
=============================================================================
