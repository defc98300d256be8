---------------------------- MODULE MCAgentTasks ----------------------------
(***************************************************************************)
(* A consumer group used in two ways; a behaviour is of one of them.       *)
(*                                                                         *)
(* "tasks": one task; "r1" and "r2" are copies of its request, "c1"        *)
(* cancels it; all three are there at the start, and a command that        *)
(* revokes their sender may go on to its clean-up at any time.             *)
(*                                                                         *)
(* "group": the same three are plain messages that arrive while the group  *)
(* is opened and used, one handler at a time and "r1" before "r2"; "c1",   *)
(* stored as transient, may be purged.                                     *)
(***************************************************************************)
EXTENDS AgentTasks

MCSender == [p \in Packets |-> "s1"]
MCTask == [p \in Packets |-> "t1"]
MCKind == [p \in Packets |-> IF p = "c1" THEN "cancel" ELSE "request"]
MCBody == [p \in Packets |-> IF p \in {"r1", "r2"} THEN "body1" ELSE p]

VARIABLE part

Start ==
    /\ part \in {"group", "tasks"}
    /\ TaskInit
    /\ IF part = "group" THEN CGInit ELSE Arrived /\ denied = Senders

\* Bounds of the second part.
InTurn == Cardinality(verdicts) <= 1 /\ ("r2" \in seen => "r1" \in seen)

Step ==
    /\ \/ part = "group" /\ CGNext /\ UNCHANGED taskVars /\ InTurn'
       \/ part = "tasks" /\ Next
    /\ UNCHANGED part

\* The fairness of ConsumerGroups for one part, of AgentTasks for the other.
PartFairness ==
    /\ \A p \in Packets :
          /\ SF_vars(Claim(p) /\ UNCHANGED taskVars)
          /\ WF_vars(part = "group" /\ UNCHANGED taskVars /\ \E n \in 1..attempts[p] : AcknowledgeClaim(p, n))
          /\ SF_vars(part = "tasks" /\ \E n \in 1..attempts[p] :
                        Begin(p, n) \/ ApplyAgentTaskCancellation(p, n))
          /\ WF_vars(part = "tasks" /\ Lapse(p) /\ UNCHANGED taskVars)
    /\ \A t \in Tasks :
          WF_vars(/\ part = "tasks" /\ runs[t] # <<>>
                  /\ ~MayReturn(Last(runs[t])[1]) /\ SettleRun(t))

PartSpec == Start /\ [][Step]_<<part, vars>> /\ PartFairness
=============================================================================
