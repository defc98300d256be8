------------------------- MODULE PacketIntakeProofs -------------------------
(***************************************************************************)
(* Proofs about packet intake, for every set of packets, prekeys, senders  *)
(* and workers.  The properties of PacketIntake are not inductive as they  *)
(* stand: a second commit of a packet is excluded only because of what     *)
(* holds of its row while a worker is still busy with it.  IntakeInv adds  *)
(* those facts.                                                            *)
(***************************************************************************)
EXTENDS PacketIntake, TLAPS

Busy(w, p) == pc[w] # "idle" /\ job[w] = p

\* An accepted packet stays marked as delivered until it has expired, and a
\* row only disappears under a busy worker when its packet has expired.
RowKept ==
    /\ \A p \in Packets : commits[p] > 0 => row[p] = "delivered" \/ p \in expired
    /\ \A w \in Workers, p \in Packets :
          Busy(w, p) /\ row[p] = "absent" => p \in expired

\* An inbox row comes from a commit.  Once a transient row has been purged,
\* no worker is beyond the expiry check with that packet.
NoLateCommit ==
    /\ \A p \in Packets : inbox[p] # "none" => commits[p] > 0
    /\ \A w \in Workers, p \in Packets :
          Busy(w, p) /\ commits[p] > 0 /\ inbox[p] = "none" =>
              /\ pc[w] \notin {"open", "project", "commit"}
              /\ pc[w] = "material" => p \in expired

\* Only the worker whose transaction inserted the message follows it up.
FollowOnce ==
    /\ \A w \in Workers, p \in Packets :
          pc[w] = "follow" /\ job[w] = p => commits[p] = 1 /\ replies[p] = 0
    /\ \A v, w \in Workers : pc[v] = "follow" /\ pc[w] = "follow" /\ job[v] = job[w] => v = w

\* A row marked as delivered is accepted, recorded as rejected, or expired;
\* a rejection record outlives its packet row only when that has expired.
SettledRow ==
    /\ \A p \in Packets : row[p] = "delivered" =>
                              commits[p] > 0 \/ p \in rejections \/ p \in expired
    /\ \A p \in rejections : row[p] # "absent" \/ p \in expired

\* A worker about to commit a trusted bundle or disclosure has imported it.
ImportedFirst ==
    \A w \in Workers, p \in Packets :
        pc[w] = "commit" /\ job[w] = p /\ trust[w] /\ Kind[p] \in Projected => p \in projected

IntakeInv ==
    /\ TypeOK
    /\ RowKept /\ NoLateCommit /\ FollowOnce /\ SettledRow /\ ImportedFirst
    /\ AtMostOnceIntake /\ PrekeySpentOnce /\ AckMeansSettled
    /\ ProjectedBeforeInbox /\ ConsumedByItsPeer

-----------------------------------------------------------------------------
\* A store that holds nothing, with idle workers, is well typed.
LEMMA InitTypeOK == Init => TypeOK
  BY IntakeAssumption DEF Init, TypeOK, Steps

\* Every step keeps every variable in its domain.
LEMMA NextTypeOK == TypeOK /\ [Next]_vars => TypeOK'
<1> SUFFICES ASSUME TypeOK, [Next]_vars PROVE TypeOK'
  OBVIOUS
<1> USE IntakeAssumption
<1>1. ASSUME NEW w \in Workers, NEW p \in Packets, AcceptCarrierPacket(w, p) PROVE TypeOK'
  BY <1>1 DEF AcceptCarrierPacket, TypeOK, Steps, history
<1>2. ASSUME NEW w \in Workers, NEW p \in Packets, SpoolPick(w, p) PROVE TypeOK'
  BY <1>2 DEF SpoolPick, TypeOK, Steps, history, tables
<1>3. ASSUME NEW w \in Workers, CheckDelivered(w) PROVE TypeOK'
  <2>1. job[w] \in Packets
    BY <1>3 DEF CheckDelivered, TypeOK
  <2>2. CASE PacketDelivered(job[w])
    <3>1. acked' \in SUBSET Packets
      BY <1>3, <2>1, <2>2 DEF CheckDelivered, Return, TypeOK
    <3>2. Finish(w) /\ UNCHANGED <<tables, expired, denied, aborts, commits, replies, cleaned>>
      BY <1>3, <2>2 DEF CheckDelivered, Return
    <3>. QED
      BY <3>1, <3>2 DEF Finish, TypeOK, Steps, tables
  <2>3. CASE ~PacketDelivered(job[w])
    BY <1>3, <2>3 DEF CheckDelivered, TypeOK, Steps, tables
  <2>. QED  BY <2>2, <2>3
<1>4. ASSUME NEW w \in Workers, LoadMaterial(w) PROVE TypeOK'
  BY <1>4 DEF LoadMaterial, Raise, TypeOK, Steps, tables, history
<1>5. ASSUME NEW w \in Workers, OpenPacket(w) PROVE TypeOK'
  <2>1. IsTrusted(Sender[job[w]]) \in BOOLEAN
    BY DEF IsTrusted
  <2>. QED  BY <1>5, <2>1 DEF OpenPacket, Raise, TypeOK, Steps, tables, history
<1>6. ASSUME NEW w \in Workers, Project(w) PROVE TypeOK'
  BY <1>6 DEF Project, Raise, TypeOK, Steps, tables, history
<1>7. ASSUME NEW w \in Workers, CommitLocalMessage(w) PROVE TypeOK'
  <2> DEFINE p == job[w]
  <2>1. p \in Packets
    BY <1>7 DEF CommitLocalMessage, TypeOK
  <2>2. MarkLocalDelivered(p) \in [Packets -> {"absent", "pending", "delivered"}]
    BY <2>1 DEF MarkLocalDelivered, TypeOK
  <2>3. KeyErased(p) \in [Prekeys -> {"available", "consumed", "revoked", "expired"}]
    BY <2>1 DEF KeyErased, IsOpk, TypeOK
  <2>4. row' \in [Packets -> {"absent", "pending", "delivered"}]
        /\ prekey' \in [Prekeys -> {"available", "consumed", "revoked", "expired"}]
    BY <1>7, <2>2, <2>3 DEF CommitLocalMessage, TypeOK
  <2>5. inbox' \in [Packets -> {"none", "trusted", "untrusted"}] /\ commits' \in [Packets -> Nat]
    BY <1>7, <2>1 DEF CommitLocalMessage, TypeOK
  <2>6. acked' \in SUBSET Packets
    BY <1>7, <2>1 DEF CommitLocalMessage, Return, TypeOK
  <2>7. pc' \in [Workers -> Steps] /\ job' \in [Workers -> Packets \cup {NoPacket}]
        /\ \A v \in Workers : pc'[v] # "idle" => job'[v] \in Packets
    BY <1>7 DEF CommitLocalMessage, Return, Finish, TypeOK, Steps
  <2>8. source' \in [Workers -> {"carrier", "spool"}] /\ trust' \in [Workers -> BOOLEAN]
    BY <1>7 DEF CommitLocalMessage, Return, Finish, TypeOK
  <2>. QED
    BY <1>7, <2>4, <2>5, <2>6, <2>7, <2>8 DEF CommitLocalMessage, TypeOK
<1>8. ASSUME NEW w \in Workers, FollowUp(w) PROVE TypeOK'
  <2>1. job[w] \in Packets
    BY <1>8 DEF FollowUp, TypeOK
  <2>2. acked' \in SUBSET Packets /\ replies' \in [Packets -> Nat]
    BY <1>8, <2>1 DEF FollowUp, Return, TypeOK
  <2>3. pc' \in [Workers -> Steps] /\ job' \in [Workers -> Packets \cup {NoPacket}]
        /\ \A v \in Workers : pc'[v] # "idle" => job'[v] \in Packets
    BY <1>8 DEF FollowUp, Return, Finish, TypeOK, Steps
  <2>4. source' \in [Workers -> {"carrier", "spool"}] /\ trust' \in [Workers -> BOOLEAN]
    BY <1>8 DEF FollowUp, Return, Finish, TypeOK
  <2>. QED
    BY <1>8, <2>2, <2>3, <2>4 DEF FollowUp, TypeOK, tables
<1>9. ASSUME NEW w \in Workers, MarkLocalRejected(w) PROVE TypeOK'
  BY <1>9 DEF MarkLocalRejected, MarkLocalDelivered, Finish, TypeOK, Steps, history
<1>10. ASSUME NEW w \in Workers, Abort(w) PROVE TypeOK'
  BY <1>10 DEF Abort, Finish, TypeOK, Steps, tables, history
<1>11. ASSUME NEW p \in Packets, ImportBundle(p) PROVE TypeOK'
  BY <1>11 DEF ImportBundle, TypeOK, Steps, worker, history
<1>12. ASSUME NEW p \in Packets, Expire(p) PROVE TypeOK'
  BY <1>12 DEF Expire, TypeOK, Steps, worker, tables, history
<1>13. CASE Purge
  BY <1>13 DEF Purge, TypeOK, Steps, worker, history
<1>14. ASSUME NEW s \in Senders, Revoke(s) PROVE TypeOK'
  BY <1>14 DEF Revoke, TypeOK, Steps, worker, tables, history
<1>15. ASSUME NEW s \in Senders, RevokePeer(s) PROVE TypeOK'
  BY <1>15 DEF RevokePeer, TypeOK, Steps, worker
<1>16. CASE UNCHANGED vars
  BY <1>16 DEF vars, TypeOK, tables, worker, history
<1>. QED
  BY <1>1, <1>2, <1>3, <1>4, <1>5, <1>6, <1>7, <1>8, <1>9, <1>10, <1>11, <1>12,
     <1>13, <1>14, <1>15, <1>16 DEF Next, WorkerStep

\* Type correctness of intake.
THEOREM TypeCorrect == Spec => []TypeOK
  BY InitTypeOK, NextTypeOK, PTL DEF Spec

\* The inductive invariant holds before the first packet.
LEMMA InitIntakeInv == Init => IntakeInv
  BY InitTypeOK, IntakeAssumption
  DEF Init, IntakeInv, RowKept, NoLateCommit, FollowOnce, SettledRow, ImportedFirst,
      AtMostOnceIntake, PrekeySpentOnce, AckMeansSettled, ProjectedBeforeInbox,
      ConsumedByItsPeer, Busy

\* Every step keeps the inductive invariant.
LEMMA NextIntakeInv == IntakeInv /\ [Next]_vars => IntakeInv'
<1> SUFFICES ASSUME IntakeInv, [Next]_vars PROVE IntakeInv'
  OBVIOUS
<1> USE IntakeAssumption
<1>0. TypeOK /\ TypeOK'
  BY NextTypeOK DEF IntakeInv
<1>1. ASSUME NEW w \in Workers, NEW p \in Packets, AcceptCarrierPacket(w, p) PROVE IntakeInv'
  <2>1. RowKept'
    BY <1>0, <1>1 DEF AcceptCarrierPacket, history, IntakeInv, TypeOK, RowKept,
       Busy
  <2>2. NoLateCommit'
    BY <1>0, <1>1 DEF AcceptCarrierPacket, history, IntakeInv, TypeOK,
       NoLateCommit, Busy, RowKept
  <2>3. FollowOnce'
    BY <1>0, <1>1 DEF AcceptCarrierPacket, history, IntakeInv, TypeOK, FollowOnce,
       NoLateCommit, Busy, AtMostOnceIntake
  <2>4. SettledRow'
    BY <1>0, <1>1 DEF AcceptCarrierPacket, history, IntakeInv, TypeOK, SettledRow,
       RowKept, NoLateCommit, Busy
  <2>5. ImportedFirst'
    BY <1>0, <1>1 DEF AcceptCarrierPacket, history, IntakeInv, TypeOK,
       ImportedFirst
  <2>6. AtMostOnceIntake' /\ PrekeySpentOnce' /\ AckMeansSettled' /\
        ProjectedBeforeInbox' /\ ConsumedByItsPeer'
    BY <1>1 DEF AcceptCarrierPacket, history, IntakeInv, AtMostOnceIntake,
       PrekeySpentOnce, AckMeansSettled, ProjectedBeforeInbox, ConsumedByItsPeer
  <2>. QED  BY <1>0, <2>1, <2>2, <2>3, <2>4, <2>5, <2>6 DEF IntakeInv
<1>2. ASSUME NEW w \in Workers, NEW p \in Packets, SpoolPick(w, p) PROVE IntakeInv'
  <2>1. RowKept'
    BY <1>0, <1>2 DEF SpoolPick, tables, history, IntakeInv, TypeOK, RowKept, Busy
  <2>2. NoLateCommit'
    BY <1>0, <1>2 DEF SpoolPick, tables, history, IntakeInv, TypeOK, NoLateCommit,
       Busy, RowKept
  <2>3. FollowOnce'
    BY <1>0, <1>2 DEF SpoolPick, tables, history, IntakeInv, TypeOK, FollowOnce,
       NoLateCommit, Busy, AtMostOnceIntake
  <2>4. ImportedFirst'
    BY <1>0, <1>2 DEF SpoolPick, tables, history, IntakeInv, TypeOK, ImportedFirst
  <2>5. SettledRow' /\ AtMostOnceIntake' /\ PrekeySpentOnce' /\ AckMeansSettled'
        /\ ProjectedBeforeInbox' /\ ConsumedByItsPeer'
    BY <1>2 DEF SpoolPick, tables, history, IntakeInv, SettledRow,
       AtMostOnceIntake, PrekeySpentOnce, AckMeansSettled, ProjectedBeforeInbox,
       ConsumedByItsPeer
  <2>. QED  BY <1>0, <2>1, <2>2, <2>3, <2>4, <2>5 DEF IntakeInv
<1>3. ASSUME NEW w \in Workers, CheckDelivered(w) PROVE IntakeInv'
  <2>1. RowKept'
    BY <1>0, <1>3 DEF CheckDelivered, Return, Finish, PacketDelivered, tables,
       IntakeInv, TypeOK, RowKept, Busy
  <2>2. NoLateCommit'
    BY <1>0, <1>3 DEF CheckDelivered, Return, Finish, PacketDelivered, tables,
       IntakeInv, TypeOK, NoLateCommit, Busy, RowKept
  <2>3. FollowOnce'
    BY <1>0, <1>3 DEF CheckDelivered, Return, Finish, PacketDelivered, tables,
       IntakeInv, TypeOK, FollowOnce, NoLateCommit, Busy, AtMostOnceIntake
  <2>4. ImportedFirst'
    BY <1>0, <1>3 DEF CheckDelivered, Return, Finish, PacketDelivered, tables,
       IntakeInv, TypeOK, ImportedFirst
  <2>5. AckMeansSettled'
    BY <1>0, <1>3 DEF CheckDelivered, Return, Finish, PacketDelivered, tables,
       IntakeInv, TypeOK, AckMeansSettled, SettledRow, NoLateCommit, FollowOnce,
       Busy
  <2>6. SettledRow' /\ AtMostOnceIntake' /\ PrekeySpentOnce' /\
        ProjectedBeforeInbox' /\ ConsumedByItsPeer'
    BY <1>3 DEF CheckDelivered, tables, IntakeInv, SettledRow, AtMostOnceIntake,
       PrekeySpentOnce, ProjectedBeforeInbox, ConsumedByItsPeer
  <2>. QED  BY <1>0, <2>1, <2>2, <2>3, <2>4, <2>5, <2>6 DEF IntakeInv
<1>4. ASSUME NEW w \in Workers, LoadMaterial(w) PROVE IntakeInv'
  <2>1. RowKept'
    BY <1>0, <1>4 DEF LoadMaterial, Raise, tables, history, IntakeInv, TypeOK,
       RowKept, Busy
  <2>2. NoLateCommit'
    BY <1>0, <1>4 DEF LoadMaterial, Raise, tables, history, IntakeInv, TypeOK,
       NoLateCommit, Busy, RowKept
  <2>3. FollowOnce'
    BY <1>0, <1>4 DEF LoadMaterial, Raise, tables, history, IntakeInv, TypeOK,
       FollowOnce, NoLateCommit, Busy, AtMostOnceIntake
  <2>4. ImportedFirst'
    BY <1>0, <1>4 DEF LoadMaterial, Raise, tables, history, IntakeInv, TypeOK,
       ImportedFirst
  <2>5. SettledRow' /\ AtMostOnceIntake' /\ PrekeySpentOnce' /\ AckMeansSettled'
        /\ ProjectedBeforeInbox' /\ ConsumedByItsPeer'
    BY <1>4 DEF LoadMaterial, Raise, tables, history, IntakeInv, SettledRow,
       AtMostOnceIntake, PrekeySpentOnce, AckMeansSettled, ProjectedBeforeInbox,
       ConsumedByItsPeer
  <2>. QED  BY <1>0, <2>1, <2>2, <2>3, <2>4, <2>5 DEF IntakeInv
<1>5. ASSUME NEW w \in Workers, OpenPacket(w) PROVE IntakeInv'
  <2>1. RowKept'
    BY <1>0, <1>5 DEF OpenPacket, Raise, tables, history, IntakeInv, TypeOK,
       RowKept, Busy
  <2>2. NoLateCommit'
    BY <1>0, <1>5 DEF OpenPacket, Raise, tables, history, IntakeInv, TypeOK,
       NoLateCommit, Busy, RowKept
  <2>3. FollowOnce'
    BY <1>0, <1>5 DEF OpenPacket, Raise, tables, history, IntakeInv, TypeOK,
       FollowOnce, NoLateCommit, Busy, AtMostOnceIntake
  <2>4. ImportedFirst'
    BY <1>0, <1>5 DEF OpenPacket, Raise, tables, history, IntakeInv, TypeOK,
       ImportedFirst
  <2>5. SettledRow' /\ AtMostOnceIntake' /\ PrekeySpentOnce' /\ AckMeansSettled'
        /\ ProjectedBeforeInbox' /\ ConsumedByItsPeer'
    BY <1>5 DEF OpenPacket, Raise, tables, history, IntakeInv, SettledRow,
       AtMostOnceIntake, PrekeySpentOnce, AckMeansSettled, ProjectedBeforeInbox,
       ConsumedByItsPeer
  <2>. QED  BY <1>0, <2>1, <2>2, <2>3, <2>4, <2>5 DEF IntakeInv
<1>6. ASSUME NEW w \in Workers, Project(w) PROVE IntakeInv'
  <2>1. RowKept'
    BY <1>0, <1>6 DEF Project, Raise, tables, history, IntakeInv, TypeOK, RowKept,
       Busy
  <2>2. NoLateCommit'
    BY <1>0, <1>6 DEF Project, Raise, tables, history, IntakeInv, TypeOK,
       NoLateCommit, Busy, RowKept
  <2>3. FollowOnce'
    BY <1>0, <1>6 DEF Project, Raise, tables, history, IntakeInv, TypeOK,
       FollowOnce, NoLateCommit, Busy, AtMostOnceIntake
  <2>4. ImportedFirst'
    BY <1>0, <1>6 DEF Project, Raise, tables, history, IntakeInv, TypeOK,
       ImportedFirst
  <2>5. ProjectedBeforeInbox'
    BY <1>0, <1>6 DEF Project, Raise, tables, history, IntakeInv, TypeOK,
       ProjectedBeforeInbox, ImportedFirst
  <2>6. SettledRow' /\ AtMostOnceIntake' /\ PrekeySpentOnce' /\ AckMeansSettled'
        /\ ConsumedByItsPeer'
    BY <1>6 DEF Project, Raise, tables, history, IntakeInv, SettledRow,
       AtMostOnceIntake, PrekeySpentOnce, AckMeansSettled, ConsumedByItsPeer
  <2>. QED  BY <1>0, <2>1, <2>2, <2>3, <2>4, <2>5, <2>6 DEF IntakeInv
<1>7. ASSUME NEW w \in Workers, CommitLocalMessage(w) PROVE IntakeInv'
  <2>1. RowKept'
    BY <1>0, <1>7 DEF CommitLocalMessage, Return, Finish, MarkLocalDelivered,
       ExistingInbox, KeyErased, KeyAvailable, SenderInScope, IsOpk, IntakeInv,
       TypeOK, RowKept, Busy
  <2>2. NoLateCommit'
    BY <1>0, <1>7 DEF CommitLocalMessage, Return, Finish, MarkLocalDelivered,
       ExistingInbox, KeyErased, KeyAvailable, SenderInScope, IsOpk, IntakeInv,
       TypeOK, NoLateCommit, Busy, RowKept
  <2>3. FollowOnce'
    BY <1>0, <1>7 DEF CommitLocalMessage, Return, Finish, MarkLocalDelivered,
       ExistingInbox, KeyErased, KeyAvailable, SenderInScope, IsOpk, IntakeInv,
       TypeOK, FollowOnce, NoLateCommit, Busy, AtMostOnceIntake
  <2>4. SettledRow'
    BY <1>0, <1>7 DEF CommitLocalMessage, Return, Finish, MarkLocalDelivered,
       ExistingInbox, KeyErased, KeyAvailable, SenderInScope, IsOpk, IntakeInv,
       TypeOK, SettledRow, RowKept, NoLateCommit, Busy
  <2>5. ImportedFirst'
    BY <1>0, <1>7 DEF CommitLocalMessage, Return, Finish, MarkLocalDelivered,
       ExistingInbox, KeyErased, KeyAvailable, SenderInScope, IsOpk, IntakeInv,
       TypeOK, ImportedFirst
  <2>6. AtMostOnceIntake'
    BY <1>0, <1>7 DEF CommitLocalMessage, Return, Finish, MarkLocalDelivered,
       ExistingInbox, KeyErased, KeyAvailable, SenderInScope, IsOpk, IntakeInv,
       TypeOK, AtMostOnceIntake, FollowOnce, NoLateCommit, Busy
  <2>7. PrekeySpentOnce'
    BY <1>0, <1>7 DEF CommitLocalMessage, Return, Finish, MarkLocalDelivered,
       ExistingInbox, KeyErased, KeyAvailable, SenderInScope, IsOpk, IntakeInv,
       TypeOK, PrekeySpentOnce
  <2>8. AckMeansSettled'
    BY <1>0, <1>7 DEF CommitLocalMessage, Return, Finish, MarkLocalDelivered,
       ExistingInbox, KeyErased, KeyAvailable, SenderInScope, IsOpk, IntakeInv,
       TypeOK, AckMeansSettled, SettledRow, NoLateCommit, FollowOnce, Busy
  <2>9. ProjectedBeforeInbox'
    BY <1>0, <1>7 DEF CommitLocalMessage, Return, Finish, MarkLocalDelivered,
       ExistingInbox, KeyErased, KeyAvailable, SenderInScope, IsOpk, IntakeInv,
       TypeOK, ProjectedBeforeInbox, ImportedFirst
  <2>10. ConsumedByItsPeer'
    BY <1>0, <1>7 DEF CommitLocalMessage, Return, Finish, MarkLocalDelivered,
       ExistingInbox, KeyErased, KeyAvailable, SenderInScope, IsOpk, IntakeInv,
       TypeOK, ConsumedByItsPeer
  <2>. QED  BY <1>0, <2>1, <2>2, <2>3, <2>4, <2>5, <2>6, <2>7, <2>8, <2>9, <2>10 DEF IntakeInv
<1>8. ASSUME NEW w \in Workers, FollowUp(w) PROVE IntakeInv'
  <2>1. RowKept'
    BY <1>0, <1>8 DEF FollowUp, Return, Finish, tables, IntakeInv, TypeOK,
       RowKept, Busy
  <2>2. NoLateCommit'
    BY <1>0, <1>8 DEF FollowUp, Return, Finish, tables, IntakeInv, TypeOK,
       NoLateCommit, Busy, RowKept
  <2>3. FollowOnce'
    BY <1>0, <1>8 DEF FollowUp, Return, Finish, tables, IntakeInv, TypeOK,
       FollowOnce, NoLateCommit, Busy, AtMostOnceIntake
  <2>4. ImportedFirst'
    BY <1>0, <1>8 DEF FollowUp, Return, Finish, tables, IntakeInv, TypeOK,
       ImportedFirst
  <2>5. AtMostOnceIntake'
    BY <1>0, <1>8 DEF FollowUp, Return, Finish, tables, IntakeInv, TypeOK,
       AtMostOnceIntake, FollowOnce, NoLateCommit, Busy
  <2>6. AckMeansSettled'
    BY <1>0, <1>8 DEF FollowUp, Return, Finish, tables, IntakeInv, TypeOK,
       AckMeansSettled, SettledRow, NoLateCommit, FollowOnce, Busy
  <2>7. SettledRow' /\ PrekeySpentOnce' /\ ProjectedBeforeInbox' /\
        ConsumedByItsPeer'
    BY <1>8 DEF FollowUp, tables, IntakeInv, SettledRow, PrekeySpentOnce,
       ProjectedBeforeInbox, ConsumedByItsPeer
  <2>. QED  BY <1>0, <2>1, <2>2, <2>3, <2>4, <2>5, <2>6, <2>7 DEF IntakeInv
<1>9. ASSUME NEW w \in Workers, MarkLocalRejected(w) PROVE IntakeInv'
  <2>1. RowKept'
    BY <1>0, <1>9 DEF MarkLocalRejected, MarkLocalDelivered, Finish, history,
       IntakeInv, TypeOK, RowKept, Busy
  <2>2. NoLateCommit'
    BY <1>0, <1>9 DEF MarkLocalRejected, MarkLocalDelivered, Finish, history,
       IntakeInv, TypeOK, NoLateCommit, Busy, RowKept
  <2>3. FollowOnce'
    BY <1>0, <1>9 DEF MarkLocalRejected, MarkLocalDelivered, Finish, history,
       IntakeInv, TypeOK, FollowOnce, NoLateCommit, Busy, AtMostOnceIntake
  <2>4. SettledRow'
    BY <1>0, <1>9 DEF MarkLocalRejected, MarkLocalDelivered, Finish, history,
       IntakeInv, TypeOK, SettledRow, RowKept, NoLateCommit, Busy
  <2>5. ImportedFirst'
    BY <1>0, <1>9 DEF MarkLocalRejected, MarkLocalDelivered, Finish, history,
       IntakeInv, TypeOK, ImportedFirst
  <2>6. AckMeansSettled'
    BY <1>0, <1>9 DEF MarkLocalRejected, MarkLocalDelivered, Finish, history,
       IntakeInv, TypeOK, AckMeansSettled, SettledRow, NoLateCommit, FollowOnce,
       Busy
  <2>7. AtMostOnceIntake' /\ PrekeySpentOnce' /\ ProjectedBeforeInbox' /\
        ConsumedByItsPeer'
    BY <1>9 DEF MarkLocalRejected, history, IntakeInv, AtMostOnceIntake,
       PrekeySpentOnce, ProjectedBeforeInbox, ConsumedByItsPeer
  <2>. QED  BY <1>0, <2>1, <2>2, <2>3, <2>4, <2>5, <2>6, <2>7 DEF IntakeInv
<1>10. ASSUME NEW w \in Workers, Abort(w) PROVE IntakeInv'
  <2>1. RowKept'
    BY <1>0, <1>10 DEF Abort, Finish, tables, history, IntakeInv, TypeOK, RowKept,
       Busy
  <2>2. NoLateCommit'
    BY <1>0, <1>10 DEF Abort, Finish, tables, history, IntakeInv, TypeOK,
       NoLateCommit, Busy, RowKept
  <2>3. FollowOnce'
    BY <1>0, <1>10 DEF Abort, Finish, tables, history, IntakeInv, TypeOK,
       FollowOnce, NoLateCommit, Busy, AtMostOnceIntake
  <2>4. ImportedFirst'
    BY <1>0, <1>10 DEF Abort, Finish, tables, history, IntakeInv, TypeOK,
       ImportedFirst
  <2>5. SettledRow' /\ AtMostOnceIntake' /\ PrekeySpentOnce' /\ AckMeansSettled'
        /\ ProjectedBeforeInbox' /\ ConsumedByItsPeer'
    BY <1>10 DEF Abort, tables, history, IntakeInv, SettledRow, AtMostOnceIntake,
       PrekeySpentOnce, AckMeansSettled, ProjectedBeforeInbox, ConsumedByItsPeer
  <2>. QED  BY <1>0, <2>1, <2>2, <2>3, <2>4, <2>5 DEF IntakeInv
<1>11. ASSUME NEW p \in Packets, ImportBundle(p) PROVE IntakeInv'
  <2>1. RowKept'
    BY <1>0, <1>11 DEF ImportBundle, worker, history, IntakeInv, TypeOK, RowKept,
       Busy
  <2>2. SettledRow'
    BY <1>0, <1>11 DEF ImportBundle, worker, history, IntakeInv, TypeOK,
       SettledRow, RowKept, NoLateCommit, Busy
  <2>3. NoLateCommit' /\ FollowOnce' /\ ImportedFirst' /\ AtMostOnceIntake' /\
        PrekeySpentOnce' /\ AckMeansSettled' /\ ProjectedBeforeInbox' /\
        ConsumedByItsPeer'
    BY <1>11 DEF ImportBundle, worker, history, IntakeInv, NoLateCommit,
       FollowOnce, ImportedFirst, AtMostOnceIntake, PrekeySpentOnce,
       AckMeansSettled, ProjectedBeforeInbox, ConsumedByItsPeer, Busy
  <2>. QED  BY <1>0, <2>1, <2>2, <2>3 DEF IntakeInv
<1>12. ASSUME NEW p \in Packets, Expire(p) PROVE IntakeInv'
  <2>1. RowKept'
    BY <1>0, <1>12 DEF Expire, worker, tables, history, IntakeInv, TypeOK,
       RowKept, Busy
  <2>2. NoLateCommit'
    BY <1>0, <1>12 DEF Expire, worker, tables, history, IntakeInv, TypeOK,
       NoLateCommit, Busy, RowKept
  <2>3. SettledRow'
    BY <1>0, <1>12 DEF Expire, worker, tables, history, IntakeInv, TypeOK,
       SettledRow, RowKept, NoLateCommit, Busy
  <2>4. AckMeansSettled'
    BY <1>0, <1>12 DEF Expire, worker, tables, history, IntakeInv, TypeOK,
       AckMeansSettled, SettledRow, NoLateCommit, FollowOnce, Busy
  <2>5. FollowOnce' /\ ImportedFirst' /\ AtMostOnceIntake' /\ PrekeySpentOnce' /\
        ProjectedBeforeInbox' /\ ConsumedByItsPeer'
    BY <1>12 DEF Expire, worker, tables, history, IntakeInv, FollowOnce,
       ImportedFirst, AtMostOnceIntake, PrekeySpentOnce, ProjectedBeforeInbox,
       ConsumedByItsPeer
  <2>. QED  BY <1>0, <2>1, <2>2, <2>3, <2>4, <2>5 DEF IntakeInv
<1>13. CASE Purge
  <2>1. RowKept'
    BY <1>0, <1>13 DEF Purge, worker, history, IntakeInv, TypeOK, RowKept, Busy
  <2>2. NoLateCommit'
    BY <1>0, <1>13 DEF Purge, worker, history, IntakeInv, TypeOK, NoLateCommit,
       Busy, RowKept
  <2>3. SettledRow'
    BY <1>0, <1>13 DEF Purge, worker, history, IntakeInv, TypeOK, SettledRow,
       RowKept, NoLateCommit, Busy
  <2>4. PrekeySpentOnce'
    BY <1>0, <1>13 DEF Purge, worker, history, IntakeInv, TypeOK, PrekeySpentOnce,
       IsOpk
  <2>5. AckMeansSettled'
    BY <1>0, <1>13 DEF Purge, worker, history, IntakeInv, TypeOK, AckMeansSettled,
       SettledRow, NoLateCommit, FollowOnce, Busy
  <2>6. ProjectedBeforeInbox'
    BY <1>0, <1>13 DEF Purge, worker, history, IntakeInv, TypeOK,
       ProjectedBeforeInbox, ImportedFirst
  <2>7. ConsumedByItsPeer'
    BY <1>0, <1>13 DEF Purge, worker, history, IntakeInv, TypeOK,
       ConsumedByItsPeer, IsOpk
  <2>8. FollowOnce' /\ ImportedFirst' /\ AtMostOnceIntake'
    BY <1>13 DEF Purge, worker, history, IntakeInv, FollowOnce, ImportedFirst,
       AtMostOnceIntake
  <2>. QED  BY <1>0, <2>1, <2>2, <2>3, <2>4, <2>5, <2>6, <2>7, <2>8 DEF IntakeInv
<1>14. ASSUME NEW s \in Senders, Revoke(s) PROVE IntakeInv'
  <2>1. RowKept' /\ NoLateCommit' /\ FollowOnce' /\ SettledRow' /\ ImportedFirst'
        /\ AtMostOnceIntake' /\ PrekeySpentOnce' /\ AckMeansSettled' /\
        ProjectedBeforeInbox' /\ ConsumedByItsPeer'
    BY <1>14 DEF Revoke, worker, tables, history, IntakeInv, RowKept,
       NoLateCommit, FollowOnce, SettledRow, ImportedFirst, AtMostOnceIntake,
       PrekeySpentOnce, AckMeansSettled, ProjectedBeforeInbox, ConsumedByItsPeer,
       Busy
  <2>. QED  BY <1>0, <2>1 DEF IntakeInv
<1>15. ASSUME NEW s \in Senders, RevokePeer(s) PROVE IntakeInv'
  <2>1. NoLateCommit'
    BY <1>0, <1>15 DEF RevokePeer, worker, IntakeInv, TypeOK, NoLateCommit, Busy,
       RowKept
  <2>2. PrekeySpentOnce'
    BY <1>0, <1>15 DEF RevokePeer, worker, IntakeInv, TypeOK, PrekeySpentOnce,
       IsOpk
  <2>3. ProjectedBeforeInbox'
    BY <1>0, <1>15 DEF RevokePeer, worker, IntakeInv, TypeOK,
       ProjectedBeforeInbox, ImportedFirst
  <2>4. ConsumedByItsPeer'
    BY <1>0, <1>15 DEF RevokePeer, worker, IntakeInv, TypeOK, ConsumedByItsPeer,
       IsOpk
  <2>5. RowKept' /\ FollowOnce' /\ SettledRow' /\ ImportedFirst' /\
        AtMostOnceIntake' /\ AckMeansSettled'
    BY <1>15 DEF RevokePeer, worker, IntakeInv, RowKept, FollowOnce, SettledRow,
       ImportedFirst, AtMostOnceIntake, AckMeansSettled, Busy
  <2>. QED  BY <1>0, <2>1, <2>2, <2>3, <2>4, <2>5 DEF IntakeInv
<1>16. CASE UNCHANGED vars
  <2>1. RowKept' /\ NoLateCommit' /\ FollowOnce' /\ SettledRow' /\ ImportedFirst'
        /\ AtMostOnceIntake' /\ PrekeySpentOnce' /\ AckMeansSettled' /\
        ProjectedBeforeInbox' /\ ConsumedByItsPeer'
    BY <1>16 DEF vars, worker, tables, history, IntakeInv, RowKept, NoLateCommit,
       FollowOnce, SettledRow, ImportedFirst, AtMostOnceIntake, PrekeySpentOnce,
       AckMeansSettled, ProjectedBeforeInbox, ConsumedByItsPeer, Busy
  <2>. QED  BY <1>0, <2>1 DEF IntakeInv
<1>. QED
  BY <1>1, <1>2, <1>3, <1>4, <1>5, <1>6, <1>7, <1>8, <1>9, <1>10, <1>11, <1>12, <1>13, <1>14, <1>15, <1>16 DEF Next, WorkerStep

\* The inductive invariant holds in every reachable state.
LEMMA IntakeInvariant == Spec => []IntakeInv
  BY InitIntakeInv, NextIntakeInv, PTL DEF Spec

-----------------------------------------------------------------------------
\* Whatever workers race on copies of a packet, whatever is purged and
\* redelivered, it is inserted into the inbox and followed up at most once.
THEOREM IntakeAtMostOnce == Spec => []AtMostOnceIntake
  BY IntakeInvariant, PTL DEF IntakeInv

\* No two packets are accepted under one one-time prekey, and an accepted
\* packet has spent its prekey.
THEOREM PrekeysSpentOnce == Spec => []PrekeySpentOnce
  BY IntakeInvariant, PTL DEF IntakeInv

\* A private key is only erased by the message of the peer it was issued to.
THEOREM KeysConsumedByTheirPeer == Spec => []ConsumedByItsPeer
  BY IntakeInvariant, PTL DEF IntakeInv

\* A carrier is only acknowledged for a packet that is settled on disk.
THEOREM AcksAreSettled == Spec => []AckMeansSettled
  BY IntakeInvariant, PTL DEF IntakeInv

\* A trusted bundle or disclosure in the inbox has reached its own book.
THEOREM ProjectionPrecedesInbox == Spec => []ProjectedBeforeInbox
  BY IntakeInvariant, PTL DEF IntakeInv

-----------------------------------------------------------------------------
\* At the start nothing is accepted and no prekey is spent.
LEMMA InitCustody == Init => Custody!CInit
  BY DEF Init, Custody!CInit

\* A step that leaves the commit counters alone and revives no prekey retires
\* the prekeys it takes out of use.
LEMMA RetireStep ==
    ASSUME TypeOK, UNCHANGED commits,
           \A k \in Prekeys : prekey[k] # "available" => prekey'[k] # "available"
    PROVE  [Custody!CNext]_(Custody!custodyVars)
<1>0. PICK K \in SUBSET Prekeys :
         K = {k \in Prekeys : prekey[k] = "available" /\ prekey'[k] # "available"}
  OBVIOUS
<1>1. {k \in Prekeys : prekey'[k] # "available"} =
          {k \in Prekeys : prekey[k] # "available"} \cup K
  BY <1>0
<1>2. Custody!Retire(K)
  BY <1>1 DEF Custody!Retire
<1>. QED
  BY <1>2 DEF Custody!CNext

\* A commit that inserts the message accepts its packet with its prekey.
LEMMA AcceptStep ==
    ASSUME IntakeInv, NEW w \in Workers, CommitLocalMessage(w), ~ExistingInbox(job[w]),
           KeyAvailable(job[w]) /\ SenderInScope(job[w])
    PROVE  Custody!CNext
<1> USE IntakeAssumption
<1>0. PICK p \in Packets : p = job[w]
  BY DEF CommitLocalMessage, IntakeInv, TypeOK
<1>1. commits[p] = 0
  BY <1>0 DEF CommitLocalMessage, ExistingInbox, IntakeInv, TypeOK, NoLateCommit, Busy
<1>2. commits' = [commits EXCEPT ![p] = @ + 1] /\ prekey' = KeyErased(p)
  BY <1>0 DEF CommitLocalMessage
<1>3. {q \in Packets : commits'[q] > 0} = {q \in Packets : commits[q] > 0} \cup {p}
  BY <1>1, <1>2 DEF IntakeInv, TypeOK
<1>4. KeyOf[p] \notin {k \in Prekeys : prekey[k] # "available"}
  BY <1>0 DEF KeyAvailable, IsOpk
<1>5. {k \in Prekeys : prekey'[k] # "available"} =
          {k \in Prekeys : prekey[k] # "available"} \cup ({KeyOf[p]} \ {NoKey})
  BY <1>1, <1>2 DEF KeyErased, IsOpk, IntakeInv, TypeOK
<1>6. Custody!Accept(p)
  BY <1>1, <1>3, <1>4, <1>5 DEF Custody!Accept
<1>. QED
  BY <1>6 DEF Custody!CNext

\* Every step of intake is a step of PacketCustody or leaves it unchanged.
LEMMA NextCustody == IntakeInv /\ [Next]_vars => [Custody!CNext]_(Custody!custodyVars)
<1> SUFFICES ASSUME IntakeInv, [Next]_vars PROVE [Custody!CNext]_(Custody!custodyVars)
  OBVIOUS
<1>0. TypeOK
  BY DEF IntakeInv
<1>1. ASSUME NEW w \in Workers, CommitLocalMessage(w)
      PROVE  [Custody!CNext]_(Custody!custodyVars)
  <2>1. CASE ~ExistingInbox(job[w]) /\ KeyAvailable(job[w]) /\ SenderInScope(job[w])
    BY <1>1, <2>1, AcceptStep
  <2>2. CASE ~(~ExistingInbox(job[w]) /\ KeyAvailable(job[w]) /\ SenderInScope(job[w]))
    <3>1. UNCHANGED <<commits, prekey>>
      BY <1>1, <2>2 DEF CommitLocalMessage
    <3>. QED  BY <1>0, <3>1, RetireStep
  <2>. QED  BY <2>1, <2>2
<1>2. ASSUME NEW w \in Workers, WorkerStep(w), ~CommitLocalMessage(w)
      PROVE  UNCHANGED <<commits, prekey>>
  BY <1>2 DEF WorkerStep, CheckDelivered, LoadMaterial, OpenPacket, Project, FollowUp,
              MarkLocalRejected, Raise, tables, history
<1>3. ASSUME NEW w \in Workers, NEW p \in Packets, AcceptCarrierPacket(w, p) \/ SpoolPick(w, p)
      PROVE  UNCHANGED <<commits, prekey>>
  BY <1>3 DEF AcceptCarrierPacket, SpoolPick, tables, history
<1>4. ASSUME NEW w \in Workers, Abort(w) PROVE UNCHANGED <<commits, prekey>>
  BY <1>4 DEF Abort, tables, history
<1>5. ASSUME NEW p \in Packets, ImportBundle(p) \/ Expire(p) PROVE UNCHANGED <<commits, prekey>>
  BY <1>5 DEF ImportBundle, Expire, tables, history
<1>6. CASE Purge
  <2>1. UNCHANGED commits /\
        \A k \in Prekeys : prekey[k] # "available" => prekey'[k] # "available"
    BY <1>6 DEF Purge, history
  <2>. QED  BY <1>0, <2>1, RetireStep
<1>7. ASSUME NEW s \in Senders, Revoke(s) PROVE UNCHANGED <<commits, prekey>>
  BY <1>7 DEF Revoke, tables, history
<1>8. ASSUME NEW s \in Senders, RevokePeer(s) PROVE [Custody!CNext]_(Custody!custodyVars)
  <2>1. UNCHANGED commits /\
        \A k \in Prekeys : prekey[k] # "available" => prekey'[k] # "available"
    BY <1>8 DEF RevokePeer
  <2>. QED  BY <1>0, <2>1, RetireStep
<1>9. CASE UNCHANGED vars
  <2>1. UNCHANGED <<commits, prekey>>
    BY <1>9 DEF vars, tables, history
  <2>. QED  BY <1>0, <2>1, RetireStep
<1>10. ASSUME UNCHANGED <<commits, prekey>> PROVE [Custody!CNext]_(Custody!custodyVars)
  BY <1>0, <1>10, RetireStep
<1>. QED
  BY <1>1, <1>2, <1>3, <1>4, <1>5, <1>6, <1>7, <1>8, <1>9, <1>10 DEF Next

\* Intake implements the custody promise: every step accepts one new packet
\* together with its prekey, retires prekeys, or leaves both alone.
THEOREM IntakeImplementsCustody == Spec => ImplementsCustody
  BY IntakeInvariant, InitCustody, NextCustody, PTL
  DEF Spec, ImplementsCustody, Custody!CSpec
=============================================================================
