------------------------------ MODULE Carriers ------------------------------
(***************************************************************************)
(* Packets and acknowledgements as files in a shared directory             *)
(* (carriers/directory.py) or a WebDAV collection (carriers/webdav.py).    *)
(* A frame lies in a mailbox that changes every week, under a name that    *)
(* kind and packet decide, so a second write in the same week is a no-op.  *)
(* A pass scans every mailbox that may hold frames for the node, handles   *)
(* what it read and pushes what is due; an error moves the frame to        *)
(* quarantine.  Nothing but the sender's retry repairs a lost frame.       *)
(***************************************************************************)
EXTENDS Naturals, FiniteSets

CONSTANTS Parties,      \* two nodes that pinned each other
          Loads,        \* packets
          Shipper,      \* packet -> the party that holds it for the other
          Rotating,     \* parties whose card has the v2 capability
          History,      \* CHANNEL_HISTORY_EPOCHS
          MaxAge,       \* MAX_FRAME_AGE_MS, in epochs
          MaxWeek,      \* bound: epochs
          MaxMishaps    \* bound: deaths, failed calls and lost answers

VARIABLES week,      \* the epoch each party's clock shows
          box,       \* the frames in the mailboxes
          status,    \* the sender's delivery row
          tried,     \* packets whose retry is not due
          taken,     \* packets accepted by the other party
          pass,      \* per party: the pass under way
          mishaps

carrierVars == <<week, box, status, tried, taken, pass, mishaps>>

Other(n) == CHOOSE m \in Parties : m # n
NoPass == [at |-> "idle", left |-> {}, on |-> {}, todo |-> {}]

CarrierInit ==
    /\ week = [n \in Parties |-> 0]
    /\ box = {} /\ taken = {} /\ tried = {}
    /\ status = [p \in Loads |-> "pending"]
    /\ pass = [n \in Parties |-> NoPass]
    /\ mishaps = 0

-----------------------------------------------------------------------------
(* Frames.                                                                 *)

\* outbound_channel: version and epoch; a legacy peer has one for ever.
Outbound(n) == IF Other(n) \in Rotating THEN <<2, week[n]>> ELSE <<1, 0>>

\* encode_frame.
Framed(n, kind, p) == [to |-> Other(n), kind |-> kind, pid |-> p, mailbox |-> Outbound(n), ts |-> week[n]]

\* inbound_channels: back in time, one ahead for a fast clock, and legacy.
CurrentEpoch(n) == {<<2, week[n]>>, <<1, 0>>}                \* mutant
InboundChannels(n) ==
    {<<2, e>> : e \in {e \in 0..(week[n] + 1) : e + History >= week[n]}} \cup {<<1, 0>>}

\* _filename: what makes two frames the same file.
SameFile(f, g) == f.to = g.to /\ f.kind = g.kind /\ f.pid = g.pid /\ f.mailbox = g.mailbox
Exists(f) == \E g \in box : SameFile(f, g)

\* decode_frame: the time window.
Decodes(n, f) == f.ts <= week[n] + 1 /\ f.ts + MaxAge >= week[n]

-----------------------------------------------------------------------------
(* A pass: sync_directory_once, sync_webdav_once.                          *)

\* scan: a frame outside the window is put in quarantine.
Scan(n) ==
    LET here == {f \in box : f.to = n /\ f.mailbox \in InboundChannels(n)} IN
    /\ pass[n].at = "idle"
    /\ pass' = [pass EXCEPT ![n] = [NoPass EXCEPT !.at = "pull", !.left = {f \in here : Decodes(n, f)}]]
    /\ box' = box \ {f \in here : ~Decodes(n, f)}
    /\ UNCHANGED <<week, status, tried, taken, mishaps>>

\* An acknowledgement of a packet that is still here.
TakeAck(n, f) ==
    /\ pass[n].at = "pull" /\ f \in pass[n].left /\ f.kind = "ack"
    /\ status' = [status EXCEPT ![f.pid] = IF @ = "pending" THEN "acked" ELSE @]
    /\ pass' = [pass EXCEPT ![n] = [@ EXCEPT !.at = "consume", !.on = {f}]]
    /\ UNCHANGED <<week, box, tried, taken, mishaps>>

\* accept_carrier_packet, which takes a duplicate as well.
TakePacket(n, f) ==
    /\ pass[n].at = "pull" /\ f \in pass[n].left /\ f.kind = "packet"
    /\ taken' = taken \cup {f.pid}
    /\ pass' = [pass EXCEPT ![n] = [@ EXCEPT !.at = "reply", !.on = {f}]]
    /\ UNCHANGED <<week, box, status, tried, mishaps>>

\* publish_ack.
Reply(n) ==
    /\ pass[n].at = "reply"
    /\ box' = box \cup {g \in {Framed(n, "ack", f.pid) : f \in pass[n].on} : ~Exists(g)}
    /\ pass' = [pass EXCEPT ![n].at = "consume"]
    /\ UNCHANGED <<week, status, tried, taken, mishaps>>

Consume(n) ==
    /\ pass[n].at = "consume"
    /\ box' = box \ pass[n].on
    /\ pass' = [pass EXCEPT ![n] = [@ EXCEPT !.at = "pull", !.left = @ \ pass[n].on, !.on = {}]]
    /\ UNCHANGED <<week, status, tried, taken, mishaps>>

Due(n) == {p \in Loads : Shipper[p] = n /\ status[p] = "pending" /\ p \notin tried}

\* pending_for_peer: the list is made once per pass.
PullDone(n) ==
    /\ pass[n].at = "pull" /\ pass[n].left = {}
    /\ pass' = [pass EXCEPT ![n] = [@ EXCEPT !.at = "push", !.todo = Due(n)]]
    /\ UNCHANGED <<week, box, status, tried, taken, mishaps>>

\* publish_packet and, when a file was written, mark_attempt.
Push(n, p) ==
    LET f == Framed(n, "packet", p) IN
    /\ pass[n].at = "push" /\ p \in pass[n].todo
    /\ box' = IF Exists(f) THEN box ELSE box \cup {f}
    /\ tried' = IF Exists(f) THEN tried ELSE tried \cup {p}
    /\ pass' = [pass EXCEPT ![n].todo = @ \ {p}]
    /\ UNCHANGED <<week, status, taken, mishaps>>

PushDone(n) ==
    /\ pass[n].at = "push" /\ pass[n].todo = {}
    /\ pass' = [pass EXCEPT ![n] = NoPass]
    /\ UNCHANGED <<week, box, status, tried, taken, mishaps>>

RetryDue(p) ==
    /\ p \in tried /\ tried' = tried \ {p}
    /\ UNCHANGED <<week, box, status, taken, pass, mishaps>>

-----------------------------------------------------------------------------
(* What goes wrong.                                                        *)

Mishap == mishaps < MaxMishaps /\ mishaps' = mishaps + 1

\* An exception while a frame is handled: quarantine, on to the next one.
Quarantine(n) ==
    /\ Mishap /\ pass[n].at \in {"reply", "consume"}
    /\ box' = box \ pass[n].on
    /\ pass' = [pass EXCEPT ![n] = [@ EXCEPT !.at = "pull", !.left = @ \ pass[n].on, !.on = {}]]
    /\ UNCHANGED <<week, status, tried, taken>>

\* webdav scan: a GET that fails puts a sound frame in quarantine.
Unreadable(n, f) ==
    /\ Mishap /\ pass[n].at = "pull" /\ f \in pass[n].left
    /\ box' = box \ {f}
    /\ pass' = [pass EXCEPT ![n].left = @ \ {f}]
    /\ UNCHANGED <<week, status, tried, taken>>

\* webdav _request: the answer to a PUT is lost and the retry meets 412.
PutAnswerLost(n, p) ==
    /\ Mishap /\ pass[n].at = "push" /\ p \in pass[n].todo
    /\ ~Exists(Framed(n, "packet", p))
    /\ box' = box \cup {Framed(n, "packet", p)}
    /\ pass' = [pass EXCEPT ![n].todo = @ \ {p}]
    /\ UNCHANGED <<week, status, tried, taken>>

\* The pass ends early: the process died, or a call raised.
PassAborts(n) ==
    /\ Mishap /\ pass[n].at # "idle"
    /\ pass' = [pass EXCEPT ![n] = NoPass]
    /\ UNCHANGED <<week, box, status, tried, taken>>

\* The packet expires and its row is purged.
PurgeExpired(p) ==
    /\ status[p] = "pending"
    /\ status' = [status EXCEPT ![p] = "gone"]
    /\ UNCHANGED <<week, box, tried, taken, pass, mishaps>>

\* The clocks are never more than one epoch apart.
Tick(n) ==
    /\ week[n] < MaxWeek /\ week[n] <= week[Other(n)]
    /\ week' = [week EXCEPT ![n] = @ + 1]
    /\ UNCHANGED <<box, status, tried, taken, pass, mishaps>>

Pass(n) ==
    \/ Scan(n) \/ Reply(n) \/ Consume(n) \/ PullDone(n) \/ PushDone(n)
    \/ \E f \in pass[n].left : TakeAck(n, f) \/ TakePacket(n, f)
    \/ \E p \in Loads : Push(n, p)

CarrierNext ==
    \/ \E n \in Parties :
          \/ Pass(n) \/ Quarantine(n) \/ PassAborts(n) \/ Tick(n)
          \/ \E f \in pass[n].left : Unreadable(n, f)
          \/ \E p \in Loads : PutAnswerLost(n, p)
    \/ \E p \in Loads : RetryDue(p) \/ PurgeExpired(p)

\* The carrier loops of node.py run for ever, and a retry falls due.
CarrierFairness ==
    /\ \A n \in Parties : WF_carrierVars(Pass(n))
    /\ \A p \in Loads : WF_carrierVars(RetryDue(p))

CarrierSpec == CarrierInit /\ [][CarrierNext]_carrierVars /\ CarrierFairness

(***************************************************************************)
(* In the end a packet is purged, or acknowledged and truly accepted by    *)
(* the other party: whatever is quarantined by mistake, lost with a dying  *)
(* pass, left in last week's mailbox, or written twice, is sent again      *)
(* under a name that is free.                                              *)
(***************************************************************************)
EventuallyCarried ==
    \A p \in Loads : <>[](status[p] = "gone" \/ (status[p] = "acked" /\ p \in taken))
=============================================================================
