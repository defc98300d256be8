---------------------------- MODULE Disclosures -----------------------------
(***************************************************************************)
(* One disclosure schedule of an observer and what its audience makes of   *)
(* the pages it receives.  The observer's event log is read in pages from  *)
(* a cursor; a runner (the node's loop, or relation-disclosure-            *)
(* schedule-run) persists the page it is about to send, queues it, archives *)
(* it and moves the cursor, always by saving its own copy of the schedule  *)
(* file.  The audience looks at sequence numbers and cursors and says      *)
(* whether the series is continuous; a gap it reports is filled from the   *)
(* archive.  Packets may be lost, duplicated and reordered.                *)
(*                                                                         *)
(* Events are numbered as they are recorded, so that the log is the set of *)
(* the events it holds, in the order of their numbers.                     *)
(***************************************************************************)
EXTENDS Naturals, FiniteSets

CONSTANTS NoPage,
          Runners,       \* processes that may run the schedule
          OutOfScope,    \* events of other subjects than the schedule's
          BatchLimit,    \* batch_limit: activities of one page
          MaxEvents,     \* bound: events the log ever gets
          MaxPrepared,   \* bound: pages prepared
          MaxRewrites    \* bound: saves of the log from an old copy

VARIABLES events,      \* the observer's log, the numbers of its events
          born,        \* event ids handed out
          rewrites,
          schedule,    \* the schedule file
          pastExpiry,  \* expires_ms has passed
          runner,      \* per process: where it is, its log and its schedule
          prepared,    \* pages made; stands for issued_ms
          archived,    \* the archive book
          mail,        \* pages queued
          reported,    \* pages in the audience's book
          notices,     \* gap notices received by the observer
          view         \* what relation-reported-view last showed

disclosureVars == <<events, born, rewrites, schedule, pastExpiry, runner, prepared,
                    archived, mail, reported, notices, view>>

NoSchedule == [state |-> "none", cursor |-> 0, base |-> 0, seq |-> 0, pending |-> NoPage]
NoView == [continuous |-> FALSE, told |-> {}, through |-> 0]
Resting == [at |-> "idle", log |-> {}, copy |-> NoSchedule]

DisclosureInit ==
    /\ events = {} /\ born = 0 /\ rewrites = 0
    /\ schedule = NoSchedule /\ pastExpiry = FALSE
    /\ runner = [q \in Runners |-> Resting]
    /\ prepared = 0 /\ archived = {} /\ mail = {} /\ reported = {} /\ notices = {}
    /\ view = NoView

-----------------------------------------------------------------------------
(* The activity feed (relation_activity.py).                               *)

\* A cursor names the event it stands behind; 0 is the empty cursor.
KnownCursor(log, c) == c = 0 \/ c \in log

InScope(e) == e \notin OutOfScope

\* The activities behind a cursor, as far as an event.
Activities(log, c, e) == {x \in log : c < x /\ x <= e /\ InScope(x)}

\* read: events behind the cursor until the page is full of activities.
EndsPage(log, c, e) ==
    /\ e \in log /\ c < e
    /\ \/ Cardinality(Activities(log, c, e)) = BatchLimit /\ InScope(e)
       \/ Cardinality(Activities(log, c, e)) < BatchLimit /\ \A x \in log : x <= e

NextCursor(log, c) ==
    IF \E e \in log : EndsPage(log, c, e) THEN CHOOSE e \in log : EndsPage(log, c, e) ELSE c

\* RelationshipDisclosure.create_series.
Page(log, s) ==
    LET end == NextCursor(log, s.cursor) IN
    [seq |-> s.seq, after |-> s.cursor, acts |-> Activities(log, s.cursor, end),
     next |-> end, issued |-> prepared + 1]

-----------------------------------------------------------------------------
(* What the audience concludes (reported_relationship_views.py).           *)

SeqsOf(pages) == {p.seq : p \in pages}

\* Missing up to the last sequence number there is.
Missing(pages) == (UNION {0..n : n \in SeqsOf(pages)}) \ SeqsOf(pages)

NeverDuplicates(pages) == FALSE                              \* mutant
Duplicates(pages) == \E p, q \in pages : p # q /\ p.seq = q.seq

BrokenLink(pages) == \E p, q \in pages : q.seq = p.seq + 1 /\ q.after # p.next

\* _analyze_series: "proven-continuous".
Continuous(pages) ==
    pages # {} /\ Missing(pages) = {} /\ ~Duplicates(pages) /\ ~BrokenLink(pages)

\* project: the activities in the order of the series, each once.
Told(pages) == UNION {p.acts : p \in pages}

-----------------------------------------------------------------------------
(* The observer's log.                                                     *)

AppendEvent ==
    /\ born < MaxEvents
    /\ born' = born + 1 /\ events' = events \cup {born + 1}
    /\ UNCHANGED <<rewrites, schedule, pastExpiry, runner, prepared, archived, mail, reported, notices, view>>

\* A process with an old copy of the book, which ends at event k, appends to it
\* and saves it whole.
RewriteLog(k) ==
    /\ born < MaxEvents /\ rewrites < MaxRewrites
    /\ KnownCursor(events, k) /\ \E e \in events : k < e
    /\ born' = born + 1 /\ events' = {e \in events : e <= k} \cup {born + 1}
    /\ rewrites' = rewrites + 1
    /\ UNCHANGED <<schedule, pastExpiry, runner, prepared, archived, mail, reported, notices, view>>

-----------------------------------------------------------------------------
(* The schedule file and its commands.                                     *)

SaveSchedule(s) == schedule' = s

\* relation-disclosure-schedule-add, from the start or from the last event.
CreateSchedule(c) ==
    /\ schedule.state = "none"
    /\ c = 0 \/ (c \in events /\ \A e \in events : e <= c)
    /\ SaveSchedule([NoSchedule EXCEPT !.state = "active", !.cursor = c, !.base = c])
    /\ UNCHANGED <<events, born, rewrites, pastExpiry, runner, prepared, archived, mail, reported, notices, view>>

\* revoke: the pending page is dropped.
RevokeSchedule ==
    /\ schedule.state = "active"
    /\ SaveSchedule([schedule EXCEPT !.state = "revoked", !.pending = NoPage])
    /\ UNCHANGED <<events, born, rewrites, pastExpiry, runner, prepared, archived, mail, reported, notices, view>>

\* state: what the file and the clock say together.
StateOf(s) == IF s.state = "active" /\ pastExpiry THEN "expired" ELSE s.state

ScheduleExpires ==
    /\ StateOf(schedule) = "active" /\ pastExpiry' = TRUE
    /\ UNCHANGED <<events, born, rewrites, schedule, runner, prepared, archived, mail, reported, notices, view>>

-----------------------------------------------------------------------------
(* run_relationship_disclosure_schedules_once.                             *)

At(q, step, s) == runner' = [runner EXCEPT ![q] = [@ EXCEPT !.at = step, !.copy = s]]
Ends(q) == runner' = [runner EXCEPT ![q] = Resting]

\* The log is read once, at the start.
BeginRun(q) ==
    /\ runner[q].at = "idle" /\ schedule.state # "none"
    /\ runner' = [runner EXCEPT ![q] = [Resting EXCEPT !.at = "begun", !.log = events]]
    /\ UNCHANGED <<events, born, rewrites, schedule, pastExpiry, prepared, archived, mail, reported, notices, view>>

\* The schedule is read again; an inactive one is skipped.
ReloadSchedule(q) ==
    /\ runner[q].at = "begun"
    /\ \/ StateOf(schedule) = "active" /\ At(q, "loaded", schedule) /\ UNCHANGED schedule
       \/ StateOf(schedule) = "revoked" /\ Ends(q) /\ UNCHANGED schedule
       \/ /\ StateOf(schedule) = "expired" /\ Ends(q)
          /\ SaveSchedule([schedule EXCEPT !.pending = NoPage])
    /\ UNCHANGED <<events, born, rewrites, pastExpiry, prepared, archived, mail, reported, notices, view>>

\* prepare: the page is on disk before it is sent; a pending one is kept.
Prepare(q) ==
    LET s == runner[q].copy
        page == Page(runner[q].log, s) IN
    /\ runner[q].at = "loaded"
    /\ \/ s.pending # NoPage /\ At(q, "prepared", s) /\ UNCHANGED <<schedule, prepared>>
       \/ /\ s.pending = NoPage /\ KnownCursor(runner[q].log, s.cursor)
          /\ page.next # s.cursor
          /\ prepared < MaxPrepared /\ prepared' = prepared + 1
          /\ At(q, "prepared", [s EXCEPT !.pending = page])
          /\ SaveSchedule([s EXCEPT !.pending = page])
    /\ UNCHANGED <<events, born, rewrites, pastExpiry, archived, mail, reported, notices, view>>

\* record_idle: nothing new, the copy is saved.
NothingNew(q) ==
    LET s == runner[q].copy IN
    /\ runner[q].at = "loaded" /\ s.pending = NoPage
    /\ KnownCursor(runner[q].log, s.cursor) /\ NextCursor(runner[q].log, s.cursor) = s.cursor
    /\ SaveSchedule(s) /\ Ends(q)
    /\ UNCHANGED <<events, born, rewrites, pastExpiry, prepared, archived, mail, reported, notices, view>>

QueuePage(q) ==
    /\ runner[q].at = "prepared"
    /\ mail' = mail \cup {runner[q].copy.pending}
    /\ At(q, "queued", runner[q].copy)
    /\ UNCHANGED <<events, born, rewrites, schedule, pastExpiry, prepared, archived, reported, notices, view>>

\* RelationshipDisclosureArchiveBook.add refuses a second page of a sequence.
Archivable(page) == \A a \in archived : a.seq = page.seq => a = page

ArchivePage(q) ==
    LET page == runner[q].copy.pending IN
    /\ runner[q].at = "queued" /\ Archivable(page)
    /\ archived' = archived \cup {page}
    /\ At(q, "archived", runner[q].copy)
    /\ UNCHANGED <<events, born, rewrites, schedule, pastExpiry, prepared, mail, reported, notices, view>>

\* record_success.
RecordSuccess(q) ==
    LET s == runner[q].copy IN
    /\ runner[q].at = "archived"
    /\ SaveSchedule([s EXCEPT !.cursor = s.pending.next, !.seq = @ + 1, !.pending = NoPage])
    /\ Ends(q)
    /\ UNCHANGED <<events, born, rewrites, pastExpiry, prepared, archived, mail, reported, notices, view>>

\* record_failure: an unknown cursor, no peer to queue to, or an archive
\* that holds another page of this sequence.  The pending page stays.
RecordFailure(q) ==
    LET s == runner[q].copy IN
    /\ \/ runner[q].at = "loaded" /\ s.pending = NoPage /\ ~KnownCursor(runner[q].log, s.cursor)
       \/ runner[q].at = "prepared"
       \/ runner[q].at = "queued" /\ ~Archivable(s.pending)
    /\ SaveSchedule(s) /\ Ends(q)
    /\ UNCHANGED <<events, born, rewrites, pastExpiry, prepared, archived, mail, reported, notices, view>>

RunnerDies(q) ==
    /\ runner[q].at # "idle" /\ Ends(q)
    /\ UNCHANGED <<events, born, rewrites, schedule, pastExpiry, prepared, archived, mail, reported, notices, view>>

-----------------------------------------------------------------------------
(* The audience, and the observer's answer to a gap.                       *)

\* RelationshipDisclosureBook.add, once per disclosure id.
ReceivePage(p) ==
    /\ p \in mail \ reported
    /\ reported' = reported \cup {p}
    /\ UNCHANGED <<events, born, rewrites, schedule, pastExpiry, runner, prepared, archived, mail, notices, view>>

\* relation-reported-view.  Of two last pages the digest decides which one
\* names the cursor.
ShowView ==
    /\ \E last \in reported :
          /\ \A p \in reported : p.seq <= last.seq
          /\ view' = [continuous |-> Continuous(reported), told |-> Told(reported), through |-> last.next]
    /\ UNCHANGED <<events, born, rewrites, schedule, pastExpiry, runner, prepared, archived, mail, reported, notices>>

\* queue_relationship_disclosure_gap_notice, and its receipt.
ReportGap ==
    /\ Missing(reported) # {}
    /\ notices' = notices \cup {Missing(reported)}
    /\ UNCHANGED <<events, born, rewrites, schedule, pastExpiry, runner, prepared, archived, mail, reported, view>>

\* retransmit_relationship_disclosure_gap: the exact archived pages.
Retransmit(n) ==
    /\ n \in notices /\ StateOf(schedule) = "active"
    /\ mail' = mail \cup {p \in archived : p.seq \in n}
    /\ UNCHANGED <<events, born, rewrites, schedule, pastExpiry, runner, prepared, archived, reported, notices, view>>

DisclosureNext ==
    \/ AppendEvent \/ RevokeSchedule \/ ScheduleExpires \/ ShowView \/ ReportGap
    \/ \E k \in 0..(MaxEvents - 1) : RewriteLog(k)
    \/ \E c \in 0..MaxEvents : CreateSchedule(c)
    \/ \E q \in Runners : \/ BeginRun(q) \/ ReloadSchedule(q) \/ Prepare(q) \/ NothingNew(q)
                          \/ QueuePage(q) \/ ArchivePage(q) \/ RecordSuccess(q)
                          \/ RecordFailure(q) \/ RunnerDies(q)
    \/ \E p \in mail : ReceivePage(p)
    \/ \E n \in notices : Retransmit(n)

DisclosureSpec == DisclosureInit /\ [][DisclosureNext]_disclosureVars

(***************************************************************************)
(* A series the audience calls "proven-continuous" tells exactly what the  *)
(* observer's log holds from the schedule's baseline to the cursor of the  *)
(* last page: none is left out and none is added, whichever runners raced, *)
(* died and retried and whatever was lost or repeated on the way.  (A log  *)
(* that was since saved from an old copy may lack the cursor.)             *)
(***************************************************************************)
ProvenContinuous ==
    (view.continuous /\ view.through \in events) =>
        view.told = Activities(events, schedule.base, view.through)
=============================================================================
