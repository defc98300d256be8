----------------------------- MODULE DiscordSocial --------------------------
(***************************************************************************)
(* The Discord bridge of a node (discord_social.py, social.py): the poll   *)
(* that reads a channel, stores what it saw, scores its author and queues  *)
(* a signal for another node, and the command that answers a message.      *)
(*                                                                         *)
(* Every statement on discord-social.sqlite3 commits by itself, the node   *)
(* and the commands of the operator are processes of their own, and the    *)
(* two ends of a call of Discord's API are two steps: a process may die,   *)
(* and a call may fail, between any two of them.                           *)
(*                                                                         *)
(* Discord itself is external: a message has a position, collects          *)
(* reactions, may be edited, and a reply with a recent nonce is not posted *)
(* a second time.  Texts are members of a small set, keys the message and  *)
(* revision they are derived from.                                         *)
(***************************************************************************)
EXTENDS Naturals, Integers, Sequences, FiniteSets, FiniteSetsExt

CONSTANTS
    Accounts,       \* authors of messages; Bot, the bridge's own account
    Bot,
    MaxMessage,     \* messages the channel will hold
    Author,         \* [1 .. MaxMessage -> Accounts \cup {Bot}]
    EventLabels,    \* [1 .. MaxMessage -> labels the adapter derives]
    AccountAge,     \* [Accounts -> years since the account was created]
    ManualLabels,   \* labels the operator gives and takes
    Policy,         \* [surface, reply : [score, confidence, labels]]
    Texts,          \* replies the operator may send
    Repliers,       \* processes of the reply command
    PageLimit,      \* messages Discord returns at most (100)
    MaxDelay,       \* longest pause between polls (3600 seconds)
    MaxReactions, MaxPosts, MaxSlips   \* bounds of the environment

Messages == 1 .. MaxMessage
Revisions == {"create", "edit"}
Keys == Messages \X Revisions

VARIABLES
    newest,         \* messages 1 .. newest are in the channel
    reactions,      \* reactions[m]
    revision,       \* revision[m]
    accounts,       \* discord_social_actors: NoActor or its counters
    labels,         \* labels of an actor
    entries,        \* discord_social_events: NoEvent or a row
    cursor,         \* last message the poll has passed
    queued,         \* packets in the outbox for an event
    failures,       \* consecutive failures of the poll
    poll,           \* where the poll of the running node is
    outbound,       \* replies reserved and sent
    posted,         \* replies visible in Discord: text by id
    recent,         \* events whose nonce Discord still remembers
    replier,        \* processes of the reply command
    slips           \* failures and crashes so far

channelVars == <<newest, reactions, revision>>
ledgerVars == <<accounts, entries, cursor, queued>>
replyVars == <<outbound, posted, recent, replier>>
discordVars == <<channelVars, ledgerVars, labels, failures, poll, replyVars, slips>>

NoActor == [mentions |-> 0, replies |-> 0, reactions |-> 0, pinned |-> 0, seen |-> FALSE]
NoEvent == [digest |-> -1, allowed |-> {}, routed |-> 0, reply |-> 0]
NoReply == [text |-> "none", state |-> "none", id |-> 0]
AtRest == [step |-> "idle", page |-> << >>, key |-> <<0, "create">>, wait |-> 0]
NoCommand == [step |-> "idle", key |-> <<0, "create">>, text |-> "none", had |-> 0, id |-> 0]

-----------------------------------------------------------------------------
(* Reputation and policy                                                   *)

AtMost(n, bound) == IF n > bound THEN bound ELSE n
Clamp(n) == IF n < 0 THEN 0 ELSE AtMost(n, 100)

\* What a label of the operator adds to the points and to the confidence.
Weight(label) ==
    CASE label = "community:moderator"  -> <<10, 20>>
      [] label = "relationship:known"   -> <<10, 20>>
      [] label = "relationship:vouched" -> <<30, 50>>
      [] label = "status:verified"      -> <<15, 30>>
      [] label = "risk:concern"         -> <<-30, 30>>
      [] label = "risk:impersonation"   -> <<-80, 80>>
      [] label = "risk:malware"         -> <<-100, 100>>
      [] label = "risk:spam"            -> <<-60, 60>>
      [] label = "risk:block"           -> <<-100, 100>>
      [] OTHER                          -> <<0, 0>>

Points(stats, age) ==
      AtMost(age, 5) + AtMost(2 * stats.mentions, 10) + AtMost(4 * stats.replies, 12)
    + AtMost(stats.reactions, 8) + AtMost(8 * stats.pinned, 16)

Certainty(stats, age) ==
      (IF age > 0 THEN 5 ELSE 0) + AtMost(3 * stats.mentions, 15) + AtMost(5 * stats.replies, 20)
    + AtMost(stats.reactions, 10) + AtMost(10 * stats.pinned, 20)

\* Python's round: to the nearest integer, a half to the even one.
Rounded(hundredths) ==
    LET q == hundredths \div 100
        r == hundredths % 100
    IN  IF r > 50 \/ (r = 50 /\ q % 2 = 1) THEN q + 1 ELSE q

\* The evidence balance, shrunk towards 50 when there is little of it.
score_social_actor(stats, age, manual) ==
    LET raw == Clamp(50 + Points(stats, age) + MapThenSumSet(LAMBDA l : Weight(l)[1], manual))
        confidence == Clamp(Certainty(stats, age) + MapThenSumSet(LAMBDA l : Weight(l)[2], manual))
    IN  [score |-> Rounded(5000 + (raw - 50) * confidence), confidence |-> confidence]

Blocking == {"risk:block", "risk:impersonation", "risk:malware", "risk:spam"}

Passes(threshold, reputation, combined) ==
    /\ reputation.score >= threshold.score
    /\ reputation.confidence >= threshold.confidence
    /\ threshold.labels \subseteq combined

\* Actions the policy allows; amplify and connect_candidate have no effect
\* of their own and are left out.
Allowed(stats, age, manual, derived) ==
    LET reputation == score_social_actor(stats, age, manual)
        combined == manual \cup derived
    IN  IF combined \cap Blocking # {} THEN {}
        ELSE {action \in {"surface", "reply"} :
                \/ action = "surface" /\ Passes(Policy.surface, reputation, combined)
                \/ /\ action = "reply"
                   /\ "interaction:mention" \in combined
                   /\ combined \cap {"actor:bot", "actor:webhook"} = {}
                   /\ Passes(Policy.reply, reputation, combined)}

ThresholdAccepted(t) == t.score \in 0 .. 100 /\ t.confidence \in 0 .. 100

\* A later threshold is never easier to pass than an earlier one.
PolicyAccepted ==
    /\ ThresholdAccepted(Policy.surface) /\ ThresholdAccepted(Policy.reply)
    /\ Policy.surface.score <= Policy.reply.score
    /\ Policy.surface.confidence <= Policy.reply.confidence

ASSUME DiscordAssumption ==
    /\ PolicyAccepted
    /\ MaxMessage \in Nat /\ PageLimit \in Nat \ {0} /\ MaxSlips \in Nat
    /\ Author \in [Messages -> Accounts \cup {Bot}] /\ Bot \notin Accounts

-----------------------------------------------------------------------------
(* The channel and the operator's labels                                   *)

DiscordInit ==
    /\ newest = 0
    /\ reactions = [m \in Messages |-> 0]
    /\ revision = [m \in Messages |-> "create"]
    /\ accounts = [a \in Accounts |-> NoActor]
    /\ labels = [a \in Accounts |-> {}]
    /\ entries = [k \in Keys |-> NoEvent]
    /\ cursor = 0
    /\ queued = [k \in Keys |-> 0]
    /\ failures = 0
    /\ poll = AtRest
    /\ outbound = [k \in Keys |-> NoReply]
    /\ posted = [k \in Keys |-> << >>]
    /\ recent = {}
    /\ replier = [r \in Repliers |-> NoCommand]
    /\ slips = 0

Post ==
    /\ newest < MaxMessage
    /\ newest' = newest + 1
    /\ UNCHANGED <<reactions, revision, ledgerVars, labels, failures, poll, replyVars, slips>>

\* Somebody reacts to a message, or its author edits it.  A message the
\* cursor has passed is never read again and is left alone here.
React(m) ==
    /\ m \in cursor + 1 .. newest
    /\ MapThenSumSet(LAMBDA n : reactions[n], Messages) < MaxReactions
    /\ reactions' = [reactions EXCEPT ![m] = @ + 1]
    /\ UNCHANGED <<newest, revision, ledgerVars, labels, failures, poll, replyVars, slips>>

Edit(m) ==
    /\ m \in cursor + 1 .. newest
    /\ revision[m] = "create"
    /\ revision' = [revision EXCEPT ![m] = "edit"]
    /\ UNCHANGED <<newest, reactions, ledgerVars, labels, failures, poll, replyVars, slips>>

update_labels(a, l) ==
    /\ accounts[a].seen
    /\ labels' = [labels EXCEPT ![a] = IF l \in @ THEN @ \ {l} ELSE @ \cup {l}]
    /\ UNCHANGED <<channelVars, ledgerVars, failures, poll, replyVars, slips>>

-----------------------------------------------------------------------------
(* The poll                                                                *)

Snapshot(m) == [message |-> m, revision |-> revision[m], reactions |-> reactions[m]]
KeyOf(snapshot) == <<snapshot.message, snapshot.revision>>

\* The first messages after the cursor, or the last ones of the channel
\* when there is no cursor yet.
channel_messages ==
    LET first == IF cursor > 0 THEN cursor + 1
                 ELSE IF newest > PageLimit THEN newest - PageLimit + 1 ELSE 1
        last == AtMost(newest, first + PageLimit - 1)
    IN  [i \in 1 .. last + 1 - first |-> Snapshot(first + i - 1)]

\* The pause after a number of failures: doubled each time, up to a limit.
discord_retry_delay(n) == AtMost(2 ^ AtMost(n - 1, 8), MaxDelay)

\* Mutant: a failure of the outbox is logged and the loop goes on.
GoesOn ==
    /\ poll' = IF poll.step = "queue" THEN [poll EXCEPT !.step = "pass"] ELSE AtRest
    /\ UNCHANGED failures

\* poll_once: an exception is counted and delays the next poll.
PollFailure ==
    /\ failures' = AtMost(failures + 1, MaxSlips)
    /\ poll' = [AtRest EXCEPT !.wait = discord_retry_delay(failures')]

\* The head of the page is done with.
NextOfPage ==
    IF Len(poll.page) > 1
    THEN poll' = [poll EXCEPT !.step = "ingest", !.page = Tail(@)] /\ UNCHANGED failures
    ELSE poll' = AtRest /\ failures' = 0

PollStart ==
    /\ poll.step = "idle" /\ poll.wait = 0
    /\ newest > cursor
    /\ poll' = [poll EXCEPT !.step = "ingest", !.page = channel_messages]
    /\ UNCHANGED <<channelVars, ledgerVars, labels, failures, replyVars, slips>>

Pause ==
    /\ poll.step = "idle" /\ poll.wait > 0
    /\ poll' = [poll EXCEPT !.wait = @ - 1]
    /\ UNCHANGED <<channelVars, ledgerVars, labels, failures, replyVars, slips>>

\* Counters of the author after this message.
Counted(stats, snapshot) ==
    LET derived == EventLabels[snapshot.message]
        one(l) == IF l \in derived THEN 1 ELSE 0
    IN  [mentions |-> AtMost(stats.mentions + one("interaction:mention"), 10000),
         replies |-> AtMost(stats.replies + one("interaction:reply"), 10000),
         reactions |-> AtMost(stats.reactions + snapshot.reactions, 1000000),
         pinned |-> AtMost(stats.pinned + one("event:pinned"), 10000),
         seen |-> TRUE]

\* A stored event is used again only with the content it was stored with.
Conflicts(snapshot) ==
    entries[KeyOf(snapshot)] # NoEvent /\ entries[KeyOf(snapshot)].digest # snapshot.reactions

\* The row of a new event, with the verdict of the policy at this moment.
StoredEvent(snapshot, stats) ==
    LET a == Author[snapshot.message]
    IN  [digest |-> snapshot.reactions, routed |-> 0, reply |-> 0,
         allowed |-> Allowed(stats, AccountAge[a], labels[a], EventLabels[snapshot.message])]

Surfaces(event) == "surface" \in event.allowed

\* A stored event goes to the outbox once.
ToRoute(event) == Surfaces(event) /\ event.routed = 0

\* Stores a new event with its author's counters in one transaction.  Then
\* the relationship book is told, whose step is in module Relations and
\* whose failure changes nothing here.
ingest_message ==
    /\ poll.step = "ingest"
    /\ LET snapshot == Head(poll.page)
           k == KeyOf(snapshot)
           a == Author[snapshot.message]
       IN  \/ /\ a = Bot
              /\ poll' = [poll EXCEPT !.step = "pass"]
              /\ UNCHANGED <<accounts, entries, failures>>
           \/ /\ a # Bot /\ Conflicts(snapshot)
              /\ PollFailure
              /\ UNCHANGED <<accounts, entries>>
           \/ /\ a # Bot /\ entries[k] # NoEvent /\ ~Conflicts(snapshot)
              /\ poll' = [poll EXCEPT !.key = k, !.step = IF ToRoute(entries[k]) THEN "queue" ELSE "pass"]
              /\ UNCHANGED <<accounts, entries, failures>>
           \/ /\ a # Bot /\ entries[k] = NoEvent
              /\ LET stats == Counted(accounts[a], snapshot)
                     row == StoredEvent(snapshot, stats)
                 IN  /\ accounts' = [accounts EXCEPT ![a] = stats]
                     /\ entries' = [entries EXCEPT ![k] = row]
                     /\ poll' = [poll EXCEPT !.key = k, !.step = IF ToRoute(row) THEN "queue" ELSE "pass"]
              /\ UNCHANGED failures
    /\ UNCHANGED <<channelVars, cursor, queued, labels, replyVars, slips>>

\* The signal is one more packet in the node's outbox.
queue_discord_signal ==
    /\ poll.step = "queue"
    /\ queued' = [queued EXCEPT ![poll.key] = AtMost(@ + 1, MaxSlips + 1)]
    /\ poll' = [poll EXCEPT !.step = "mark"]
    /\ UNCHANGED <<channelVars, accounts, entries, cursor, labels, failures, replyVars, slips>>

mark_routed ==
    /\ poll.step = "mark"
    /\ entries[poll.key].routed = 0
    /\ entries' = [entries EXCEPT ![poll.key].routed = queued[poll.key]]
    /\ poll' = [poll EXCEPT !.step = "pass"]
    /\ UNCHANGED <<channelVars, accounts, cursor, queued, labels, failures, replyVars, slips>>

update_cursor ==
    /\ poll.step = "pass"
    /\ cursor' = IF Head(poll.page).message > cursor THEN Head(poll.page).message ELSE cursor
    /\ NextOfPage
    /\ UNCHANGED <<channelVars, accounts, entries, queued, labels, replyVars, slips>>

\* A call of Discord or of the node's store fails.
PollFails ==
    /\ slips < MaxSlips
    /\ poll.step \in {"idle", "queue"} /\ poll.wait = 0
    /\ slips' = slips + 1
    /\ PollFailure
    /\ UNCHANGED <<channelVars, ledgerVars, labels, replyVars>>

\* The node dies and is started again; failures is a column of the ledger.
NodeRestart ==
    /\ slips < MaxSlips
    /\ poll # AtRest
    /\ slips' = slips + 1
    /\ poll' = AtRest
    /\ UNCHANGED <<channelVars, ledgerVars, labels, failures, replyVars>>

-----------------------------------------------------------------------------
(* The reply command                                                       *)

\* The policy is asked again, with the labels and counters of today.
ReplyStart(r, k, t) ==
    /\ replier[r].step = "idle"
    /\ entries[k] # NoEvent
    /\ LET a == Author[k[1]]
       IN  "reply" \in Allowed(accounts[a], AccountAge[a], labels[a], EventLabels[k[1]])
    /\ replier' = [replier EXCEPT ![r] =
                     [step |-> "reserve", key |-> k, text |-> t, had |-> entries[k].reply, id |-> 0]]
    /\ UNCHANGED <<channelVars, ledgerVars, labels, failures, poll, outbound, posted, recent, slips>>

\* Mutant: the reservation does not look at the text.
AnyText(row, text) == TRUE

SameText(row, text) == row.text = text

\* Another text for this event, or a reply that is known to be there,
\* ends the command.
reserve_reply(r) ==
    LET me == replier[r]
        row == outbound[me.key]
    IN  /\ me.step = "reserve"
        /\ \/ /\ row = NoReply
              /\ outbound' = [outbound EXCEPT ![me.key] = [text |-> me.text, state |-> "pending", id |-> 0]]
              /\ replier' = [replier EXCEPT ![r].step = "send"]
           \/ /\ row # NoReply /\ SameText(row, me.text) /\ me.had = 0
              /\ replier' = [replier EXCEPT ![r].step = "send"]
              /\ UNCHANGED outbound
           \/ /\ row # NoReply /\ (~SameText(row, me.text) \/ me.had # 0)
              /\ replier' = [replier EXCEPT ![r] = NoCommand]
              /\ UNCHANGED outbound
        /\ UNCHANGED <<channelVars, ledgerVars, labels, failures, poll, posted, recent, slips>>

\* Discord posts the reply, or names the one it posted with this nonce.
send_reply(r) ==
    LET k == replier[r].key
    IN  /\ replier[r].step = "send"
        /\ \/ k \in recent /\ UNCHANGED <<posted, recent>>
           \/ /\ k \notin recent /\ Len(posted[k]) < MaxPosts
              /\ posted' = [posted EXCEPT ![k] = Append(@, replier[r].text)]
              /\ recent' = recent \cup {k}
        /\ replier' = [replier EXCEPT ![r].step = "settle", ![r].id = Len(posted'[k])]
        /\ UNCHANGED <<channelVars, ledgerVars, labels, failures, poll, outbound, slips>>

\* A reply settled with another id is left as it is.
settle_reply(r) ==
    LET me == replier[r]
        row == outbound[me.key]
    IN  /\ me.step = "settle"
        /\ IF row.id \in {0, me.id}
           THEN /\ outbound' = [outbound EXCEPT ![me.key].state = "sent", ![me.key].id = me.id]
                /\ entries' = [entries EXCEPT ![me.key].reply = me.id]
           ELSE UNCHANGED <<outbound, entries>>
        /\ replier' = [replier EXCEPT ![r] = NoCommand]
        /\ UNCHANGED <<channelVars, accounts, cursor, queued, labels, failures, poll,
                       posted, recent, slips>>

\* The command dies, or its call of Discord fails.
ReplyAborts(r) ==
    /\ slips < MaxSlips
    /\ replier[r].step # "idle"
    /\ slips' = slips + 1
    /\ replier' = [replier EXCEPT ![r] = NoCommand]
    /\ UNCHANGED <<channelVars, ledgerVars, labels, failures, poll, outbound, posted, recent>>

NonceForgotten(k) ==
    /\ k \in recent
    /\ recent' = recent \ {k}
    /\ UNCHANGED <<channelVars, ledgerVars, labels, failures, poll, outbound, posted, replier, slips>>

-----------------------------------------------------------------------------
PollStep ==
    PollStart \/ Pause \/ ingest_message \/ queue_discord_signal \/ mark_routed \/ update_cursor

DiscordNext ==
    \/ Post \/ PollStep \/ PollFails \/ NodeRestart
    \/ \E m \in Messages : React(m) \/ Edit(m)
    \/ \E a \in Accounts, l \in ManualLabels : update_labels(a, l)
    \/ \E r \in Repliers :
         \/ \E k \in Keys, t \in Texts : ReplyStart(r, k, t)
         \/ reserve_reply(r) \/ send_reply(r) \/ settle_reply(r) \/ ReplyAborts(r)
    \/ \E k \in Keys : NonceForgotten(k)

DiscordSpec == DiscordInit /\ [][DiscordNext]_discordVars

-----------------------------------------------------------------------------
(* Properties                                                              *)

DiscordTypeOK ==
    /\ newest \in 0 .. MaxMessage /\ cursor \in 0 .. newest
    /\ labels \in [Accounts -> SUBSET ManualLabels]
    /\ recent \subseteq Keys
    /\ poll.step \in {"idle", "ingest", "queue", "mark", "pass"}

\* The cursor rests on a message only when its event is stored and the
\* signal the policy asked for is in the outbox, whatever failed or died on
\* the way, and no event has counted twice for its author (poll_once,
\* ingest_message, mark_routed, update_cursor).
CursorIsEarned ==
    /\ cursor > 0 /\ Author[cursor] # Bot =>
         \E k \in Keys : /\ k[1] = cursor /\ entries[k] # NoEvent
                         /\ Surfaces(entries[k]) => entries[k].routed > 0 /\ queued[k] > 0
    /\ \A a \in Accounts :
         accounts[a].mentions = Cardinality({k \in Keys : /\ entries[k] # NoEvent /\ Author[k[1]] = a
                                                        /\ "interaction:mention" \in EventLabels[k[1]]})

\* Two runs of the reply command, a lost answer or a forgotten nonce never
\* put two different texts under one event, and what the ledger calls the
\* reply is a message Discord shows with the text that was reserved
\* (reserve_reply, settle_reply).
OneReplyText ==
    \A k \in Keys :
      /\ \A i \in DOMAIN posted[k] : posted[k][i] = outbound[k].text
      /\ entries[k].reply > 0 => /\ entries[k].reply \in DOMAIN posted[k]
                                /\ outbound[k].state = "sent" /\ outbound[k].id = entries[k].reply
=============================================================================
