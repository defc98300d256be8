----------------------------- MODULE Relations ------------------------------
(***************************************************************************)
(* The relationship book (relations.py) and who writes it: commands load   *)
(* the file, change their copy and save it whole; the node process loads   *)
(* it at its first packet and from then on saves its own copy after every  *)
(* packet (relation_projection.py, node.py), without reading it again.     *)
(* Mutual claims and their withdrawals (relationship_claims.py) share a    *)
(* file of their own, which a command loads and saves whole in the same    *)
(* way; "other" is a second command that uses that file at the same time,  *)
(* by what it does to it.  No file has a lock.                             *)
(***************************************************************************)
EXTENDS Naturals, FiniteSets

CONSTANTS Nobody,
          Actors,
          Issuer,         \* actor -> who attests it; itself, or another actor
          Traffic,        \* packets that may be projected
          From, Outcome,  \* packet -> its actor; what it says of a task
          Directed,       \* packets, mentions and replies: not mere posts
          ClaimIds, ClaimPeer, ClaimCircle,
          SignedBy,       \* claim -> the parties whose signature is on it
          FriendCode,     \* actor -> the codes of it that verify here
          AskedCircles,   \* circles a command may ask for
          Enough,         \* task results on either side a suggestion needs
          MaxSubjects, MaxCommands, MaxNodeDeaths   \* bounds

\* Who signs a claim has a card of its own; a claim is not named like another
\* reason of a circle.
ASSUME RelationAssumption ==
    /\ Issuer \in [Actors -> Actors] /\ From \in [Traffic -> Actors]
    /\ ClaimPeer \in [ClaimIds -> {a \in Actors : Issuer[a] = a}]
    /\ ClaimCircle \in [ClaimIds -> Nat] /\ AskedCircles \subseteq Nat /\ MaxSubjects \in Nat
    /\ ClaimIds \cap {"command", "suggestion", "friend"} = {}

VARIABLES shelf,      \* relationships.json
          mem,        \* per process: its copy and what is left to do
          minted,     \* subject references handed out
          claimFile,  \* relationship_claims.json
          copies,     \* per command: the claims and withdrawals it has loaded
          holders,    \* commands that have loaded them and not saved yet
          agreed,     \* history: claims that were stored
          raced,      \* history: those stored while another command held a copy
          commands, nodeDeaths   \* counters of the bounds

claimVars == <<claimFile, copies, holders, agreed, raced>>
relationVars == <<shelf, mem, minted, claimVars, commands, nodeDeaths>>

Refs == 1..MaxSubjects

NoRelation == [circle |-> 0, state |-> "none", trust |-> FALSE, why |-> {}]
EmptyBook ==
    [actor |-> [a \in Actors |-> "none"],
     subject |-> [r \in Refs |-> "none"],
     links |-> [r \in Refs |-> {}],
     rel |-> [r \in Refs |-> NoRelation],
     seen |-> {}, moves |-> {}, decided |-> {}, noted |-> {}]

NoClaims == [claims |-> {}, withdrawn |-> {}]
ClaimCommands == {"cli", "other"}

NoBook == [at |-> "off", book |-> EmptyBook, on |-> Nobody, ref |-> 0]

RelationInit ==
    /\ shelf = EmptyBook
    /\ mem = [q \in {"cli", "node"} |-> NoBook]
    /\ minted = 0 /\ agreed = {} /\ raced = {}
    /\ claimFile = NoClaims /\ copies = [q \in ClaimCommands |-> NoClaims] /\ holders = {}
    /\ commands = 0 /\ nodeDeaths = 0

-----------------------------------------------------------------------------
(* The book as a value: what one method makes of it.                       *)

Observed(b) == {a \in Actors : b.actor[a] # "none"}
Subjects(b) == {r \in Refs : b.subject[r] # "none"}
ActiveOnes(b) == {r \in Refs : b.subject[r] = "active"}

\* A subject that primary_subject may pick: which of several is decided by
\* the confidence of the links, the clock and the random reference.
Primary(b, a) == {r \in ActiveOnes(b) : a \in b.links[r]}

\* observe_typed_actor: an issuer other than the actor must be known.
AnyIssuer(b, a) == TRUE                                      \* mutant
KnownIssuer(b, a) == Issuer[a] = a \/ b.actor[Issuer[a]] # "none"

\* observe_typed_actor; a known actor is refreshed, which adds no state here.
Observe(b, a, r) ==
    IF b.actor[a] # "none" THEN b
    ELSE [b EXCEPT !.actor[a] = "active", !.subject[r] = "active",
                   !.links[r] = {a},
                   !.rel[r] = [NoRelation EXCEPT !.state = "active"]]

\* set_circle: also what reopens a relationship.
SetCircle(b, r, c, why) ==
    [b EXCEPT !.rel[r] = [circle |-> c, state |-> "active", trust |-> b.rel[r].trust,
                          why |-> b.rel[r].why \cup why]]

\* set_context_trust.
SetTrust(b, r) == [b EXCEPT !.rel[r] = [b.rel[r] EXCEPT !.trust = TRUE]]

\* InteractionEvidence: the packet and the subject it is evidence of.
Interaction(p, r) == <<p, r>>

\* record_interaction, once per packet.
RecordOnce(b, p, r) ==
    IF \E s \in b.seen : s[1] = p THEN b
    ELSE [b EXCEPT !.seen = @ \cup {Interaction(p, r)}]

\* _replacement_relationship.
Replacement(b, heir) ==
    IF heir = 0 THEN [NoRelation EXCEPT !.circle = 1, !.state = "active"]
    ELSE b.rel[heir]

\* SubjectTransition.
Move(from, to) == [from |-> from, to |-> to]

\* _commit_subject_transition: parts says which actors each new subject has.
ReplaceSubjects(b, from, parts, heir) ==
    [b EXCEPT !.subject = [r \in Refs |-> IF r \in from THEN "superseded"
                                          ELSE IF r \in DOMAIN parts THEN "active" ELSE @[r]],
              !.links = [r \in Refs |-> IF r \in DOMAIN parts THEN parts[r] ELSE @[r]],
              !.rel = [r \in Refs |->
                  IF r \in DOMAIN parts THEN Replacement(b, heir[r])
                  ELSE IF r \in from /\ @[r].state = "active"
                  THEN [@[r] EXCEPT !.state = "dormant"] ELSE @[r]],
              !.moves = @ \cup {Move(from, DOMAIN parts)}]

\* The suggestions of relation_advisor.py.  Their identity is a digest of
\* the interactions they rest on, so new evidence makes a new suggestion.
Basis(b, r, outcomes) == {s[1] : s \in {t \in b.seen : t[2] = r /\ Outcome[t[1]] \in outcomes}}
CountResults(b, r, outcome) == Cardinality(Basis(b, r, {outcome}))

\* _build.
Suggest(b, kind, r, outcomes) == [kind |-> kind, ref |-> r, basis |-> Basis(b, r, outcomes)]

\* _circle_suggestion: both sides have asked for and completed work.
CircleSuggestions(b) ==
    {Suggest(b, "circle", r, {"submitted", "completed"}) :
        r \in {r \in ActiveOnes(b) : /\ b.rel[r].state = "active" /\ b.rel[r].circle = 1
                                     /\ CountResults(b, r, "submitted") >= Enough
                                     /\ CountResults(b, r, "completed") >= Enough}}

\* _task_delivery_suggestion.
TrustSuggestions(b) ==
    {Suggest(b, "trust", r, {"completed"}) :
        r \in {r \in ActiveOnes(b) : /\ b.rel[r].state = "active" /\ ~b.rel[r].trust
                                     /\ CountResults(b, r, "completed") >= Enough}}

\* advise: what has been decided is not suggested again.
Suggestions(b) ==
    {s \in CircleSuggestions(b) \cup TrustSuggestions(b) : \A d \in b.decided : d.what # s}

\* SuggestionDecision.
Decision(s, how) == [what |-> s, how |-> how]

\* decide_suggestion.
Decide(b, s, how) ==
    LET told == [b EXCEPT !.decided = @ \cup {Decision(s, how)}] IN
    IF how = "rejected" THEN told
    ELSE IF s.kind = "circle" THEN SetCircle(told, s.ref, 2, {"suggestion"})
    ELSE SetTrust(told, s.ref)

\* _validate_model, which every reload and every transition applies: actors
\* with their issuers and subjects, relationships, evidence, transitions that
\* lead nowhere twice and never back, decisions.
ActorsPlaced(b) ==
    /\ \A a \in Observed(b) : Issuer[a] \in Observed(b) /\ Primary(b, a) # {}
    /\ \A r \in Refs : b.links[r] \subseteq Observed(b)
RelationsMatch(b) == \A r \in Refs : b.rel[r].state # "none" <=> r \in Subjects(b)
EvidenceLinked(b) == \A s \in b.seen : From[s[1]] \in b.links[s[2]]
MovesEnd(b) ==
    \A m \in b.moves : /\ \A r \in m.from : b.subject[r] = "superseded"
                       /\ m.to \subseteq Subjects(b)
NoWayBack(moves) ==
    /\ \A m, n \in moves : m # n => m.from \cap n.from = {} /\ m.to \cap n.to = {}
    /\ ~\E loop \in SUBSET Refs :
           /\ loop # {}
           /\ \A r \in loop : \E m \in moves : r \in m.from /\ m.to \cap loop # {}
DecidedOnce(b) ==
    /\ \A d, e \in b.decided : d.what = e.what => d = e
    /\ \A d \in b.decided : d.what.ref \in Subjects(b)

Valid(b) ==
    /\ ActorsPlaced(b) /\ RelationsMatch(b) /\ EvidenceLinked(b)
    /\ MovesEnd(b) /\ NoWayBack(b.moves) /\ DecidedOnce(b)

-----------------------------------------------------------------------------
(* Processes.                                                              *)

\* A process that has changed its copy saves all of it.
SaveBook(q, b, rest) ==
    /\ shelf' = b
    /\ mem' = [mem EXCEPT ![q] = [rest EXCEPT !.book = b]]

BookClosed == NoBook
BookOpen == [NoBook EXCEPT !.at = "idle"]

\* RelationshipBook(path) of a command.
OpenBook ==
    /\ mem["cli"].at = "off" /\ commands < MaxCommands
    /\ mem' = [mem EXCEPT !["cli"] = [BookOpen EXCEPT !.book = shelf]]
    /\ commands' = commands + 1
    /\ UNCHANGED <<shelf, minted, claimVars, nodeDeaths>>

\* A command that saves once.
Commits(b) ==
    /\ mem["cli"].at = "idle"
    /\ SaveBook("cli", b, BookClosed)
    /\ UNCHANGED <<claimVars, commands, nodeDeaths>>

CommitsQuietly(b) == Commits(b) /\ UNCHANGED minted

\* relation-observe-actor.
ObserveActor(a) ==
    /\ mem["cli"].at = "idle" /\ KnownIssuer(mem["cli"].book, a)
    /\ minted < MaxSubjects /\ minted' = minted + 1
    /\ Commits(Observe(mem["cli"].book, a, minted + 1))

\* relation-circle; the subject may be superseded.
Circle(r, c) ==
    /\ r \in Subjects(mem["cli"].book)
    /\ CommitsQuietly(SetCircle(mem["cli"].book, r, c, {"command"}))

\* relation-trust.
Trust(r) ==
    /\ r \in Subjects(mem["cli"].book)
    /\ CommitsQuietly(SetTrust(mem["cli"].book, r))

\* relation-end and relation-pause.
SetState(r, s) ==
    LET b == mem["cli"].book
        old == b.rel[r] IN
    /\ r \in Subjects(b)
    /\ s \in {"dormant", "ended"} /\ old.state # s
    /\ ~(s = "dormant" /\ old.state = "ended")
    /\ CommitsQuietly([b EXCEPT !.rel[r] = [old EXCEPT !.state = s]])

\* relation-link.
LinkActor(a, r) ==
    /\ a \in Observed(mem["cli"].book) /\ r \in ActiveOnes(mem["cli"].book)
    /\ CommitsQuietly([mem["cli"].book EXCEPT !.links[r] = @ \cup {a}])

\* peer-revoke and relation-actor-revoke.
RevokeActor(a) ==
    /\ mem["cli"].book.actor[a] = "active"
    /\ CommitsQuietly([mem["cli"].book EXCEPT !.actor[a] = "revoked"])

\* A transition is saved when the model it leads to is valid.
Transition(from, parts, heir) ==
    LET b == ReplaceSubjects(mem["cli"].book, from, parts, heir) IN
    /\ from \subseteq ActiveOnes(mem["cli"].book)
    /\ minted + Cardinality(DOMAIN parts) <= MaxSubjects
    /\ minted' = minted + Cardinality(DOMAIN parts)
    /\ Valid(b) /\ Commits(b)

\* supersede_subject.
Supersede(r) ==
    Transition({r}, [n \in {minted + 1} |-> mem["cli"].book.links[r]], [n \in {minted + 1} |-> r])

\* merge_subjects; the heir is optional.
Merge(from, heir) ==
    /\ Cardinality(from) > 1 /\ heir \in from \cup {0}
    /\ Transition(from, [n \in {minted + 1} |-> UNION {mem["cli"].book.links[r] : r \in from}],
                  [n \in {minted + 1} |-> heir])

\* split_subject: an exact partition, of which one part may inherit.
Split(r, part, heir) ==
    LET rest == mem["cli"].book.links[r] \ part
        new == {minted + 1, minted + 2} IN
    /\ part # {} /\ rest # {} /\ part \subseteq mem["cli"].book.links[r]
    /\ Transition({r}, [n \in new |-> IF n = minted + 1 THEN part ELSE rest],
                  [n \in new |-> IF n = minted + 1 THEN heir ELSE 0])

\* relation-decide: the decision manager recomputes the suggestions.
DecideSuggestion(s, how) ==
    /\ s \in Suggestions(mem["cli"].book) /\ how \in {"accepted", "rejected"}
    /\ CommitsQuietly(Decide(mem["cli"].book, s, how))

\* confirm_friend and confirm_mutual_relationship, first save: the actor.
\* "why" is the claim, or "friend" for a scanned friend code.
Confirm(step, a, why) ==
    LET b == mem["cli"].book
        new == b.actor[a] = "none" IN
    /\ mem["cli"].at = step /\ Issuer[a] = a
    /\ \E r \in IF new THEN {minted + 1} ELSE Primary(b, a) :
          /\ r <= MaxSubjects
          /\ why \in b.rel[r].why \cap ClaimIds
                => mem' = [mem EXCEPT !["cli"] = BookClosed] /\ UNCHANGED shelf
          /\ why \notin b.rel[r].why \cap ClaimIds
                => SaveBook("cli", Observe(b, a, r),
                        [at |-> "circle", book |-> b, on |-> why, ref |-> r])
    /\ minted' = IF new THEN minted + 1 ELSE minted
    /\ UNCHANGED <<claimVars, commands, nodeDeaths>>

\* FriendInvite.verify, and FriendAcceptance.verify of our own invitation.
Invited(a) == "invite" \in FriendCode[a]
Answered(a) == "acceptance" \in FriendCode[a]

\* friend-scan of an invitation, after the answer to it was written.
ScanInvite(a) == Invited(a) /\ Confirm("idle", a, "friend")

\* friend-scan of the acceptance that came back.
ScanAcceptance(a) == Answered(a) /\ Confirm("idle", a, "friend")

\* RelationshipClaimBook(path).
LoadClaims(q) ==
    /\ q \notin holders
    /\ holders' = holders \cup {q}
    /\ copies' = [copies EXCEPT ![q] = claimFile]
    /\ UNCHANGED <<claimFile, agreed, raced>>

\* The command does not use its copy again.
CloseClaims(q) ==
    /\ holders' = holders \ {q}
    /\ copies' = [copies EXCEPT ![q] = NoClaims]

\* RelationshipProposal.verify and MutualRelationshipClaim.verify.
Proposed(c) == "proposer" \in SignedBy[c]
Countersigned(c) == Proposed(c) /\ "accepter" \in SignedBy[c]

\* RelationshipClaimBook.add: the copy with the claim replaces the file, unless
\* the copy has the claim.
StoresLater(q, c) == claimFile                               \* mutant
Filed(q, c) ==
    IF c \in copies[q].claims THEN claimFile ELSE [copies[q] EXCEPT !.claims = @ \cup {c}]

AddClaim(q, c) ==
    /\ q \in holders /\ Countersigned(c)
    /\ claimFile' = Filed(q, c)
    /\ agreed' = agreed \cup {c}
    /\ raced' = IF c \in copies[q].claims \/ holders = {q} THEN raced ELSE raced \cup {c}
    /\ CloseClaims(q)

\* RelationshipClaimBook.add_withdrawal: of a claim in the copy, by one of its
\* parties.
Withdrawable(q, c) == c \in copies[q].claims /\ SignedBy[c] # {}

AddWithdrawal(q, c) ==
    /\ q \in holders /\ Withdrawable(q, c)
    /\ claimFile' = IF c \in copies[q].withdrawn THEN claimFile
                    ELSE [copies[q] EXCEPT !.withdrawn = @ \cup {c}]
    /\ CloseClaims(q)
    /\ UNCHANGED <<agreed, raced>>

\* A command about a claim loads the claims first; once it has stored what it
\* brings, it opens the book.
OpenClaims ==
    /\ mem["cli"].at = "idle" /\ LoadClaims("cli")
    /\ mem' = [mem EXCEPT !["cli"] = [@ EXCEPT !.at = "claims"]]
    /\ UNCHANGED <<shelf, minted, commands, nodeDeaths>>

OpenAfterwards(c, step) ==
    /\ mem["cli"].at = "claims"
    /\ mem' = [mem EXCEPT !["cli"] = [@ EXCEPT !.at = step, !.on = c, !.book = shelf]]
    /\ UNCHANGED <<shelf, minted, commands, nodeDeaths>>

\* relation-accept signs an open proposal; relation-import brings the claim
\* back to the proposer (_project_mutual_relationship_claim).
StoreClaim(c) == AddClaim("cli", c) /\ OpenAfterwards(c, "claim")

\* relation-claim-withdraw and its import (_record_mutual_relationship_withdrawal).
StoreWithdrawal(c) == AddWithdrawal("cli", c) /\ OpenAfterwards(c, "withdrawal")

\* The same two steps of the other command.
OtherOpensClaims ==
    /\ commands < MaxCommands /\ commands' = commands + 1
    /\ LoadClaims("other")
    /\ UNCHANGED <<shelf, mem, minted, nodeDeaths>>

OtherStores(c) ==
    /\ AddClaim("other", c) \/ AddWithdrawal("other", c)
    /\ UNCHANGED <<shelf, mem, minted, commands, nodeDeaths>>

ImportClaim(c) == mem["cli"].on = c /\ Confirm("claim", ClaimPeer[c], c)

\* The second save: a circle is never lowered.
ConfirmCircle ==
    LET m == mem["cli"]
        asked == IF m.on \in ClaimIds THEN ClaimCircle[m.on] ELSE 3
        had == m.book.rel[m.ref].circle IN
    /\ m.at = "circle"
    /\ SaveBook("cli", SetCircle(m.book, m.ref, IF had >= asked THEN had ELSE asked, {m.on}), BookClosed)
    /\ UNCHANGED <<minted, claimVars, commands, nodeDeaths>>

\* record_mutual_relationship_withdrawal: an event, the estimate stays.
NoteWithdrawal ==
    LET m == mem["cli"]
        new == m.book.actor[ClaimPeer[m.on]] = "none" IN
    /\ m.at = "withdrawal"
    /\ ~new \/ minted < MaxSubjects
    /\ minted' = IF new THEN minted + 1 ELSE minted
    /\ SaveBook("cli", [Observe(m.book, ClaimPeer[m.on], minted + 1) EXCEPT !.noted = @ \cup {m.on}], BookClosed)
    /\ UNCHANGED <<claimVars, commands, nodeDeaths>>

\* A command ends without a further save, on an error or killed.
CommandEnds ==
    /\ mem["cli"].at # "off"
    /\ mem' = [mem EXCEPT !["cli"] = NoBook]
    /\ CloseClaims("cli")
    /\ UNCHANGED <<shelf, minted, claimFile, agreed, raced, commands, nodeDeaths>>

\* The node opens the book once (_ensure_relationship_projectors).
NodeOpens ==
    /\ mem["node"].at = "off"
    /\ mem' = [mem EXCEPT !["node"] = [BookOpen EXCEPT !.book = shelf]]
    /\ UNCHANGED <<shelf, minted, claimVars, commands, nodeDeaths>>

\* The subject of a sender, a new one if need be.
Projects(p) ==
    LET b == mem["node"].book
        new == Primary(b, From[p]) = {} IN
    /\ mem["node"].at = "idle"
    /\ ~new \/ (minted < MaxSubjects /\ KnownIssuer(b, From[p]))
    /\ \E r \in IF new THEN {minted + 1} ELSE Primary(b, From[p]) :
          IF new
          THEN SaveBook("node", Observe(b, From[p], r), [NoBook EXCEPT !.at = "record", !.on = p, !.ref = r])
          ELSE /\ mem' = [mem EXCEPT !["node"] = [@ EXCEPT !.at = "record", !.on = p, !.ref = r]]
               /\ UNCHANGED shelf
    /\ minted' = IF new THEN minted + 1 ELSE minted
    /\ UNCHANGED <<claimVars, commands, nodeDeaths>>

\* project_packet: the actor is the peer that sent the packet.
ProjectPacket(p) == Issuer[From[p]] = From[p] /\ Projects(p)

\* project_signal: the actor is an account that an observed bridge attests.
ProjectSignal(p) ==
    /\ Issuer[From[p]] # From[p] /\ Primary(mem["node"].book, Issuer[From[p]]) # {}
    /\ Projects(p)

ProjectRecord ==
    LET m == mem["node"] IN
    /\ m.at = "record"
    /\ IF RecordOnce(m.book, m.on, m.ref) # m.book
       THEN SaveBook("node", RecordOnce(m.book, m.on, m.ref), [m EXCEPT !.at = "raise"])
       ELSE mem' = [mem EXCEPT !["node"] = [m EXCEPT !.at = "raise"]] /\ UNCHANGED shelf
    /\ UNCHANGED <<minted, claimVars, commands, nodeDeaths>>

\* Only an active relationship in the outermost circle becomes "known".
Stranger(rel) == rel.state = "active" /\ rel.circle = 0

ProjectCircle ==
    LET m == mem["node"] IN
    /\ m.at = "raise"
    /\ IF Stranger(m.book.rel[m.ref]) /\ m.on \in Directed
       THEN SaveBook("node", SetCircle(m.book, m.ref, 1, {}), BookOpen)
       ELSE mem' = [mem EXCEPT !["node"] = [BookOpen EXCEPT !.book = m.book]] /\ UNCHANGED shelf
    /\ UNCHANGED <<minted, claimVars, commands, nodeDeaths>>

NodeDies ==
    /\ mem["node"].at # "off" /\ nodeDeaths < MaxNodeDeaths
    /\ mem' = [mem EXCEPT !["node"] = NoBook]
    /\ nodeDeaths' = nodeDeaths + 1
    /\ UNCHANGED <<shelf, minted, claimVars, commands>>

CommandNext ==
    \/ OpenBook \/ ConfirmCircle \/ NoteWithdrawal \/ CommandEnds
    \/ \E a \in Actors : ObserveActor(a) \/ RevokeActor(a) \/ ScanInvite(a) \/ ScanAcceptance(a)
    \/ \E r \in Refs :
          \/ Trust(r) \/ Supersede(r)
          \/ \E c \in AskedCircles : Circle(r, c)
          \/ \E s \in {"dormant", "ended"} : SetState(r, s)
          \/ \E a \in Actors : LinkActor(a, r)
          \/ \E part \in SUBSET Actors, heir \in {0, r} : Split(r, part, heir)
    \/ \E from \in SUBSET Refs, heir \in Refs \cup {0} : Merge(from, heir)
    \/ \E s \in Suggestions(mem["cli"].book), how \in {"accepted", "rejected"} :
          DecideSuggestion(s, how)
    \/ OpenClaims \/ OtherOpensClaims
    \/ \E c \in ClaimIds : StoreClaim(c) \/ ImportClaim(c) \/ StoreWithdrawal(c) \/ OtherStores(c)

ProjectionNext ==
    \/ NodeOpens \/ ProjectRecord \/ ProjectCircle \/ NodeDies
    \/ \E p \in Traffic : ProjectPacket(p) \/ ProjectSignal(p)

RelationNext == CommandNext \/ ProjectionNext

RelationSpec == RelationInit /\ [][RelationNext]_relationVars

(***************************************************************************)
(* Whatever is saved can be loaded again (relations.py and                 *)
(* relationship_claims.py, reload): save does not validate, and a book     *)
(* that reload refuses is lost to every command and to the node.           *)
(***************************************************************************)
BookReloads ==
    /\ Valid(shelf) /\ \A q \in DOMAIN mem : Valid(mem[q].book)
    /\ claimFile.withdrawn \subseteq claimFile.claims

(***************************************************************************)
(* A circle beyond "known" has a reason in the relationship that shows it: *)
(* packets alone never lead there (docs/RELATIONS_V1.md, circles), whoever *)
(* writes the file from an old copy; and a reason that is a mutual claim   *)
(* has both signatures and is on file, also when commands died between the *)
(* two files or another command saved the claims over it from a copy of    *)
(* its own.  The exception is a claim stored while another command held a  *)
(* copy without it: only that copy can make the file forget the claim.     *)
(***************************************************************************)
CircleIsEarned ==
    \A r \in Refs :
        /\ shelf.rel[r].circle > 1 => shelf.rel[r].why # {}
        /\ \A c \in shelf.rel[r].why \cap ClaimIds :
              Countersigned(c) /\ (c \in claimFile.claims \/ c \in raced)
=============================================================================
