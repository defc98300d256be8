-------------------------------- MODULE MCNode ------------------------------
(***************************************************************************)
(* What a node believes and lets others do, in parts that share no         *)
(* variable: the peer book, companion approvals, the relationship book,    *)
(* the Discord bridge and the keys of control pages.  A behaviour moves    *)
(* one part and leaves the others in an initial state.                     *)
(*                                                                         *)
(* Approvals: the device "d" has sent two decisions on the request "r",    *)
(* one that approves ("p1") and one that rejects ("p2"); both are in the   *)
(* inbox and the group is open.  Relations: the agent "d" is attested by   *)
(* "x"; "x" sends a task and "d" reports its result; the claim "c" is      *)
(* signed by both parties, and so is "g", "e" by its proposer only.        *)
(* Discord: the first message is the bridge's own.  Control pages: a root  *)
(* page "r" with one or two links, of which "a" has links too.             *)
(***************************************************************************)
EXTENDS PeerBook, CompanionApproval, Relations, DiscordSocial, ControlPages

MCSender == [p \in Packets |-> "d"]
MCDevice == [r \in Requests |-> "d"]
MCAnswers == [p \in Packets |-> "r"]
MCVerdict == [p \in Packets |-> IF p = "p2" THEN "rejected" ELSE "approved"]
MCUses == [r \in Requests |-> 1]

MCIssuer == [a \in Actors |-> "x"]
MCFrom == [p \in Traffic |-> IF p = "p2" THEN "d" ELSE "x"]
MCOutcome == [p \in Traffic |-> IF p = "p1" THEN "submitted" ELSE "completed"]
MCClaimPeer == [c \in ClaimIds |-> "x"]
MCClaimCircle == [c \in ClaimIds |-> 2]
MCSigned == [c \in ClaimIds |-> IF c = "e" THEN {"proposer"} ELSE {"proposer", "accepter"}]
MCFriendCode == [a \in Actors |-> IF a = "x" THEN {"invite", "acceptance"} ELSE {}]

MCAuthor == [m \in Messages |-> IF m = 1 THEN Bot ELSE "ann"]
MCEventLabels == [m \in Messages |-> {"interaction:mention"}]
MCAge == [a \in Accounts |-> 1]
MCPolicy == [surface |-> [score |-> 45, confidence |-> 0, labels |-> {}],
             reply |-> [score |-> 60, confidence |-> 25, labels |-> {}]]

PageLinks(urls) == [url : urls, pin : {"", "del"}]
Leaf(signer) == [signer |-> signer, fresh |-> TRUE, delegates |-> {}, links |-> <<>>]
RootPages ==
    {[signer |-> s, fresh |-> TRUE, delegates |-> e, links |-> l] :
        s \in {"", "key"}, e \in {{}, {"del"}},
        l \in {<<x>> : x \in PageLinks({"a"})}
              \cup {<<x, [url |-> "b", pin |-> k]>> : x \in PageLinks({"a"}), k \in {"", "aux"}}}
InnerPages ==
    {[signer |-> s, fresh |-> f, delegates |-> e, links |-> l] :
        s \in {"", "key", "aux", "del"}, f \in BOOLEAN, e \in {{}, {"del"}},
        l \in {<<>>} \cup {<<x>> : x \in PageLinks({"b", "r"})}}
MCWebs == {[u \in Urls |-> IF u = "r" THEN r ELSE IF u = "a" THEN a ELSE b] :
              r \in RootPages, a \in InnerPages, b \in {Leaf(s) : s \in {"", "key", "aux", "del"}}}

VARIABLE part

vars == <<part, bookVars, companionVars, relationVars, discordVars, pageVars>>

\* The inbox holds both decisions, and a command that revokes their sender has
\* the clean-up still to do (no verdict is open that the deny list could change).
Arrived ==
    /\ rowid = [p \in Packets |-> IF p = "p1" THEN 1 ELSE 2]
    /\ trusted = [p \in Packets |-> TRUE]
    /\ opened = TRUE
    /\ startAfter = 0
    /\ state = [p \in Packets |-> "none"]
    /\ live = [p \in Packets |-> FALSE]
    /\ attempts = [p \in Packets |-> 0]
    /\ denied = Senders /\ cleaned = {}
    /\ verdicts = {} /\ overtaken = {}
    /\ seen = Packets
    /\ after = Packets

\* A sync that was refused at its first page.
PagesAtRest ==
    /\ web = [u \in Urls |-> Leaf("")]
    /\ trustedKeys = {} /\ rootPin = "" /\ todo = <<>> /\ visited = {} /\ verdict = "refused"

Init ==
    /\ part \in {"book", "approval", "relations", "discord", "pages"}
    /\ BookInit /\ Arrived /\ ApprovalInit /\ RelationInit /\ DiscordInit
    /\ IF part = "pages" THEN PagesInit ELSE PagesAtRest

\* Bounds that lose nothing but names.  Two servers are alike: "w" takes
\* something up only beside "v".  So are two effects nobody ever ran: "f" is not
\* in hand without "e".  And so are "c" and "g": the first to be stored is "c".
WorksOn(e) == \E v \in Servers : doing[v].op = "begin" /\ doing[v].slot[2] = e
Approving ==
    /\ CompanionNext
    /\ doing["w"] = Idle /\ doing'["w"] # Idle => doing["v"] # Idle
    /\ WorksOn("f")' => runs[<<"r", "e">>] + runs[<<"r", "f">>] > 0 \/ WorksOn("e")'
Relating == RelationNext /\ ("g" \in agreed' => "c" \in agreed')

Next ==
    /\ \/ /\ part = "book" /\ BookNext
          /\ UNCHANGED <<companionVars, relationVars, discordVars, pageVars>>
       \/ /\ part = "approval" /\ Approving
          /\ UNCHANGED <<bookVars, relationVars, discordVars, pageVars>>
       \/ /\ part = "relations" /\ Relating
          /\ UNCHANGED <<bookVars, companionVars, discordVars, pageVars>>
       \/ /\ part = "discord" /\ DiscordNext
          /\ UNCHANGED <<bookVars, companionVars, relationVars, pageVars>>
       \/ /\ part = "pages" /\ PagesNext
          /\ UNCHANGED <<bookVars, companionVars, relationVars, discordVars>>
    /\ UNCHANGED part

Spec == Init /\ [][Next]_vars
=============================================================================
