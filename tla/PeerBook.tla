------------------------------ MODULE PeerBook ------------------------------
(***************************************************************************)
(* The pinned Peer Cards and the deny ledger of a node (peers.py).  The    *)
(* node daemon, CLI commands and MCP servers are processes with their own  *)
(* in-memory copy of the two files peers.json and revocations.json.  Each  *)
(* file is replaced atomically (atomic_json); a reload reads one after the *)
(* other, a revocation writes one after the other, nothing locks them, and *)
(* a writer saves the copy it has in memory.                               *)
(***************************************************************************)
EXTENDS Naturals, FiniteSets

CONSTANTS
    Cards,      \* node ids of peers
    Procs,      \* processes that open the peer book
    Adders,     \* those that pin cards
    Revokers,   \* those that revoke
    MaxCrashes  \* bound on process deaths

ASSUME BookAssumption ==
    /\ Cards \cap {"closed", "reading", "ready"} = {}
    /\ Adders \subseteq Procs /\ Revokers \subseteq Procs
    /\ MaxCrashes \in Nat

VARIABLES
    peersFile,  \* peers.json
    denyFile,   \* revocations.json
    peers,      \* _peers of each process
    deny,       \* _revocations of each process
    pc,         \* closed, reading, ready, or the card a revocation must remove
    crashes,    \* number of deaths so far
    revoked,    \* history: cards whose deny record was written
    known       \* history: revoked when the process began its last reload

files == <<peersFile, denyFile>>
memory == <<peers, deny>>
bookVars == <<files, memory, pc, crashes, revoked, known>>

\* The tables and local variables hold only values the code can put there.
BookTypeOK ==
    /\ peersFile \subseteq Cards /\ denyFile \subseteq Cards
    /\ peers \in [Procs -> SUBSET Cards] /\ deny \in [Procs -> SUBSET Cards]
    /\ pc \in [Procs -> {"closed", "reading", "ready"} \cup Cards]
    /\ crashes \in 0..MaxCrashes
    /\ revoked \subseteq Cards
    /\ known \in [Procs -> SUBSET Cards]

BookInit ==
    /\ peersFile = {} /\ denyFile = {}
    /\ peers = [w \in Procs |-> {}]
    /\ deny = [w \in Procs |-> {}]
    /\ pc = [w \in Procs |-> "closed"]
    /\ crashes = 0
    /\ revoked = {}
    /\ known = [w \in Procs |-> {}]

\* reload, first half: the deny ledger.
ReloadDeny(w) ==
    /\ pc[w] \in {"closed", "ready"}
    /\ pc' = [pc EXCEPT ![w] = "reading"]
    /\ deny' = [deny EXCEPT ![w] = denyFile]
    /\ known' = [known EXCEPT ![w] = revoked]
    /\ UNCHANGED <<files, peers, crashes, revoked>>

\* A card that the ledger names is skipped, whatever peers.json says.
AllCards(w) == peersFile                                     \* mutant
ReadCards(w) == peersFile \ deny[w]

\* reload, second half: the cards.
ReloadPeers(w) ==
    /\ pc[w] = "reading"
    /\ pc' = [pc EXCEPT ![w] = "ready"]
    /\ peers' = [peers EXCEPT ![w] = ReadCards(w)]
    /\ UNCHANGED <<files, deny, crashes, revoked, known>>

\* add_many: the copy in memory, with the card, replaces the file.  The card is
\* new, or one already pinned whose details changed.
Add(w, c) ==
    /\ pc[w] = "ready"
    /\ c \notin deny[w]
    /\ peers' = [peers EXCEPT ![w] = @ \cup {c}]
    /\ peersFile' = peers'[w]
    /\ UNCHANGED <<denyFile, deny, pc, crashes, revoked, known>>

\* revoke, first half: the deny record is written before the card goes.
RevokeDeny(w, c) ==
    /\ pc[w] = "ready"
    /\ c \in peers[w] /\ c \notin deny[w]
    /\ deny' = [deny EXCEPT ![w] = @ \cup {c}]
    /\ denyFile' = deny'[w]
    /\ pc' = [pc EXCEPT ![w] = c]
    /\ revoked' = revoked \cup {c}
    /\ UNCHANGED <<peersFile, peers, crashes, known>>

\* revoke, second half: the card is removed.
RemainingCards(w) == peers[w] \ {pc[w]}

RevokeCard(w) ==
    /\ pc[w] \in Cards
    /\ peers' = [peers EXCEPT ![w] = RemainingCards(w)]
    /\ peersFile' = peers'[w]
    /\ pc' = [pc EXCEPT ![w] = "ready"]
    /\ UNCHANGED <<denyFile, deny, crashes, revoked, known>>

Crash(w) ==
    /\ pc[w] # "closed"
    /\ crashes < MaxCrashes
    /\ crashes' = crashes + 1
    /\ pc' = [pc EXCEPT ![w] = "closed"]
    /\ peers' = [peers EXCEPT ![w] = {}]
    /\ deny' = [deny EXCEPT ![w] = {}]
    /\ known' = [known EXCEPT ![w] = {}]
    /\ UNCHANGED <<files, revoked>>

BookNext ==
    \/ \E w \in Procs : ReloadDeny(w) \/ ReloadPeers(w) \/ RevokeCard(w) \/ Crash(w)
    \/ \E w \in Adders, c \in Cards : Add(w, c)
    \/ \E w \in Revokers, c \in Cards : RevokeDeny(w, c)

BookSpec == BookInit /\ [][BookNext]_bookVars

\* A process that reloads (peers.require, peers.is_trusted) after a deny record
\* was written does not trust that peer, although processes with stale copies
\* keep writing its card back and any process may die between two writes.
RevokedNeverTrusted ==
    \A w \in Procs : pc[w] = "ready" => peers[w] \cap known[w] = {}
=============================================================================
