---------------------------- MODULE ControlPages ----------------------------
(***************************************************************************)
(* How a control page and the sources nested in it are verified before     *)
(* anything of them is applied (remote_control.py, _normalise_document).   *)
(* Pages name other pages, with or without a pinned publisher; the signed  *)
(* root page may delegate publisher keys of its own.  The code descends    *)
(* recursively and gives up at the first page it refuses; here the calls   *)
(* that are still to be made form a stack of frames.                       *)
(*                                                                         *)
(* A page is a record: who signed it ("" if nobody did), whether the       *)
(* signature holds today, the keys it delegates and the pages it names.    *)
(***************************************************************************)
EXTENDS Naturals, Sequences, SequencesExt, FiniteSets

CONSTANTS Urls, RootUrl,
          LocalKeys,       \* candidates for remote-control.json trusted_keys
          DelegateKeys,    \* keys a page may delegate
          MaxPageDepth, MaxPageCount,
          Webs             \* the page graphs to look at

PageKeys == LocalKeys \cup DelegateKeys

Link == [url : Urls, pin : PageKeys \cup {""}]
Page == [signer : PageKeys \cup {""}, fresh : BOOLEAN, delegates : SUBSET PageKeys, links : Seq(Link)]

ASSUME PagesAssumption ==
    /\ RootUrl \in Urls /\ "" \notin PageKeys
    /\ MaxPageDepth \in Nat /\ MaxPageCount \in Nat
    /\ \A w \in Webs : w \in [Urls -> Page]

VARIABLES web,       \* what each URL serves
          trustedKeys,   \* local trusted_keys
          rootPin,   \* local root_key_id, or ""
          todo,      \* frames still to be visited, the next one first
          visited,   \* pages that were merged
          verdict

pageVars == <<web, trustedKeys, rootPin, todo, visited, verdict>>

Frame(url, pin, keys, depth) == [url |-> url, pin |-> pin, keys |-> keys, depth |-> depth]

\* _load_control_settings, _expected_root_key_id and the outermost call.
PagesInit ==
    /\ web \in Webs
    /\ trustedKeys \in SUBSET LocalKeys
    /\ rootPin \in trustedKeys \cup {""}
    /\ todo = <<Frame(RootUrl, rootPin, trustedKeys, 0)>>
    /\ visited = {}
    /\ verdict = "open"

\* _verify_control_page and _validate_control_window.
SignatureHolds(f) ==
    LET pg == web[f.url] IN
    IF pg.signer = "" THEN f.keys = {}
                      ELSE pg.signer \in f.keys /\ pg.fresh

\* A pinned source is approved by the keys in force and signed by its pin.
PinHolds(f) == f.pin # "" => f.pin \in f.keys /\ web[f.url].signer = f.pin

\* control_publishers: only in a signed root page, and no local key again.
DelegationHolds(f) ==
    LET pg == web[f.url] IN
    pg.delegates # {} => /\ f.depth = 0
                         /\ pg.signer # ""
                         /\ pg.delegates \cap f.keys = {}

WithinLimits(f) ==
    /\ f.depth <= MaxPageDepth
    /\ f.url \in visited \/ Cardinality(visited) < MaxPageCount

PageAccepted(f) ==
    WithinLimits(f) /\ SignatureHolds(f) /\ PinHolds(f) /\ DelegationHolds(f)

\* Keys delegated by the root page are in force for pinned sources only.
AllKeys(keys, pin) == keys                                   \* mutant
KeysFor(keys, pin) == IF pin = "" THEN keys \ web[RootUrl].delegates ELSE keys

Nested(f) ==
    LET pg == web[f.url]
        keys == f.keys \cup pg.delegates
    IN [i \in DOMAIN pg.links |->
            Frame(pg.links[i].url, pg.links[i].pin,
                  KeysFor(keys, pg.links[i].pin), f.depth + 1)]

VisitPage ==
    /\ verdict = "open" /\ todo # <<>>
    /\ LET f == Head(todo) IN
       IF ~PageAccepted(f)
       THEN verdict' = "refused" /\ UNCHANGED <<todo, visited>>
       ELSE /\ visited' = visited \cup {f.url}
            /\ todo' = IF f.url \in visited THEN Tail(todo) ELSE Nested(f) \o Tail(todo)
            /\ UNCHANGED verdict
    /\ UNCHANGED <<web, trustedKeys, rootPin>>

AcceptDocument ==
    /\ verdict = "open" /\ todo = <<>>
    /\ verdict' = "accepted"
    /\ UNCHANGED <<web, trustedKeys, rootPin, todo, visited>>

PagesNext == VisitPage \/ AcceptDocument

PagesSpec == PagesInit /\ [][PagesNext]_pageVars

PagesTypeOK ==
    /\ visited \subseteq Urls /\ trustedKeys \subseteq LocalKeys
    /\ verdict \in {"open", "refused", "accepted"}

(***************************************************************************)
(* In an accepted composition every source has a publisher the operator    *)
(* answers for (src/docs/CONTROL_SOURCE_PINS_V1.md): a source that is      *)
(* named with a pin is signed by that key, which is local or delegated by  *)
(* the root; any other is signed by a local key; only the root delegates;  *)
(* with no local keys nothing is signed.  The root has the local root key. *)
(***************************************************************************)
SourcesVouchedFor ==
    verdict = "accepted" =>
        LET root == web[RootUrl]
            signer(u) == web[u].signer
        IN /\ rootPin # "" => root.signer = rootPin
           /\ \A u \in visited : signer(u) # "" => web[u].fresh
           /\ \A u \in visited \ {RootUrl} : web[u].delegates = {}
           /\ IF trustedKeys = {} THEN \A u \in visited : signer(u) = ""
              ELSE /\ root.signer \in trustedKeys
                   /\ \A u \in visited : \A i \in DOMAIN web[u].links :
                        LET l == web[u].links[i] IN
                        IF l.pin = "" THEN signer(l.url) \in trustedKeys
                        ELSE signer(l.url) = l.pin /\ l.pin \in trustedKeys \cup root.delegates
=============================================================================
