----------------------------- MODULE Continuity -----------------------------
(***************************************************************************)
(* The continuity gate (continuity.py) over a supervised node: a challenge *)
(* is written while the supervisor is healthy, and after a restart a       *)
(* verifier turns it into a receipt, once.  Commands are split where they  *)
(* look at files that other processes write; several verifiers may have a  *)
(* copy of one challenge.                                                  *)
(***************************************************************************)
EXTENDS Supervisor, Sequences

CONSTANTS Challenges, Verifiers,
          Materials    \* contents of the protected identity files

VARIABLES material,    \* identity.json and the TLS files
          observed,    \* instance that a command to prepare saw healthy
          challenge,   \* the written challenges
          lapsed,      \* challenges past their expiry
          since,       \* challenges that existed at the last sync
          verifier,    \* what a verifier has found out
          receipts     \* receipts written for a challenge, oldest first

gateVars == <<material, observed, challenge, lapsed, since, verifier, receipts>>
continuityVars == <<supVars, gateVars>>

NoChallenge == [inst |-> 0, material |-> Nothing]
Away == [at |-> "off", c |-> Nothing, inst |-> 0]

GateInit ==
    /\ material \in Materials
    /\ observed = [c \in Challenges |-> 0]
    /\ challenge = [c \in Challenges |-> NoChallenge]
    /\ lapsed = {} /\ since = {}
    /\ verifier = [v \in Verifiers |-> Away]
    /\ receipts = [c \in Challenges |-> <<>>]

\* inspect_supervisor_health.  The process lives unless it is off; a stale
\* heartbeat is a dead or hanging process.
Healthy ==
    /\ health.state = "running" /\ health.synced
    /\ step["sup"] # "off" /\ server.up

\* prepare_continuity: health first, then the hashes and the file.
PrepareInspect(c) ==
    /\ observed[c] = 0 /\ challenge[c] = NoChallenge
    /\ Healthy
    /\ observed' = [observed EXCEPT ![c] = health.inst]
    /\ UNCHANGED <<supVars, material, challenge, lapsed, since, verifier, receipts>>

PrepareWrite(c) ==
    /\ observed[c] # 0 /\ challenge[c] = NoChallenge
    /\ challenge' = [challenge EXCEPT ![c] = [inst |-> observed[c], material |-> material]]
    /\ UNCHANGED <<supVars, material, observed, lapsed, since, verifier, receipts>>

ChallengeLapses(c) ==
    /\ challenge[c] # NoChallenge /\ c \notin lapsed
    /\ lapsed' = lapsed \cup {c}
    /\ UNCHANGED <<supVars, material, observed, challenge, since, verifier, receipts>>

MaterialChanges(m) ==
    /\ m # material
    /\ material' = m
    /\ UNCHANGED <<supVars, observed, challenge, lapsed, since, verifier, receipts>>

\* verify_continuity up to the hashes of the protected files.
VerifyFiles(v, c) ==
    /\ verifier[v] = Away
    /\ challenge[c] # NoChallenge /\ c \notin lapsed
    /\ receipts[c] = <<>>
    /\ challenge[c].material = material
    /\ verifier' = [verifier EXCEPT ![v] = [at |-> "files", c |-> c, inst |-> 0]]
    /\ UNCHANGED <<supVars, material, observed, challenge, lapsed, since, receipts>>

Restarted(c) == health.inst # challenge[c].inst

\* verify_continuity, health and restart: accepted, or an error.
VerifyHealth(v) ==
    LET c == verifier[v].c IN
    /\ verifier[v].at = "files"
    /\ verifier' = [verifier EXCEPT ![v] =
            IF Healthy /\ Restarted(c) /\ c \in since
            THEN [at |-> "health", c |-> c, inst |-> health.inst] ELSE Away]
    /\ UNCHANGED <<supVars, material, observed, challenge, lapsed, since, receipts>>

\* _exclusive_private_json: the receipt is created, never replaced.
Overwrites(c) == TRUE                                        \* mutant
MayCreate(c) == receipts[c] = <<>>

WriteReceipt(v) ==
    LET c == verifier[v].c IN
    /\ verifier[v].at = "health"
    /\ receipts' = IF MayCreate(c)
                   THEN [receipts EXCEPT ![c] = Append(@, verifier[v].inst)]
                   ELSE receipts
    /\ verifier' = [verifier EXCEPT ![v] = Away]
    /\ UNCHANGED <<supVars, material, observed, challenge, lapsed, since>>

\* A verifier is killed.
VerifierDies(v) ==
    /\ verifier[v] # Away
    /\ verifier' = [verifier EXCEPT ![v] = Away]
    /\ UNCHANGED <<supVars, material, observed, challenge, lapsed, since, receipts>>

\* A step of the supervisor; a completed sync is younger than every
\* challenge there is, and a new process has not completed one.
Supervise ==
    /\ SupNext
    /\ since' = IF health'.inst # health.inst THEN {}
                ELSE IF step["sup"] = "done" /\ health' # health
                THEN {c \in Challenges : challenge[c] # NoChallenge}
                ELSE since
    /\ UNCHANGED <<material, observed, challenge, lapsed, verifier, receipts>>

GateNext ==
    \/ \E c \in Challenges : PrepareInspect(c) \/ PrepareWrite(c) \/ ChallengeLapses(c)
    \/ \E m \in Materials : MaterialChanges(m)
    \/ \E v \in Verifiers : \/ \E c \in Challenges : VerifyFiles(v, c)
                            \/ VerifyHealth(v) \/ WriteReceipt(v) \/ VerifierDies(v)

ContinuityNext == Supervise \/ GateNext

ContinuitySpec == SupInit /\ GateInit /\ [][ContinuityNext]_continuityVars

(***************************************************************************)
(* A challenge yields one receipt, however many verifiers hold a copy of   *)
(* it (continuity.py, the exclusive creation of the receipt), and the      *)
(* receipt speaks of a supervisor that began after the one that was seen   *)
(* healthy when the challenge was prepared; that one never comes back.     *)
(***************************************************************************)
ContinuitySound ==
    \A c \in Challenges : receipts[c] # <<>> =>
        /\ Len(receipts[c]) = 1
        /\ receipts[c][1] > challenge[c].inst
        /\ health.inst >= receipts[c][1]
=============================================================================
