SPECIFICATION Spec
CONSTANTS
    Cards = {"x", "y"}
    Procs = {"daemon", "cli", "pairing"}
    Adders = {"cli", "pairing"}
    Revokers = {"cli"}
    MaxCrashes = 1
    Packets = {"p1", "p2"}
    Matching = {"p1", "p2"}
    Transient = {}
    IncludeTransient = FALSE
    Senders = {"d"}
    Sender <- MCSender
    MaxClaims = 2
    Requests = {"r"}
    Device <- MCDevice
    Answers <- MCAnswers
    Verdict <- MCVerdict
    MaxUses <- MCUses
    Effects = {"e", "f"}
    MaxRuns = 2
    Servers = {"v", "w"}
    Nobody = "nobody"
    Actors = {"x", "d"}
    Issuer <- MCIssuer
    Traffic = {"p1", "p2"}
    From <- MCFrom
    Outcome <- MCOutcome
    Directed = {"p1"}
    ClaimIds = {"c", "e", "g"}
    ClaimPeer <- MCClaimPeer
    ClaimCircle <- MCClaimCircle
    SignedBy <- MCSigned
    FriendCode <- MCFriendCode
    AskedCircles = {2}
    Enough = 1
    MaxSubjects = 3
    MaxCommands = 2
    MaxNodeDeaths = 1
    Accounts = {"ann"}
    Bot = "bot"
    MaxMessage = 2
    Author <- MCAuthor
    EventLabels <- MCEventLabels
    AccountAge <- MCAge
    ManualLabels = {"relationship:vouched"}
    Policy <- MCPolicy
    Texts = {"x", "y"}
    Repliers = {"r"}
    PageLimit = 1
    MaxDelay = 2
    MaxReactions = 1
    MaxPosts = 2
    MaxSlips = 1
    Urls = {"r", "a", "b"}
    RootUrl = "r"
    LocalKeys = {"key", "aux"}
    DelegateKeys = {"del"}
    MaxPageDepth = 1
    MaxPageCount = 2
    Webs <- MCWebs
INVARIANTS
    RevokedNeverTrusted
    ApprovalSound
    BookReloads
    CircleIsEarned
    CursorIsEarned
    OneReplyText
    SourcesVouchedFor
CHECK_DEADLOCK FALSE
