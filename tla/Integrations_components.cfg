SPECIFICATION IntegrationsSpec
CONSTANTS
    w1 = w1
    w2 = w2
    a1 = a1
    a2 = a2
    b1 = b1
    b2 = b2
    root = root
    none = none
    Servers = {"gitlab", "github", "bitbucket", "gitflic"}
    MaxFlows = 2
    Calls <- Workers
    Apps <- Pair
    MaxVisits = 2
    MaxErrors = 1
    MaxEdits = 1
    Members <- Pair
    Refreshers <- Workers
    MaxTokens = 4
    MaxFaults = 1
    People <- Team
    Root = root
    Federated <- Pair
    Handlers <- Workers
    Processes <- Booters
    Offered = {"admin", "member"}
    MaxInvites = 2
    MaxChannels = 2
    Codes <- LinkCodes
    Chats <- Pair
    Threads <- Workers
    NoChat = none
SYMMETRY Symmetry
INVARIANTS IntegrationsTypeOK ToldTrue AppAgrees GroupUsable AdminStays RemovedStaysOut BootOnce ChatStays
PROPERTIES ErrorOnlyExhausted GroupAgrees
CHECK_DEADLOCK FALSE
