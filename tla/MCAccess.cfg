SPECIFICATION AccessSpec
CONSTANTS
    Components = {"invitations", "config", "sessions", "reports", "documents"}
    Projects = {p1}
    Workspace = ws
    Users = {ann}
    Roles = {viewer, editor}
    RolesOf <- MCRolesOf
    Protected = {}
    Guest = guest
    NoRole = norole
    Clients = {c1, c2}
    Editors = {c1, c2}
    Requests = {c1, c2}
    Memberships <- MCMemberships
    MaxInvites = 2
    MaxRequests = 4
    CustomKeys = {k1}
    StatusChanges <- MCStatusChanges
    OptionChanges <- MCOptionChanges
    MaxEdits = 3
    MaxUsed = 1
    MaxFailedAttempts = 2
    MaxSessions = 2
    MaxServed = 4
    Reports <- MCReports
    Events <- MCEvents
    Devices = {"phone", "tablet"}
    ActorOf <- MCActorOf
    EventsOf <- MCEventsOf
    NoReport = noreport
    NoSite = nosite
    MaxSends = 3
    MaxShifts = 1
    Savers = {s1}
    Closings = {"item done"}
    MaxDocuments = 2
    MaxFiles = 2
    MaxRevisions = 1
SYMMETRY MCSymmetry
CHECK_DEADLOCK FALSE
INVARIANTS
    EntryIsGranted
    RolesInUseAreEnabledIfFresh
    ConfigurationIsSound
    SessionsEndIfFresh
    SyncIsFaithful
    DocumentsAreKept
