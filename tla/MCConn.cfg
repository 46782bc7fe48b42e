CONSTANTS
    UsedFlags <- MCUsedFlags
    ListSuites <- MCListSuites
    Implemented <- MCImplemented
    Replies <- MCReplies
    CAPools <- MCCAPools
    Domains <- MCDomains
    LocationHosts <- MCLocationHosts
SPECIFICATION Spec
CHECK_DEADLOCK FALSE
INVARIANTS
    TypeOK
    UpgradeAuthorizedByReply
PROPERTIES
    HandshakeLogWrittenOnce
    IncompleteSuccessIsForcedProbe
    UpgradeRefinement
