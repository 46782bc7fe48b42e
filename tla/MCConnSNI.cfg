CONSTANTS
    UsedFlags <- MCSNIUsedFlags
    ListSuites <- MCListSuites
    Implemented <- MCImplemented
    Replies <- MCReplies
    CAPools <- MCSNICAPools
    Domains <- MCSNIDomains
    LocationHosts <- MCSNILocationHosts
SPECIFICATION Spec
CHECK_DEADLOCK FALSE
PROPERTIES
    SNIIsTargetDomain
