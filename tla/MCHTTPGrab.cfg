CONSTANTS
    Responses <- MCResponses
    Domains <- MCDomains
    ProxyConfigs <- MCProxyConfigs
    MaxRedirects <- MCMaxRedirects
SPECIFICATION Spec
\* HTTP returns: the call ends in pc = "done" and the model stops there.
CHECK_DEADLOCK FALSE
INVARIANTS
    TypeOK
    RedirectsBounded
    TargetOnlyThroughTunnel
    TargetExchangesRecorded
PROPERTIES
    HTTPReturns
