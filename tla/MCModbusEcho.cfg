CONSTANTS
    Data <- MCData
    MaxWrites <- MCMaxWrites
SPECIFICATION Spec
CHECK_DEADLOCK FALSE
INVARIANTS
    TypeOK
    WireIsRequestPrefix
PROPERTIES
    ModbusEchoReturns
    SendRefinement
