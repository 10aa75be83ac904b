CONSTANTS
    Servers = {s1, s2}
    NumServices = 2
    MaxSessions = 4
    MaxCuts = 1
    Permanent = Permanent
    NoNode = NoNode
    Nodes <- MCNodes
    Hashes <- MCHashes
    Keys <- MCKeys
    Lists <- MCLists
    Methods = {m1, m2}
SPECIFICATION DiscoverySpec
INVARIANTS TypeOK NotAllExit ServingIsFound BalanceTypeOK
PROPERTIES RegistrationEnds KeysMoveOnlyWhenTheyMust RoundTakesTurns
CHECK_DEADLOCK FALSE
