CONSTANTS
    Nodes <- MCNodes
    Hashes <- MCHashes
    Keys <- MCKeys
    Lists <- MCLists
    Methods = {m1, m2}
SPECIFICATION BalanceSpec
INVARIANTS PickIsOffered
