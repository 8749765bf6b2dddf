SPECIFICATION FairSpec
CONSTANTS
    Owners <- AllOwners
    StreamSize = 2
INVARIANTS NoLostBytes
PROPERTIES ImplementsChannel ClosedIsFreed
