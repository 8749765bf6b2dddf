SPECIFICATION Spec
CONSTANTS
    file_user = file_user
    dir_user = dir_user
    settings = settings
    path = path
    other_path = other_path
    bad_path = bad_path
    n1 = n1
    n2 = n2
    none = none
    Clients <- FileUsers
    Uses <- FileUses
    Paths <- OnePath
    InvalidPaths <- BadPaths
    Nodes <- TwoNodes
    QueueSize = 1
    NoClient = none
    NoPath = none
    NoNode = none
PROPERTIES ClosesOwnFile
