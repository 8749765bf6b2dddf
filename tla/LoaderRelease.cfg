SPECIFICATION Spec
CONSTANTS
    cli = cli
    rpc = rpc
    app = app
    menu = menu
    browser = browser
    good = good
    bad = bad
    apps = apps
    Threads <- AllThreads
    Watched <- OnlyApp
    ScrubSize = 8
    NoThread = NoThread
    Clients = {cli, rpc}
    Desktop = Desktop
    App = app
    Menu = menu
    Browser = browser
    Names <- AllNames
    Runnable <- Loadable
    Applications = apps
    QueueSize = 1
    LaunchSize = 2
    MaxCalls = 4
    NoName = NoName
    Null = Null
    Locked = Locked
CHECK_DEADLOCK FALSE
INVARIANTS StoppedIsSafeToRelease
