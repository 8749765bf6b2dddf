SPECIFICATION FairSpec
CONSTANTS
    Up = Up
    Down = Down
    Desktop = Desktop
    App = App
    Popup = Popup
    Menu = Menu
    List = List
    Flipped = Flipped
    NoPort = NoPort
    NoView = NoView
    Keys = {Up}
    Ports = {Desktop, App, Popup}
    Guests = {Popup}
    LayerOf <- MCLayerOf
    Views = {Menu}
    Turned = {}
    KeyMap <- MCKeyMap
    InputSize = 1
    QueueSize = 1
    MaxStrokes = 1
    MaxInjected = 1
    MaxChanges = 2
    NoEvent = NoEvent
PROPERTIES UpdatesAreDrawn RunReturns
CHECK_DEADLOCK FALSE
