SPECIFICATION Spec
CONSTANTS
    Up = Up
    Down = Down
    Desktop = Desktop
    App = App
    Popup = Popup
    Menu = Menu
    List = List
    Flipped = Flipped
    NoPort = NoPort
    NoView = NoView
    Keys = {Up, Down}
    Ports = {Desktop, App, Popup}
    Guests = {Popup}
    LayerOf <- MCLayerOf
    Views = {Menu, List, Flipped}
    Turned = {Flipped}
    KeyMap <- MCKeyMap
    InputSize = 1
    QueueSize = 1
    MaxStrokes = 2
    MaxInjected = 1
    MaxChanges = 1
    NoEvent = NoEvent
SYMMETRY MCSymmetry
INVARIANTS NoStaleTarget PortSeesRelease KeysAgree ViewSeesRelease NoLostInput
CHECK_DEADLOCK FALSE
