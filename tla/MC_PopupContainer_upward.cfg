CONSTANTS
    Screen <- MCScreen
    Window <- MCWindow
    ControlRects <- MCControlRectsWide
    EventPoints <- MCEventPoints
    RTL = FALSE
    HasChromeClient = TRUE
    ContentWidth = 10
    RowHeight = 2
    MaxItems = 4
    kMaxHeight = 6
    MaxCalls = 4
SPECIFICATION Spec
INVARIANT
    PopupInsideScreen
\* The destructor ends the container's life.
CHECK_DEADLOCK FALSE
