SPECIFICATION MCSpec
CONSTANTS
    Positions = {p, q}
    Buttons <- MCButtons
    RingCap = 2
    Slots = {0, 1}
    Kinds = {"term", "files", "power"}
    SpotMax = 2
    None = None
    FbW = 5
    CursorW = 2
    Stage = 4
    Pad = 1
    Hots = {0, 1}
    DockX = 1
    DockW = 2
    Colours = {c0, c1}
    Cursor = Cursor
    MaxU = 15
    ScreenW = 8
    ScreenH = 7
    MaxSide = 7
    MaxRoot = 600
    FontH = 4
SYMMETRY MCSymmetry
VIEW DesktopView
INVARIANTS WindowsSound InputHeld SeesPointer SceneSound PointerTrue PixelsRight
