SPECIFICATION Spec
CONSTANTS
    Place = {1, 2}
    WorkArea = 700
    COLLAPSED_SIZE = 60
    MIN_OVERLAY_HEIGHT = 120
    DEFAULT_OVERLAY_HEIGHT = 720
    MaxWindows = 2
    Content = {90, 400}
    MaxSteps = 7
CHECK_DEADLOCK FALSE
INVARIANTS
    WindowFits
    PrivateIsProtected
    EndedIsShown
    StealthIsShown
