SPECIFICATION Spec
CONSTANTS
    s1 = s1
    s2 = s2
    a = a
    b = b
    Screens = {s1, s2}
    Sounds = {a, b}
    TextCap = 2
    CommandCap = 2
    CollectCap = 2
    Budget = 1
    Slots <- MCSlots
    Bounds <- MCBounds
INVARIANTS
    CanvasIsTrue
    SoundsAreDefined
    SoundAgrees
    FirstPictureArrives
\* The page has nothing more to ask for.
CHECK_DEADLOCK FALSE
