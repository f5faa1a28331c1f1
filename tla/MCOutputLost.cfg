SPECIFICATION FairSpec
CONSTANTS
    s1 = s1
    s2 = s2
    a = a
    b = b
    Screens = {s1, s2}
    Sounds = {a, b}
    TextCap = 2
    CommandCap = 1
    CollectCap = 2
    Budget = 1
    Slots <- MCSlots
    Bounds <- MCLost
PROPERTY SoundComesBack
CHECK_DEADLOCK FALSE
