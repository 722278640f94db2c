SPECIFICATION Spec
CONSTANTS
    Titles = {10, 70}
    Points <- MCPoints
    IconX = 30
    Fingers = 2
    MaxBound = 2
    None = None
INVARIANTS ListInv OneIcon OneCallback
PROPERTIES AloneGesture
