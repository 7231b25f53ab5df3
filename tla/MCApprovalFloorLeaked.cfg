\* Two spoken requests: is the floor the default one when both are over?
CONSTANTS
    Typed = {}
    Ticked = {}
    Spoken = {s1, s2}
    SpokenFloor = 0
    MaxCalls = 1
    NoOne = NoOne
SPECIFICATION Spec
INVARIANT FloorAlwaysComesBack
SYMMETRY Interchangeable
