\* A turn, a frame and a synthesis at once.
CONSTANTS
    Turn = {u1}
    Hearing = {}
    Speech = {s1}
    Vision = {v1}
    Panel = {p1}
    QueueLimit = 3
    MaxCalls = 1
SPECIFICATION Spec
INVARIANT RetainedIsState
