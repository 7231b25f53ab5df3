\* A turn writes its message while a case stays near.
CONSTANTS
    Item = {}
    Cases = 1
    CaseLimit = 1
    Turn = {t1}
    NotifierFails = FALSE
    MaxMishaps = 0
SPECIFICATION Spec
INVARIANT NoWriteIsRefused
