\* More near cases than the limit, every notification shown.
CONSTANTS
    Item = {}
    Cases = 2
    CaseLimit = 1
    Turn = {}
    NotifierFails = FALSE
    MaxMishaps = 0
SPECIFICATION Spec
PROPERTY CaseIsTold
