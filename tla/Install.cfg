SPECIFICATION FairSpec
CONSTANTS
    a = a  b = b  ka = ka  kb = kb  v1 = v1  v2 = v2
    NONE = NONE  PART = PART  NOBODY = NOBODY
    Installs = {a, b}
    Keys = {ka, kb}
    KeyOf <- MCKeyOf
    Images = {v1, v2}
    Wants <- MCWants
    Newest = v2
    Password = {a, b}
INVARIANTS TreeStands CurrentWhole NotLockedOut PinWasApplied
PROPERTY LegEnds
CHECK_DEADLOCK FALSE
