SPECIFICATION Spec
CONSTANTS
    g1 = g1
    g2 = g2
    g3 = g3
    Gens = {g1, g2, g3}
    Sound = {g1, g2}
    LEGACY = legacy
    NONE = none
    Names <- MCNames
    AnyTree = FALSE
INVARIANTS
    TypeOK
    KeepsAPath
    OkAnswers
    OkMeansThisTreeAlone
    RefusedLeavesNothing
