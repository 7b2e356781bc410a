CONSTANTS
    i1 = i1
    b1 = b1
    s1 = s1
    s2 = s2
    s3 = s3
    TypeOf <- MCTypeOf
    IntraOf <- MCIntraOf
    Event = {i1, b1, s1, s2, s3}
    Cap = 2
    TtlOn = TRUE

SPECIFICATION Spec

SYMMETRY Interchangeable

INVARIANTS
    DrainerInv
    PlaceInv

PROPERTIES
    EvictsLastResort
    TakesUrgentFresh
    AnswersOnce
