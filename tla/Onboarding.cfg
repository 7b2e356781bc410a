CONSTANTS
    i1 = i1
    i2 = i2
    o1 = o1
    NoInvitation = {o1}
    TypeOf <- MCTypeOf
    IntraOf <- MCIntraOf
    Event = {i1, i2, o1}
    Invitation = {o1}
    Cap = 2
    TtlOn = TRUE

SPECIFICATION OnboardingSpec

INVARIANTS
    OneInvitationOut
    InvitedOnce
    NotSilencedInVain

PROPERTIES
    CallsReturn
    KeepsPromise
