SPECIFICATION Spec
CONSTANTS
    r1 = r1
    r2 = r2
    Slots = {r1, r2}
    MaxRequests = 2
INVARIANTS TypeOK AnsweredOnce RateExplained
PROPERTIES DeafDropped
