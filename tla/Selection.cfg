SPECIFICATION CallSpec
CONSTANTS
    p1 = p1
    p2 = p2
    p3 = p3
    p4 = p4
    Peers = {p1, p2, p3, p4}
    SendLimit = 3
    MaxLimit = 6
    Shares <- Defaults
    Measurements <- AllMeasurements
    MaxKnown = 9
    MaxSetting = 6
INVARIANTS SendUsesLimit ProtectedSpared AnswerFits
