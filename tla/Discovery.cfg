SPECIFICATION Spec
CONSTANTS
    na = na
    nb = nb
    nc = nc
    gone = gone
    Nodes = {na, nb, nc}
    Dead = {gone}
    Foreign = {nb}
    Configured <- Line
    Remembered <- Saved
    Whitelisted <- Saved
    Blacklists <- Bars
    Length = 4
    Threshold = 4
    MaxLength = 4
INVARIANTS TypeOK EntersClean
PROPERTIES AllDiscovered
