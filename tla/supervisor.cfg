SPECIFICATION FairSpec
CONSTANTS
    Ids = {i1, i2}
    Clients = {c1, c2}
    Sig = sig
    Scenarios <- Races
INVARIANTS
    NoOrphanProcess
    NoRequestToTheDead
    StatusIsTrue
    FileMatchesLive
PROPERTIES
    StopsEnd
CHECK_DEADLOCK FALSE
