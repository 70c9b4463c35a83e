\* One process: a check between a download and its installation.
SPECIFICATION UpdateSpec
CONSTANTS
    Players = {p1}
    Hands = {1}
    Plays = {}
    Newest = 3
    Broken = {}
    MaxFeeds = 3
    MaxStops = 0
INVARIANTS ActiveIsWhatItSays
CHECK_DEADLOCK FALSE
