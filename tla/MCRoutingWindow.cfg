CONSTANTS
    Rejected = Rejected
    NoCall = NoCall
    NoWindow = NoWindow
    A = A
    B = B
    C = C
    Trips <- MCTrips
    Services <- MCServices
    Dates <- MCDates
    Anchor <- MCAnchor
    Day = 4
    DaysPerWeek = 2
    Options = {1, 2}
    MaxTables = 2
    MaxWindows = 2
    MaxRows = 5
    Scenarios <- MCScenarios
SPECIFICATION WindowSpec
INVARIANT WindowIsOfFeed
INVARIANT CachesAreFresh
INVARIANT WhatCompilesLoads
CHECK_DEADLOCK FALSE
