SPECIFICATION FairSpec
CONSTANTS
  Keys = {u, v, w}
  NoJob = NoJob
  MaxEntries = 2
  MaxConcurrentFills = 1
  MaxFillDuration = 1
  Ttl = 2
  MaxJobs = 3
  LastSubmit = 2
INVARIANT IndexIsExact
INVARIANT SlotsAreUsed
PROPERTY OutcomesStay
PROPERTY JobsEnd
