CONSTANTS
  a1 = a1
  a2 = a2
  f1 = f1
  g1 = g1
  sa = sa
  sf = sf
  sg = sg
  p = p
  s = s
  Lookups = {a1, a2, f1, g1}
  Searches = {f1, g1}
  Signals = {sa, sf, sg}
  SignalOf <- MCSignalOf
  Places = {p, s}
  PlaceOf <- MCPlaceOf
  Maximum = 2
  Answers <- MCAnswers
  AreaIds = {1, 2, 3}
  Radius = 2
  MaxSeeds = 2
  MaxResults = 2
  MaxStations = 4
  Environments <- MCEnvironments
  MaxContents = 2
  MaxGenerations = 2
  Scenarios <- MCScenarios
  Boundary <- Grid
  EnvelopeOf <- MCEnvelopeOf
  CellsOf <- MCCellsOf
  Second = 2
  MaxItineraries = 3
  MaxPages = 2
  MaxLegs = 2
  MaxPaths = 2
  EndpointTolerance = 1
  ContinuityTolerance = 1
SPECIFICATION ProvidersSpec
INVARIANT SlotsAreUsed
INVARIANT AnswersAreReadWhole
INVARIANT ConfigurationIsHonest
INVARIANT RoutesAreWhole
INVARIANT RoutesStayInside
PROPERTY FirstComeFirstServed
PROPERTY EveryCallerSettles
CHECK_DEADLOCK FALSE
