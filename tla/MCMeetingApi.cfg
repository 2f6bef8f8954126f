CONSTANTS
  stream = stream
  post = post
  details = details
  Requests = {stream, post, details}
  Kind <- MCKind
  Bodies = {body1, body2}
  Artifacts = {art1, art2}
  NoArtifact = NoArtifact
  Refs = {ref1, ref2}
  NoRef = NoRef
  Bases <- MCBases
  NoBasis = NoBasis
  Idle = Idle
SPECIFICATION Spec
INVARIANT OneTimedCalculation
INVARIANT StreamTellsOneStory
PROPERTY DisconnectedStoresNothing
PROPERTY ReferenceNamesOwnSurface
PROPERTY DetailsMatchRequest
