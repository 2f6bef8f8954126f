CONSTANTS
  stream = stream
  details = details
  Requests = {stream, details}
  Kind <- MCKind
  Bodies = {body1}
  Artifacts = {art1}
  NoArtifact = NoArtifact
  Refs = {ref1}
  NoRef = NoRef
  Bases <- MCBases
  NoBasis = NoBasis
  Idle = Idle
  LineEnds <- MCLineEnds
  MaxChunk = 9
SPECIFICATION StreamSpec
INVARIANT ClientHearsWhatServerWrote
PROPERTY Answered
