CONSTANTS
  Recordings = {r1}
  Videos = {v1, v2}
  Procs = {p1, p2}
  NoRecording = NoRecording
  NoVideo = NoVideo
  MaxAutoRetries = 1
  Restarts = FALSE
  Disconnects = FALSE
SPECIFICATION Spec
SYMMETRY Symmetry
INVARIANTS TypeOK UploadHasOwner FailureIsAnswered CompletionIsTold
PROPERTY KeepsPromise
