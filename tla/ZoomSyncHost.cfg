CONSTANTS
  Recordings = {r1}
  Videos = {v1}
  Procs = {p1, p2}
  NoRecording = NoRecording
  NoVideo = NoVideo
  MaxAutoRetries = 1
  Restarts = TRUE
  Disconnects = TRUE
SPECIFICATION Spec
SYMMETRY Symmetry
INVARIANTS UploadHasOwner FailureIsAnswered
