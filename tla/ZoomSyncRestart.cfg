CONSTANTS
  Recordings = {r1}
  Videos = {v1}
  Procs = {p1}
  NoRecording = NoRecording
  NoVideo = NoVideo
  MaxAutoRetries = 1
  Restarts = TRUE
  Disconnects = FALSE
SPECIFICATION Spec
INVARIANT RestartLosesNothing
