CONSTANTS
  Recordings = {r1}
  Videos = {v1, v2}
  Procs = {p1}
  NoRecording = NoRecording
  NoVideo = NoVideo
  MaxAutoRetries = 1
  Restarts = FALSE
  Disconnects = FALSE
SPECIFICATION Spec
INVARIANT LinkedIsNotUploaded
