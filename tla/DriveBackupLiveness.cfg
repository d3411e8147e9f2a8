SPECIFICATION FairSpec
CONSTANTS
  Files = {f1}
  Users = {u1}
  Kinds = {"simple"}
  Drains = {d1, d2}
  Askers = {q1}
  Sessions = {s1, s2}
  None = None
  Size = 1
  MaxAttempts = 2
  MaxFaults = 2
PROPERTIES UploadingEnds FailedIsRetried PendingIsTaken
