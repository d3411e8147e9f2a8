SPECIFICATION Spec
CONSTANTS
  Files = {f1}
  Users = {u1}
  Kinds = {"google"}
  Drains = {d1, d2}
  Askers = {q1}
  Sessions = {s1, s2}
  None = None
  Size = 1
  MaxAttempts = 1
  MaxFaults = 0
PROPERTIES DoneStaysDone
