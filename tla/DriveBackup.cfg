SPECIFICATION Spec
CONSTANTS
  Files = {f1}
  Users = {u1}
  Kinds = {"simple", "google", "onedrive"}
  Drains = {d1, d2}
  Askers = {q1}
  Sessions = {s1, s2}
  None = None
  Size = 2
  MaxAttempts = 1
  MaxFaults = 1
SYMMETRY Symmetry
INVARIANTS TypeOK OneAtATime CopiesAreExact SavedOnce DoneIsSaved
