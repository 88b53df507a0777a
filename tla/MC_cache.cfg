SPECIFICATION Spec
CONSTANTS
  sources = sources
  summary = summary
  r1 = r1
  r2 = r2
  w1 = w1
  w2 = w2
  Names = {sources, summary}
  Readers = {r1}
  Writers = {w1, w2}
  Ops = {"mark", "level", "verdict", "silent"}
  Failures = TRUE
  TTL = 3
  FillTime = 1
  MaxVersion = 2
  MaxTime = 6
SYMMETRY TwoWriters
INVARIANTS TypeOK StaleIsBeingDropped StalenessBounded
CHECK_DEADLOCK FALSE
