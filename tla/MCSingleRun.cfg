\* Starts and stops of one runner.
SPECIFICATION SRSpec
CONSTANTS
  Callers = {s1, s2}
  MaxRuns = 3
INVARIANTS NoRunForgotten
PROPERTIES TakenRunEnds
