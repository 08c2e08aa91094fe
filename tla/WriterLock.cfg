CONSTANTS
  Procs = {p1, p2}
  NoProc = NoProc
SPECIFICATION Spec
INVARIANTS SingleWriter
