SPECIFICATION Spec
CONSTANTS
  t1 = t1
  t2 = t2
  Threads = {t1, t2}
  Confs = {"absent", "tiny", "good"}
INVARIANTS
  SafeWhileIn
  HooksRestored
SYMMETRY Symmetry
