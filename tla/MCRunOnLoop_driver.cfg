CONSTANTS
  Loops = {l1, l2, l3}
  Functions = {f1, f2}
  None = None
SPECIFICATION Spec
CHECK_DEADLOCK FALSE
INVARIANTS
  FieldsFresh
  WorkersLeftAlone
  LoopsWhole
