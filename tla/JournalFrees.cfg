\* Objects of two creates, freed by one command.
CONSTANTS
  Rings = {}
  MaxRefs = 0
  Budgets <- TwoAndFree
SPECIFICATION Spec
INVARIANTS FreesFit
\* The guest may do nothing more.
CHECK_DEADLOCK FALSE
