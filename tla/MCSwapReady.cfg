CONSTANTS
  s1 = s1
  s2 = s2
  Slots <- OneSlot
  Notes <- MCNotes
  MaxRequests = 5
  MaxAppends = 1
  MaxFaults = 0
SPECIFICATION Spec
INVARIANT ReadyMeansExecutable
CHECK_DEADLOCK FALSE
