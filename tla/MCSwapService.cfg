CONSTANTS
  s1 = s1
  s2 = s2
  Slots <- MCSlots
  Notes <- MCNotes
  MaxRequests = 5
  MaxAppends = 1
  MaxFaults = 1
SPECIFICATION Spec
INVARIANTS
  CompletedMeansSettled
  CompletedMeansCredited
  MarkedMeansSpent
  ReadyMeansBothProofs
  OffersAreAccepted
PROPERTY ExecutingEnds
CHECK_DEADLOCK FALSE
