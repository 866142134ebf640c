CONSTANTS
  o1 = o1
  o2 = o2
  p1 = p1
  p2 = p2
  p3 = p3
  s1 = s1
  s2 = s2
  Orders <- MCOrders
  Payments <- MCPayments
  OrderOf <- MCOrderOf
  NoPayment = NoPayment
  Slots <- MCSlots
  MaxRequests = 3
  MaxOthers = 1
  MaxFaults = 1
SPECIFICATION Spec
INVARIANTS
  EachPaymentPaysOnce
  FulfilledMeansPaidOut
PROPERTIES
  OutcomesAreFinal
  ReservationsEnd
CHECK_DEADLOCK FALSE
