--------------------------- MODULE MCFiatService ---------------------------
\* The instance of FiatService that TLC checks: one order with two payments tried
\* for it, and another with one.
EXTENDS FiatService, TLC

CONSTANTS o1, o2, p1, p2, p3, s1, s2

MCOrders == {o1, o2}
MCPayments == {p1, p2, p3}
MCOrderOf == p1 :> o1 @@ p2 :> o1 @@ p3 :> o2
MCSlots == {s1, s2}
============================================================================
