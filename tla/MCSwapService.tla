--------------------------- MODULE MCSwapService ---------------------------
\* The instances of SwapService and its views that TLC checks.
EXTENDS SwapViews, TLC

CONSTANTS s1, s2

MCSlots == {s1, s2}

\* With one slot requests follow each other, and what goes wrong needs no race.
OneSlot == {s1}

MCNotes == "alice" :> {"a1"} @@ "bob" :> {"b1"}
============================================================================
