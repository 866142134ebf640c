--------------------------- MODULE MCShieldedPool ---------------------------
\* The instance of ShieldedPool that TLC checks.
EXTENDS ShieldedPool, TLC

CONSTANTS n1, n2, n3

MCNotes == {n1, n2, n3}
MCValue == n1 :> 1 @@ n2 :> 1 @@ n3 :> 2
MCWorth == [S \in SUBSET MCNotes |-> SumFunctionOnSet(MCValue, S)]
MCInitialTokens == [u \in Users |-> 3]
=============================================================================
