------------------------------ MODULE MCZkSwap ------------------------------
\* The instance of ZkSwap that TLC checks: in each pool a note of value 1 and one
\* of value 2, so that a transfer can match, overpay and underpay its output.
EXTENDS ZkSwap, Functions, TLC

CONSTANTS a1, a2, b1, b2

MCUsdcNotes == {a1, a2}
MCUsdcValue == a1 :> 1 @@ a2 :> 2
MCUsdcWorth == [S \in SUBSET MCUsdcNotes |-> SumFunctionOnSet(MCUsdcValue, S)]
MCUsdcTokens == [u \in Users |-> 3]

MCXlmNotes == {b1, b2}
MCXlmValue == b1 :> 1 @@ b2 :> 2
MCXlmWorth == [S \in SUBSET MCXlmNotes |-> SumFunctionOnSet(MCXlmValue, S)]
MCXlmTokens == [u \in Users |-> 3]
=============================================================================
