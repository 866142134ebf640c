-------------------------- MODULE PrivateExchange --------------------------
(***************************************************************************)
(* What the two pools and the swap contract promise together: two private  *)
(* ledgers that are used independently, except that a note is replaced in  *)
(* one only in the same step as a note is replaced in the other.  ZkSwap   *)
(* implements this specification under the mapping given there.            *)
(***************************************************************************)
EXTENDS Integers

CONSTANTS UsdcNotes, UsdcValue, XlmNotes, XlmValue

VARIABLES usdcLive, usdcSpent, usdcCash, xlmLive, xlmSpent, xlmCash

Usdc == INSTANCE PrivateLedger WITH
  Notes <- UsdcNotes, Value <- UsdcValue,
  live <- usdcLive, spent <- usdcSpent, cash <- usdcCash

Xlm == INSTANCE PrivateLedger WITH
  Notes <- XlmNotes, Value <- XlmValue,
  live <- xlmLive, spent <- xlmSpent, cash <- xlmCash

Init == Usdc!Init /\ Xlm!Init

UsdcAlone ==
  /\ \/ \E n \in UsdcNotes : Usdc!Deposit(n)
     \/ \E n \in UsdcNotes : \E amount \in 1 .. UsdcValue[n] : Usdc!Redeem(n, amount)
  /\ UNCHANGED Xlm!ledger

XlmAlone ==
  /\ \/ \E n \in XlmNotes : Xlm!Deposit(n)
     \/ \E n \in XlmNotes : \E amount \in 1 .. XlmValue[n] : Xlm!Redeem(n, amount)
  /\ UNCHANGED Usdc!ledger

\* Alice's USDC note becomes Bob's and Bob's XLM note becomes Alice's.
Swap ==
  /\ \E n, output \in UsdcNotes : Usdc!Replace(n, output)
  /\ \E n, output \in XlmNotes : Xlm!Replace(n, output)

Next == UsdcAlone \/ XlmAlone \/ Swap

Spec == Init /\ [][Next]_<<Usdc!ledger, Xlm!ledger>>
=============================================================================
