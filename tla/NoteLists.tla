------------------------------ MODULE NoteLists ------------------------------
(***************************************************************************)
(* The lists of unspent notes of one asset as the custodial wallet keeps   *)
(* them, by value, and the choice splitNote makes among them               *)
(* (users.service.ts).                                                     *)
(***************************************************************************)
EXTENDS Integers, Sequences, FiniteSets, FiniteSetsExt, SequencesExt

Assets == {"XLM", "USDC"}

Total(ns) == SumFunction(ns)

\* The notes splitNote withdraws: the first that is larger, or else the first few that
\* are enough together.
Larger(ns, v) == {i \in DOMAIN ns : ns[i] > v}
ToWithdraw(ns, v) ==
  IF Larger(ns, v) # {} THEN <<ns[Min(Larger(ns, v))]>>
  ELSE SubSeq(ns, 1, Min({k \in 0..Len(ns) : Total(SubSeq(ns, 1, k)) >= v}))
Without(ns, gone) == FoldSeq(LAMBDA n, rest : RemoveFirst(rest, n), ns, gone)

\* What splitNote leaves after its first `done` steps: the withdrawals one by one, the
\* deposit of exactly v last.
AfterSplit(ns, v, done) ==
  LET plan == ToWithdraw(ns, v) IN
  IF done > Len(plan) THEN Append(Without(ns, plan), v)
  ELSE Without(ns, SubSeq(plan, 1, done))
=============================================================================
