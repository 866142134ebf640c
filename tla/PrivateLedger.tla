---------------------------- MODULE PrivateLedger ----------------------------
(***************************************************************************)
(* What a shielded pool promises to the owners of notes: a pot of cash and *)
(* two sets of notes.  There are no trees, no windows of roots, no proofs  *)
(* and no order among the notes.  ShieldedPool implements this             *)
(* specification under the mapping given there.                            *)
(***************************************************************************)
EXTENDS Integers

CONSTANTS Notes, Value

VARIABLES
  live,   \* notes that can be spent
  spent,  \* notes that were spent, and never can be again
  cash    \* the tokens in the pot

ledger == <<live, spent, cash>>

Init == live = {} /\ spent = {} /\ cash = 0

\* A note that was spent before does not come back to life when it is created
\* again; what is paid in for it is lost to its owner.
Create(n) == live' = (live \cup {n}) \ spent

Deposit(n) ==
  /\ Create(n)
  /\ cash' = cash + Value[n]
  /\ UNCHANGED spent

\* A note is redeemed once, for at most what it is worth.
Redeem(n, amount) ==
  /\ n \in live
  /\ amount \in 1 .. Value[n]
  /\ amount <= cash
  /\ live' = live \ {n}
  /\ spent' = spent \cup {n}
  /\ cash' = cash - amount

\* A note is replaced by one of no greater value; no cash moves.
Replace(n, output) ==
  /\ n \in live
  /\ Value[output] <= Value[n]
  /\ spent' = spent \cup {n}
  /\ live' = (live \cup {output}) \ spent'
  /\ UNCHANGED cash

Next ==
  \/ \E n \in Notes : Deposit(n)
  \/ \E n \in Notes : \E amount \in 1 .. Value[n] : Redeem(n, amount)
  \/ \E n, output \in Notes : Replace(n, output)

Spec == Init /\ [][Next]_ledger
=============================================================================
