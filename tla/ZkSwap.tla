------------------------------- MODULE ZkSwap -------------------------------
(***************************************************************************)
(* The swap contract (packages/contracts/zk_swap) over the USDC pool and   *)
(* the XLM pool.  execute calls transfer on both: Alice's USDC note is     *)
(* replaced by one of Bob's and Bob's XLM note by one of Alice's.  A call  *)
(* that fails inside a pool traps, which undoes the whole transaction, so  *)
(* execute is one action, enabled when both transfers are.                 *)
(*                                                                         *)
(* transfer needs the signature of the pool's admin, and the only caller   *)
(* the admin signs for is execute; deposits and withdrawals go to each     *)
(* pool directly and interleave with it.                                   *)
(***************************************************************************)
EXTENDS Integers, Sequences, FiniteSets

CONSTANTS
  UsdcNotes, UsdcValue, UsdcWorth, UsdcTokens,   \* as Notes, Value, Worth and
  XlmNotes, XlmValue, XlmWorth, XlmTokens,       \* InitialTokens of each pool
  Users, UsdcPool, XlmPool, NoAdmin, Admins, MaxRoots, MaxLeaves

\* What the constants of one pool have to be; see ShieldedPool.
PoolConstants(notes, value, worth, held, address) ==
  /\ value \in [notes -> Nat \ {0}]
  /\ held \in [Users -> Nat]
  /\ address \notin Users
  /\ worth \in [SUBSET notes -> Nat]
  /\ worth[{}] = 0
  /\ \A S \in SUBSET notes : \A n \in notes \ S :
        worth[S \cup {n}] = worth[S] + value[n]

ASSUME SwapAssumption ==
  /\ PoolConstants(UsdcNotes, UsdcValue, UsdcWorth, UsdcTokens, UsdcPool)
  /\ PoolConstants(XlmNotes, XlmValue, XlmWorth, XlmTokens, XlmPool)
  /\ NoAdmin \notin Admins
  /\ MaxRoots \in Nat \ {0}
  /\ MaxLeaves \in Nat

VARIABLES
  usdcAdmin, usdcRoot, usdcRoots, usdcCommitments, usdcNullifiers, usdcTokens,
  xlmAdmin, xlmRoot, xlmRoots, xlmCommitments, xlmNullifiers, xlmTokens

Usdc == INSTANCE ShieldedPool WITH
  Notes <- UsdcNotes, Value <- UsdcValue, Worth <- UsdcWorth,
  InitialTokens <- UsdcTokens, PoolAddress <- UsdcPool,
  admin <- usdcAdmin, root <- usdcRoot, roots <- usdcRoots,
  commitments <- usdcCommitments, nullifiers <- usdcNullifiers,
  tokens <- usdcTokens

Xlm == INSTANCE ShieldedPool WITH
  Notes <- XlmNotes, Value <- XlmValue, Worth <- XlmWorth,
  InitialTokens <- XlmTokens, PoolAddress <- XlmPool,
  admin <- xlmAdmin, root <- xlmRoot, roots <- xlmRoots,
  commitments <- xlmCommitments, nullifiers <- xlmNullifiers,
  tokens <- xlmTokens

vars == <<usdcAdmin, usdcRoot, usdcRoots, usdcCommitments, usdcNullifiers, usdcTokens,
          xlmAdmin, xlmRoot, xlmRoots, xlmCommitments, xlmNullifiers, xlmTokens>>

-----------------------------------------------------------------------------
Init == Usdc!Init /\ Xlm!Init

\* A call of transfer that creates this output for this amount.  Its proof may be
\* bound to another output, be made under an older root than the current one, or
\* for another amount; its new root may be computed from an older list of leaves.
UsdcTransfer(output, amount) ==
  \E n, bound \in UsdcNotes, r \in Usdc!KnownRoots, w \in Usdc!Amounts :
    \E new \in Usdc!ProposedRoots(output) :
      Usdc!Transfer(Usdc!Proof(n, r, w, bound), n, output, new, amount)

XlmTransfer(output, amount) ==
  \E n, bound \in XlmNotes, r \in Xlm!KnownRoots, w \in Xlm!Amounts :
    \E new \in Xlm!ProposedRoots(output) :
      Xlm!Transfer(Xlm!Proof(n, r, w, bound), n, output, new, amount)

\* Faulty variant: the failure of the second transfer is swallowed.
ExecuteKeepsFirstLeg(amountUsdc, amountXlm, bobOutput, aliceOutput) ==
  /\ amountUsdc > 0 /\ amountXlm > 0
  /\ UsdcTransfer(bobOutput, amountUsdc)
  /\ \/ XlmTransfer(aliceOutput, amountXlm)
     \/ UNCHANGED <<xlmAdmin, xlmRoot, xlmRoots, xlmCommitments, xlmNullifiers, xlmTokens>>

\* Faulty variant: each pool is told the other pool's amount.
ExecuteCrossed(amountUsdc, amountXlm, bobOutput, aliceOutput) ==
  /\ amountUsdc > 0 /\ amountXlm > 0
  /\ UsdcTransfer(bobOutput, amountXlm)
  /\ XlmTransfer(aliceOutput, amountUsdc)

\* Bob's output goes into the USDC pool and Alice's into the XLM pool.
Execute(amountUsdc, amountXlm, bobOutput, aliceOutput) ==
  /\ amountUsdc > 0 /\ amountXlm > 0
  /\ UsdcTransfer(bobOutput, amountUsdc)
  /\ XlmTransfer(aliceOutput, amountXlm)

-----------------------------------------------------------------------------
(* The callers.  The amounts of a swap are the values inside its outputs:   *)
(* SwapService builds both from the amounts of the swap.                    *)

UsdcAlone ==
  /\ \/ \E a \in Admins : Usdc!Initialize(a)
     \/ \E from \in Users, n \in UsdcNotes, previous \in Usdc!KnownRoots :
          \E new \in Usdc!ProposedRoots(n) :
            Usdc!Deposit(from, n, previous, new, UsdcValue[n])
     \/ \E n \in UsdcNotes, to \in Users, r \in Usdc!KnownRoots, w \in Usdc!Amounts :
          Usdc!Withdraw(to, Usdc!Proof(n, r, w, to), n)
  /\ UNCHANGED <<xlmAdmin, xlmRoot, xlmRoots, xlmCommitments, xlmNullifiers, xlmTokens>>

XlmAlone ==
  /\ \/ \E a \in Admins : Xlm!Initialize(a)
     \/ \E from \in Users, n \in XlmNotes, previous \in Xlm!KnownRoots :
          \E new \in Xlm!ProposedRoots(n) :
            Xlm!Deposit(from, n, previous, new, XlmValue[n])
     \/ \E n \in XlmNotes, to \in Users, r \in Xlm!KnownRoots, w \in Xlm!Amounts :
          Xlm!Withdraw(to, Xlm!Proof(n, r, w, to), n)
  /\ UNCHANGED <<usdcAdmin, usdcRoot, usdcRoots, usdcCommitments, usdcNullifiers, usdcTokens>>

Swap ==
  \E bobOutput \in UsdcNotes, aliceOutput \in XlmNotes :
    Execute(UsdcValue[bobOutput], XlmValue[aliceOutput], bobOutput, aliceOutput)

Next == UsdcAlone \/ XlmAlone \/ Swap

Spec == Init /\ [][Next]_vars

-----------------------------------------------------------------------------
(* Properties *)

\* After any mix of swaps, deposits and withdrawals, both pools can still pay
\* every unspent note: a swap never creates a note worth more than it burns.
BothPoolsHonourNotes == Usdc!NotesStayWithdrawable /\ Xlm!NotesStayWithdrawable

\* Deposits and withdrawals aside, the two pools move together: execute never
\* burns Alice's note without burning Bob's, nor creates one output without the
\* other, whichever of the two transfers fails and why.
Exchange == INSTANCE PrivateExchange WITH
  usdcLive <- Usdc!Live, usdcSpent <- Usdc!Range(usdcNullifiers),
  usdcCash <- usdcTokens[UsdcPool],
  xlmLive <- Xlm!Live, xlmSpent <- Xlm!Range(xlmNullifiers),
  xlmCash <- xlmTokens[XlmPool]

ImplementsExchange == Exchange!Spec
=============================================================================
