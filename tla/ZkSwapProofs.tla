---------------------------- MODULE ZkSwapProofs ----------------------------
(***************************************************************************)
(* What the two pools and the swap contract keep together, for every set   *)
(* of notes, window and tree: both pools can pay all of their unspent      *)
(* notes, and swaps move them in step, as PrivateExchange says.            *)
(*                                                                         *)
(* What one call does to one pool is proved in ShieldedPoolProofs; it is   *)
(* taken here for each of the two.  A call of a pool is the same formula   *)
(* in ZkSwap's instance of ShieldedPool and in the instance of its proofs: *)
(* the first step of each lemma about a call says so.                      *)
(***************************************************************************)
EXTENDS ZkSwap, TLAPS

UsdcSide == INSTANCE ShieldedPoolProofs WITH
  Notes <- UsdcNotes, Value <- UsdcValue, Worth <- UsdcWorth,
  InitialTokens <- UsdcTokens, PoolAddress <- UsdcPool,
  admin <- usdcAdmin, root <- usdcRoot, roots <- usdcRoots,
  commitments <- usdcCommitments, nullifiers <- usdcNullifiers,
  tokens <- usdcTokens

XlmSide == INSTANCE ShieldedPoolProofs WITH
  Notes <- XlmNotes, Value <- XlmValue, Worth <- XlmWorth,
  InitialTokens <- XlmTokens, PoolAddress <- XlmPool,
  admin <- xlmAdmin, root <- xlmRoot, roots <- xlmRoots,
  commitments <- xlmCommitments, nullifiers <- xlmNullifiers,
  tokens <- xlmTokens

Inv == UsdcSide!Inv /\ XlmSide!Inv

-----------------------------------------------------------------------------
(* The calls of the USDC pool: each keeps the pool consistent, and is a     *)
(* step of its ledger in the abstract exchange.                             *)

LEMMA UsdcInitially ==
  ASSUME Usdc!Init
  PROVE  UsdcSide!Inv /\ Exchange!Usdc!Init
<1>1. UsdcSide!Init
  BY DEF Usdc!Init, UsdcSide!Init, Usdc!ZeroRoot, UsdcSide!ZeroRoot, Usdc!Accounts, UsdcSide!Accounts
<1>2. UsdcSide!Inv
  BY <1>1, UsdcSide!InitInv, SwapAssumption DEF PoolConstants
<1>3. UsdcSide!Ledger!Init
  BY <1>1, UsdcSide!LedgerInit, SwapAssumption DEF PoolConstants
<1>. QED
  BY <1>2, <1>3 DEF UsdcSide!Ledger!Init, Exchange!Usdc!Init,
     UsdcSide!Live, Usdc!Live, UsdcSide!Range, Usdc!Range

LEMMA UsdcInitialize ==
  ASSUME UsdcSide!Inv, NEW a \in Admins, Usdc!Initialize(a)
  PROVE  UsdcSide!Inv' /\ UNCHANGED Exchange!Usdc!ledger
<1>1. UsdcSide!Initialize(a)
  BY DEF Usdc!Initialize, UsdcSide!Initialize, Usdc!Initialized, UsdcSide!Initialized,
         Usdc!ZeroRoot, UsdcSide!ZeroRoot
<1>2. UsdcSide!Inv'
  BY <1>1, UsdcSide!InitializeInv, SwapAssumption DEF PoolConstants
<1>3. UNCHANGED UsdcSide!Ledger!ledger
  BY <1>1, UsdcSide!InitializeUnseen, SwapAssumption DEF PoolConstants
<1>. QED
  BY <1>2, <1>3 DEF UsdcSide!Ledger!ledger, Exchange!Usdc!ledger,
     UsdcSide!Live, Usdc!Live, UsdcSide!Range, Usdc!Range

LEMMA UsdcDeposit ==
  ASSUME UsdcSide!Inv, NEW from \in Users, NEW n \in UsdcNotes, NEW previous, NEW new,
         Usdc!Deposit(from, n, previous, new, UsdcValue[n])
  PROVE  UsdcSide!Inv' /\ Exchange!Usdc!Deposit(n)
<1>1. UsdcSide!Deposit(from, n, previous, new, UsdcValue[n])
  BY DEF Usdc!Deposit, UsdcSide!Deposit, Usdc!Initialized, UsdcSide!Initialized,
         Usdc!IsCurrentTransition, UsdcSide!IsCurrentTransition,
         Usdc!MoveTokens, UsdcSide!MoveTokens, Usdc!AppendLeaf, UsdcSide!AppendLeaf,
         Usdc!MerkleRoot, UsdcSide!MerkleRoot, Usdc!PushRoot, UsdcSide!PushRoot
<1>2. UsdcSide!Inv'
  BY <1>1, UsdcSide!DepositInv, SwapAssumption DEF PoolConstants
<1>3. UsdcSide!Ledger!Deposit(n)
  BY <1>1, UsdcSide!DepositSeen, SwapAssumption DEF PoolConstants
<1>. QED
  BY <1>2, <1>3 DEF UsdcSide!Ledger!Deposit, Exchange!Usdc!Deposit,
     UsdcSide!Ledger!Create, Exchange!Usdc!Create,
     UsdcSide!Live, Usdc!Live, UsdcSide!Range, Usdc!Range

LEMMA UsdcWithdraw ==
  ASSUME UsdcSide!Inv, NEW n \in UsdcNotes, NEW to \in Users, NEW r, NEW w \in Usdc!Amounts,
         Usdc!Withdraw(to, Usdc!Proof(n, r, w, to), n)
  PROVE  UsdcSide!Inv' /\ \E amount \in 1 .. UsdcValue[n] : Exchange!Usdc!Redeem(n, amount)
<1>. DEFINE p == UsdcSide!Proof(n, r, w, to)
<1>1. p = Usdc!Proof(n, r, w, to)
  BY DEF Usdc!Proof, UsdcSide!Proof
<1>2. p.withdrawn \in Nat
  <2>1. w \in UsdcSide!Amounts
    BY DEF Usdc!Amounts, UsdcSide!Amounts
  <2>. QED
    BY <2>1, UsdcSide!CallTypes, SwapAssumption DEF PoolConstants
<1>. HIDE DEF p
<1>3. Usdc!Withdraw(to, p, n)
  BY <1>1
<1>4. UsdcSide!Withdraw(to, p, n)
  BY <1>3 DEF Usdc!Withdraw, UsdcSide!Withdraw, Usdc!WithdrawalProven, UsdcSide!WithdrawalProven,
     Usdc!Initialized, UsdcSide!Initialized, Usdc!Range, UsdcSide!Range, Usdc!Verifies, UsdcSide!Verifies,
     Usdc!Unspent, UsdcSide!Unspent, Usdc!SpendNote, UsdcSide!SpendNote, Usdc!MoveTokens, UsdcSide!MoveTokens
<1>5. UsdcSide!Inv'
  BY <1>2, <1>4, UsdcSide!WithdrawInv, SwapAssumption DEF PoolConstants
<1>6. \E amount \in 1 .. UsdcValue[n] : UsdcSide!Ledger!Redeem(n, amount)
  BY <1>2, <1>4, UsdcSide!WithdrawSeen, SwapAssumption DEF PoolConstants
<1>. QED
  BY <1>5, <1>6 DEF UsdcSide!Ledger!Redeem, Exchange!Usdc!Redeem,
     UsdcSide!Live, Usdc!Live, UsdcSide!Range, Usdc!Range

LEMMA UsdcTransferred ==
  ASSUME UsdcSide!Inv, NEW output \in UsdcNotes, UsdcTransfer(output, UsdcValue[output])
  PROVE  UsdcSide!Inv' /\ \E n \in UsdcNotes : Exchange!Usdc!Replace(n, output)
<1>0. PICK n \in UsdcNotes : \E p, new : Usdc!Transfer(p, n, output, new, UsdcValue[output])
  BY DEF UsdcTransfer
<1>1. PICK p, new : Usdc!Transfer(p, n, output, new, UsdcValue[output])
  BY <1>0
<1>2. UsdcSide!Transfer(p, n, output, new, UsdcValue[output])
  BY <1>1 DEF Usdc!Transfer, UsdcSide!Transfer, Usdc!Initialized, UsdcSide!Initialized,
     Usdc!IsCurrentTransition, UsdcSide!IsCurrentTransition,
     Usdc!Range, UsdcSide!Range, Usdc!Verifies, UsdcSide!Verifies,
     Usdc!Unspent, UsdcSide!Unspent, Usdc!SpendNote, UsdcSide!SpendNote,
     Usdc!AppendLeaf, UsdcSide!AppendLeaf,
     Usdc!MerkleRoot, UsdcSide!MerkleRoot, Usdc!PushRoot, UsdcSide!PushRoot
<1>3. UsdcSide!Inv'
  BY <1>2, UsdcSide!TransferInv, SwapAssumption DEF PoolConstants
<1>4. UsdcSide!Ledger!Replace(n, output)
  BY <1>2, UsdcSide!TransferSeen, SwapAssumption DEF PoolConstants
<1>5. Exchange!Usdc!Replace(n, output)
  BY <1>4 DEF UsdcSide!Ledger!Replace, Exchange!Usdc!Replace,
     UsdcSide!Live, Usdc!Live, UsdcSide!Range, Usdc!Range
<1>. QED
  BY <1>3, <1>5

LEMMA UsdcUntouched ==
  ASSUME UsdcSide!Inv,
         UNCHANGED <<usdcAdmin, usdcRoot, usdcRoots, usdcCommitments, usdcNullifiers, usdcTokens>>
  PROVE  UsdcSide!Inv' /\ UNCHANGED Exchange!Usdc!ledger
<1>1. UNCHANGED UsdcSide!vars
  BY DEF UsdcSide!vars
<1>2. UsdcSide!Inv'
  BY <1>1, UsdcSide!StutterInv, SwapAssumption DEF PoolConstants
<1>. QED
  BY <1>2 DEF Exchange!Usdc!ledger, Usdc!Live, Usdc!Range

LEMMA UsdcPays ==
  ASSUME UsdcSide!Inv
  PROVE  Usdc!NotesStayWithdrawable
<1>1. UsdcSide!NotesStayWithdrawable
  BY UsdcSide!ConsistentPoolPays, SwapAssumption DEF PoolConstants
<1>. QED
  BY <1>1 DEF Usdc!NotesStayWithdrawable, UsdcSide!NotesStayWithdrawable,
     Usdc!WithdrawResult, UsdcSide!WithdrawResult, Usdc!WithdrawalProven, UsdcSide!WithdrawalProven,
     Usdc!Initialized, UsdcSide!Initialized, Usdc!Range, UsdcSide!Range, Usdc!Verifies, UsdcSide!Verifies,
     Usdc!Unspent, UsdcSide!Unspent, Usdc!Proof, UsdcSide!Proof, Usdc!Live, UsdcSide!Live

-----------------------------------------------------------------------------
(* The same of the XLM pool.                                                *)

LEMMA XlmInitially ==
  ASSUME Xlm!Init
  PROVE  XlmSide!Inv /\ Exchange!Xlm!Init
<1>1. XlmSide!Init
  BY DEF Xlm!Init, XlmSide!Init, Xlm!ZeroRoot, XlmSide!ZeroRoot, Xlm!Accounts, XlmSide!Accounts
<1>2. XlmSide!Inv
  BY <1>1, XlmSide!InitInv, SwapAssumption DEF PoolConstants
<1>3. XlmSide!Ledger!Init
  BY <1>1, XlmSide!LedgerInit, SwapAssumption DEF PoolConstants
<1>. QED
  BY <1>2, <1>3 DEF XlmSide!Ledger!Init, Exchange!Xlm!Init,
     XlmSide!Live, Xlm!Live, XlmSide!Range, Xlm!Range

LEMMA XlmInitialize ==
  ASSUME XlmSide!Inv, NEW a \in Admins, Xlm!Initialize(a)
  PROVE  XlmSide!Inv' /\ UNCHANGED Exchange!Xlm!ledger
<1>1. XlmSide!Initialize(a)
  BY DEF Xlm!Initialize, XlmSide!Initialize, Xlm!Initialized, XlmSide!Initialized,
         Xlm!ZeroRoot, XlmSide!ZeroRoot
<1>2. XlmSide!Inv'
  BY <1>1, XlmSide!InitializeInv, SwapAssumption DEF PoolConstants
<1>3. UNCHANGED XlmSide!Ledger!ledger
  BY <1>1, XlmSide!InitializeUnseen, SwapAssumption DEF PoolConstants
<1>. QED
  BY <1>2, <1>3 DEF XlmSide!Ledger!ledger, Exchange!Xlm!ledger,
     XlmSide!Live, Xlm!Live, XlmSide!Range, Xlm!Range

LEMMA XlmDeposit ==
  ASSUME XlmSide!Inv, NEW from \in Users, NEW n \in XlmNotes, NEW previous, NEW new,
         Xlm!Deposit(from, n, previous, new, XlmValue[n])
  PROVE  XlmSide!Inv' /\ Exchange!Xlm!Deposit(n)
<1>1. XlmSide!Deposit(from, n, previous, new, XlmValue[n])
  BY DEF Xlm!Deposit, XlmSide!Deposit, Xlm!Initialized, XlmSide!Initialized,
         Xlm!IsCurrentTransition, XlmSide!IsCurrentTransition,
         Xlm!MoveTokens, XlmSide!MoveTokens, Xlm!AppendLeaf, XlmSide!AppendLeaf,
         Xlm!MerkleRoot, XlmSide!MerkleRoot, Xlm!PushRoot, XlmSide!PushRoot
<1>2. XlmSide!Inv'
  BY <1>1, XlmSide!DepositInv, SwapAssumption DEF PoolConstants
<1>3. XlmSide!Ledger!Deposit(n)
  BY <1>1, XlmSide!DepositSeen, SwapAssumption DEF PoolConstants
<1>. QED
  BY <1>2, <1>3 DEF XlmSide!Ledger!Deposit, Exchange!Xlm!Deposit,
     XlmSide!Ledger!Create, Exchange!Xlm!Create,
     XlmSide!Live, Xlm!Live, XlmSide!Range, Xlm!Range

LEMMA XlmWithdraw ==
  ASSUME XlmSide!Inv, NEW n \in XlmNotes, NEW to \in Users, NEW r, NEW w \in Xlm!Amounts,
         Xlm!Withdraw(to, Xlm!Proof(n, r, w, to), n)
  PROVE  XlmSide!Inv' /\ \E amount \in 1 .. XlmValue[n] : Exchange!Xlm!Redeem(n, amount)
<1>. DEFINE p == XlmSide!Proof(n, r, w, to)
<1>1. p = Xlm!Proof(n, r, w, to)
  BY DEF Xlm!Proof, XlmSide!Proof
<1>2. p.withdrawn \in Nat
  <2>1. w \in XlmSide!Amounts
    BY DEF Xlm!Amounts, XlmSide!Amounts
  <2>. QED
    BY <2>1, XlmSide!CallTypes, SwapAssumption DEF PoolConstants
<1>. HIDE DEF p
<1>3. Xlm!Withdraw(to, p, n)
  BY <1>1
<1>4. XlmSide!Withdraw(to, p, n)
  BY <1>3 DEF Xlm!Withdraw, XlmSide!Withdraw, Xlm!WithdrawalProven, XlmSide!WithdrawalProven,
     Xlm!Initialized, XlmSide!Initialized, Xlm!Range, XlmSide!Range, Xlm!Verifies, XlmSide!Verifies,
     Xlm!Unspent, XlmSide!Unspent, Xlm!SpendNote, XlmSide!SpendNote, Xlm!MoveTokens, XlmSide!MoveTokens
<1>5. XlmSide!Inv'
  BY <1>2, <1>4, XlmSide!WithdrawInv, SwapAssumption DEF PoolConstants
<1>6. \E amount \in 1 .. XlmValue[n] : XlmSide!Ledger!Redeem(n, amount)
  BY <1>2, <1>4, XlmSide!WithdrawSeen, SwapAssumption DEF PoolConstants
<1>. QED
  BY <1>5, <1>6 DEF XlmSide!Ledger!Redeem, Exchange!Xlm!Redeem,
     XlmSide!Live, Xlm!Live, XlmSide!Range, Xlm!Range

LEMMA XlmTransferred ==
  ASSUME XlmSide!Inv, NEW output \in XlmNotes, XlmTransfer(output, XlmValue[output])
  PROVE  XlmSide!Inv' /\ \E n \in XlmNotes : Exchange!Xlm!Replace(n, output)
<1>0. PICK n \in XlmNotes : \E p, new : Xlm!Transfer(p, n, output, new, XlmValue[output])
  BY DEF XlmTransfer
<1>1. PICK p, new : Xlm!Transfer(p, n, output, new, XlmValue[output])
  BY <1>0
<1>2. XlmSide!Transfer(p, n, output, new, XlmValue[output])
  BY <1>1 DEF Xlm!Transfer, XlmSide!Transfer, Xlm!Initialized, XlmSide!Initialized,
     Xlm!IsCurrentTransition, XlmSide!IsCurrentTransition,
     Xlm!Range, XlmSide!Range, Xlm!Verifies, XlmSide!Verifies,
     Xlm!Unspent, XlmSide!Unspent, Xlm!SpendNote, XlmSide!SpendNote,
     Xlm!AppendLeaf, XlmSide!AppendLeaf,
     Xlm!MerkleRoot, XlmSide!MerkleRoot, Xlm!PushRoot, XlmSide!PushRoot
<1>3. XlmSide!Inv'
  BY <1>2, XlmSide!TransferInv, SwapAssumption DEF PoolConstants
<1>4. XlmSide!Ledger!Replace(n, output)
  BY <1>2, XlmSide!TransferSeen, SwapAssumption DEF PoolConstants
<1>5. Exchange!Xlm!Replace(n, output)
  BY <1>4 DEF XlmSide!Ledger!Replace, Exchange!Xlm!Replace,
     XlmSide!Live, Xlm!Live, XlmSide!Range, Xlm!Range
<1>. QED
  BY <1>3, <1>5

LEMMA XlmUntouched ==
  ASSUME XlmSide!Inv,
         UNCHANGED <<xlmAdmin, xlmRoot, xlmRoots, xlmCommitments, xlmNullifiers, xlmTokens>>
  PROVE  XlmSide!Inv' /\ UNCHANGED Exchange!Xlm!ledger
<1>1. UNCHANGED XlmSide!vars
  BY DEF XlmSide!vars
<1>2. XlmSide!Inv'
  BY <1>1, XlmSide!StutterInv, SwapAssumption DEF PoolConstants
<1>. QED
  BY <1>2 DEF Exchange!Xlm!ledger, Xlm!Live, Xlm!Range

LEMMA XlmPays ==
  ASSUME XlmSide!Inv
  PROVE  Xlm!NotesStayWithdrawable
<1>1. XlmSide!NotesStayWithdrawable
  BY XlmSide!ConsistentPoolPays, SwapAssumption DEF PoolConstants
<1>. QED
  BY <1>1 DEF Xlm!NotesStayWithdrawable, XlmSide!NotesStayWithdrawable,
     Xlm!WithdrawResult, XlmSide!WithdrawResult, Xlm!WithdrawalProven, XlmSide!WithdrawalProven,
     Xlm!Initialized, XlmSide!Initialized, Xlm!Range, XlmSide!Range, Xlm!Verifies, XlmSide!Verifies,
     Xlm!Unspent, XlmSide!Unspent, Xlm!Proof, XlmSide!Proof, Xlm!Live, XlmSide!Live

-----------------------------------------------------------------------------
(* The steps of the two pools together.                                     *)

\* A deposit or a withdrawal in one pool leaves the other one as it is.
LEMMA UsdcAloneStep ==
  ASSUME Inv, UsdcAlone
  PROVE  Inv' /\ [Exchange!Next]_<<Exchange!Usdc!ledger, Exchange!Xlm!ledger>>
<1>1. XlmSide!Inv' /\ UNCHANGED Exchange!Xlm!ledger
  BY XlmUntouched DEF Inv, UsdcAlone
<1>2. ASSUME NEW a \in Admins, Usdc!Initialize(a)
      PROVE  UsdcSide!Inv' /\ UNCHANGED Exchange!Usdc!ledger
  BY <1>2, UsdcInitialize DEF Inv
<1>3. ASSUME NEW from \in Users, NEW n \in UsdcNotes, NEW previous, NEW new,
             Usdc!Deposit(from, n, previous, new, UsdcValue[n])
      PROVE  UsdcSide!Inv' /\ Exchange!Usdc!Deposit(n)
  BY <1>3, UsdcDeposit DEF Inv
<1>4. ASSUME NEW n \in UsdcNotes, NEW to \in Users, NEW r, NEW w \in Usdc!Amounts,
             Usdc!Withdraw(to, Usdc!Proof(n, r, w, to), n)
      PROVE  UsdcSide!Inv' /\ \E amount \in 1 .. UsdcValue[n] : Exchange!Usdc!Redeem(n, amount)
  BY <1>4, UsdcWithdraw DEF Inv
<1>5. \/ UsdcSide!Inv' /\ UNCHANGED Exchange!Usdc!ledger
      \/ UsdcSide!Inv' /\ \E n \in UsdcNotes : Exchange!Usdc!Deposit(n)
      \/ /\ UsdcSide!Inv'
         /\ \E n \in UsdcNotes : \E amount \in 1 .. UsdcValue[n] : Exchange!Usdc!Redeem(n, amount)
  BY <1>2, <1>3, <1>4 DEF UsdcAlone
<1>. QED
  BY <1>1, <1>5 DEF Inv, Exchange!Next, Exchange!UsdcAlone

LEMMA XlmAloneStep ==
  ASSUME Inv, XlmAlone
  PROVE  Inv' /\ [Exchange!Next]_<<Exchange!Usdc!ledger, Exchange!Xlm!ledger>>
<1>1. UsdcSide!Inv' /\ UNCHANGED Exchange!Usdc!ledger
  BY UsdcUntouched DEF Inv, XlmAlone
<1>2. ASSUME NEW a \in Admins, Xlm!Initialize(a)
      PROVE  XlmSide!Inv' /\ UNCHANGED Exchange!Xlm!ledger
  BY <1>2, XlmInitialize DEF Inv
<1>3. ASSUME NEW from \in Users, NEW n \in XlmNotes, NEW previous, NEW new,
             Xlm!Deposit(from, n, previous, new, XlmValue[n])
      PROVE  XlmSide!Inv' /\ Exchange!Xlm!Deposit(n)
  BY <1>3, XlmDeposit DEF Inv
<1>4. ASSUME NEW n \in XlmNotes, NEW to \in Users, NEW r, NEW w \in Xlm!Amounts,
             Xlm!Withdraw(to, Xlm!Proof(n, r, w, to), n)
      PROVE  XlmSide!Inv' /\ \E amount \in 1 .. XlmValue[n] : Exchange!Xlm!Redeem(n, amount)
  BY <1>4, XlmWithdraw DEF Inv
<1>5. \/ XlmSide!Inv' /\ UNCHANGED Exchange!Xlm!ledger
      \/ XlmSide!Inv' /\ \E n \in XlmNotes : Exchange!Xlm!Deposit(n)
      \/ /\ XlmSide!Inv'
         /\ \E n \in XlmNotes : \E amount \in 1 .. XlmValue[n] : Exchange!Xlm!Redeem(n, amount)
  BY <1>2, <1>3, <1>4 DEF XlmAlone
<1>. QED
  BY <1>1, <1>5 DEF Inv, Exchange!Next, Exchange!XlmAlone

\* execute replaces a note in both pools: each output is worth no more than the note it
\* replaces, because both calls carry the value of their output.
LEMMA SwapStep ==
  ASSUME Inv, Swap
  PROVE  Inv' /\ Exchange!Swap
<1>1. PICK bobOutput \in UsdcNotes, aliceOutput \in XlmNotes :
        /\ UsdcTransfer(bobOutput, UsdcValue[bobOutput])
        /\ XlmTransfer(aliceOutput, XlmValue[aliceOutput])
  BY DEF Swap, Execute
<1>2. UsdcSide!Inv' /\ \E n \in UsdcNotes : Exchange!Usdc!Replace(n, bobOutput)
  BY <1>1, UsdcTransferred DEF Inv
<1>3. XlmSide!Inv' /\ \E n \in XlmNotes : Exchange!Xlm!Replace(n, aliceOutput)
  BY <1>1, XlmTransferred DEF Inv
<1>. QED
  BY <1>2, <1>3 DEF Inv, Exchange!Swap

LEMMA InitInv == Init => Inv /\ Exchange!Init
  BY UsdcInitially, XlmInitially DEF Init, Inv, Exchange!Init

LEMMA NextInv ==
  Inv /\ [Next]_vars => Inv' /\ [Exchange!Next]_<<Exchange!Usdc!ledger, Exchange!Xlm!ledger>>
<1>. SUFFICES ASSUME Inv, [Next]_vars
              PROVE  Inv' /\ [Exchange!Next]_<<Exchange!Usdc!ledger, Exchange!Xlm!ledger>>
  OBVIOUS
<1>1. CASE UsdcAlone
  BY <1>1, UsdcAloneStep
<1>2. CASE XlmAlone
  BY <1>2, XlmAloneStep
<1>3. CASE Swap
  BY <1>3, SwapStep DEF Exchange!Next
<1>4. CASE UNCHANGED vars
  BY <1>4, UsdcUntouched, XlmUntouched DEF vars, Inv
<1>. QED
  BY <1>1, <1>2, <1>3, <1>4 DEF Next

\* Each pool keeps the invariant it has alone, with swaps between its own calls.
THEOREM InvHolds == Spec => []Inv
<1>. QED
  BY InitInv, NextInv, PTL DEF Spec

\* BothPoolsHonourNotes: after any mix of swaps, deposits and withdrawals the owner of
\* any unspent note, in either pool, is one accepted call away from all of its value.
THEOREM BothPoolsPay == Spec => []BothPoolsHonourNotes
<1>1. Inv => BothPoolsHonourNotes
  BY UsdcPays, XlmPays DEF Inv, BothPoolsHonourNotes
<1>. QED
  BY <1>1, InvHolds, PTL

\* ImplementsExchange: execute is atomic over the two pools; the rest is two ledgers
\* that are used independently.
THEOREM SwapImplementsExchange == Spec => ImplementsExchange
<1>. QED
  BY InitInv, NextInv, InvHolds, PTL DEF Spec, ImplementsExchange, Exchange!Spec
=============================================================================
