---------------------------- MODULE ShieldedPool ----------------------------
(***************************************************************************)
(* One shielded pool contract (packages/contracts/shielded_pool).  Users   *)
(* deposit tokens against the commitment of a note, withdraw them with a   *)
(* zero-knowledge proof that they own an unspent note, and move a note to  *)
(* a new owner inside the pool.                                            *)
(*                                                                         *)
(* A Soroban call either returns Ok and its writes are kept, or returns an *)
(* error or traps and all of its writes are undone; so a call is one       *)
(* action, enabled exactly when every check of the code passes, and a      *)
(* refused call is a stuttering step.  A require_auth passes when the      *)
(* account signed the call: who signs is not restricted here, so the       *)
(* checks of signatures leave nothing in the guards.                       *)
(*                                                                         *)
(* A note stands for its secrets; its commitment and the hash of its       *)
(* nullifier determine it (Poseidon is taken to be collision free), so all *)
(* three are the same element of Notes.                                    *)
(***************************************************************************)
EXTENDS Integers, Sequences, FiniteSets, Functions

CONSTANTS
  Notes,         \* the notes clients may create
  Value,         \* Value[n]: the amount hidden in the commitment of n
  Worth,         \* Worth[S]: the sum of the values of a set S of notes
  Users,         \* addresses that hold tokens
  PoolAddress,   \* the address of the contract itself
  NoAdmin,       \* the admin key is not set: the contract is not initialised
  Admins,        \* addresses that may be made admin
  InitialTokens, \* the tokens each user starts with
  MaxRoots,      \* MAX_ROOTS, the size of the window of accepted roots
  MaxLeaves      \* bound: the capacity of the commitment tree

ASSUME PoolAssumption ==
  /\ Value \in [Notes -> Nat \ {0}]
  /\ InitialTokens \in [Users -> Nat]
  /\ PoolAddress \notin Users
  /\ NoAdmin \notin Admins
  /\ MaxRoots \in Nat \ {0}
  /\ MaxLeaves \in Nat

\* Worth is the additive measure Value induces on sets of notes.
ASSUME WorthAssumption ==
  /\ Worth \in [SUBSET Notes -> Nat]
  /\ Worth[{}] = 0
  /\ \A S \in SUBSET Notes : \A n \in Notes \ S :
        Worth[S \cup {n}] = Worth[S] + Value[n]

VARIABLES
  admin,        \* ADMIN_KEY, or NoAdmin
  root,         \* ROOT_KEY: the current Merkle root
  roots,        \* ROOTS_KEY: the window of accepted roots, oldest first
  commitments,  \* COMMIT_KEY: the leaves in insertion order
  nullifiers,   \* NULL_KEY: the nullifiers of the spent notes, in spending order
  tokens        \* balances of the pool's token, the contract's own included

storage == <<admin, root, roots, commitments, nullifiers>>
vars == <<admin, root, roots, commitments, nullifiers, tokens>>

Accounts == Users \cup {PoolAddress}

-----------------------------------------------------------------------------
(* Merkle roots.  The Poseidon tree is abstracted to the sequence of leaves *)
(* it hashes.  initialize stores 32 zero bytes, which is the root of no     *)
(* tree: not even the empty one, whose root is the zero hash of depth 20.   *)

ZeroRoot == [kind |-> "zeroBytes", leaves |-> <<>>]
MerkleRoot(leaves) == [kind |-> "poseidon", leaves |-> leaves]

RootValues == [kind : {"zeroBytes", "poseidon"}, leaves : Seq(Notes)]

\* The root the contract holds after the first k of these leaves.
RootAfter(leaves, k) ==
  IF k = 0 THEN ZeroRoot ELSE MerkleRoot(SubSeq(leaves, 1, k))

\* Faulty variants of PushRoot: one root too many, and a window that fills up.
PushRootTooWide(window, r) ==
  Append(IF Len(window) > MaxRoots THEN Tail(window) ELSE window, r)
PushRootUntilFull(window, r) ==
  IF Len(window) >= MaxRoots THEN window ELSE Append(window, r)

PushRoot(window, r) ==
  Append(IF Len(window) >= MaxRoots THEN Tail(window) ELSE window, r)

-----------------------------------------------------------------------------
(* Proofs.  A proof is the tuple of its public signals.  The circuit        *)
(* accepts a withdrawn value from 0 to the value of a note whose commitment *)
(* is a leaf under the state root; it leaves the last signal (a recipient   *)
(* or an output commitment) free, and only binds the proof to it.           *)

Proof(n, r, w, b) == [note |-> n, root |-> r, withdrawn |-> w, binding |-> b]

Verifies(p) ==
  /\ p.note \in Range(p.root.leaves)
  /\ p.withdrawn \in 0 .. Value[p.note]

-----------------------------------------------------------------------------
Init ==
  /\ admin = NoAdmin
  /\ root = ZeroRoot
  /\ roots = <<>>
  /\ commitments = <<>>
  /\ nullifiers = <<>>
  /\ tokens = [a \in Accounts |-> IF a = PoolAddress THEN 0 ELSE InitialTokens[a]]

Initialized == admin # NoAdmin

IsCurrentTransition(previous, new) == root = previous /\ previous # new

\* Faulty variant: the list of nullifiers is not searched.
UnspentUnchecked(n) == n \in Notes
Unspent(n) == n \notin Range(nullifiers)

\* Faulty variant: the caller's root is stored as it comes.
AppendLeafTrusting(n, new) ==
  /\ Len(commitments) < MaxLeaves
  /\ commitments' = Append(commitments, n)
  /\ root' = new
  /\ roots' = PushRoot(roots, new)

\* The contract recomputes the root over its own leaves before it stores one.
AppendLeaf(n, new) ==
  /\ Len(commitments) < MaxLeaves
  /\ new = MerkleRoot(Append(commitments, n))
  /\ commitments' = Append(commitments, n)
  /\ root' = new
  /\ roots' = PushRoot(roots, new)

SpendNote(n) == nullifiers' = Append(nullifiers, n)

MoveTokens(from, to, amount) ==
  /\ tokens[from] >= amount
  /\ tokens' = [tokens EXCEPT ![from] = @ - amount, ![to] = @ + amount]

\* Faulty variant: a second initialize is let through.
InitializeAgain(a) ==
  /\ admin' = a
  /\ root' = ZeroRoot
  /\ roots' = <<ZeroRoot>>
  /\ commitments' = <<>>
  /\ UNCHANGED <<nullifiers, tokens>>

Initialize(a) ==
  /\ ~Initialized
  /\ admin' = a
  /\ root' = ZeroRoot
  /\ roots' = <<ZeroRoot>>
  /\ commitments' = <<>>
  /\ UNCHANGED <<nullifiers, tokens>>

Deposit(from, n, previous, new, amount) ==
  /\ Initialized
  /\ amount > 0
  /\ IsCurrentTransition(previous, new)
  /\ MoveTokens(from, PoolAddress, amount)
  /\ AppendLeaf(n, new)
  /\ UNCHANGED <<admin, nullifiers>>

\* Faulty variant: the nullifier recorded need not be the proof's.
WithdrawalProvenAnyNullifier(to, p, nullifier) ==
  /\ Initialized
  /\ p.binding = to
  /\ p.withdrawn > 0
  /\ p.root \in Range(roots)
  /\ Verifies(p)

\* The checks of withdraw before it looks at its balance and its nullifiers.
WithdrawalProven(to, p, nullifier) ==
  /\ Initialized
  /\ p.note = nullifier
  /\ p.binding = to
  /\ p.withdrawn > 0
  /\ p.root \in Range(roots)
  /\ Verifies(p)

\* Faulty variant: the nullifier is checked and not stored.
WithdrawUnrecorded(to, p, nullifier) ==
  /\ WithdrawalProven(to, p, nullifier)
  /\ Unspent(nullifier)
  /\ MoveTokens(PoolAddress, to, p.withdrawn)
  /\ UNCHANGED storage

\* Any root of the window will do: the notes under an old root are still notes.
Withdraw(to, p, nullifier) ==
  /\ WithdrawalProven(to, p, nullifier)
  /\ Unspent(nullifier)
  /\ SpendNote(nullifier)
  /\ MoveTokens(PoolAddress, to, p.withdrawn)
  /\ UNCHANGED <<admin, root, roots, commitments>>

\* Faulty variant: the amount proven is not compared with the amount agreed.
TransferAnyAmount(p, nullifier, output, new, expected) ==
  /\ Initialized
  /\ p.note = nullifier
  /\ p.withdrawn > 0
  /\ p.binding = output
  /\ p.root \in Range(roots)
  /\ IsCurrentTransition(p.root, new)
  /\ Verifies(p)
  /\ Unspent(nullifier)
  /\ SpendNote(nullifier)
  /\ AppendLeaf(output, new)
  /\ UNCHANGED <<admin, tokens>>

\* A transfer appends a leaf, so its proof must be against the current root.
Transfer(p, nullifier, output, new, expected) ==
  /\ Initialized
  /\ p.note = nullifier
  /\ p.withdrawn > 0 /\ p.withdrawn = expected
  /\ p.binding = output
  /\ p.root \in Range(roots)
  /\ IsCurrentTransition(p.root, new)
  /\ Verifies(p)
  /\ Unspent(nullifier)
  /\ SpendNote(nullifier)
  /\ AppendLeaf(output, new)
  /\ UNCHANGED <<admin, tokens>>

\* What a client learns of a withdrawal: the balance is checked before the
\* nullifier, so a spent note met by an empty pool is InsufficientBalance.
WithdrawResult(to, p, nullifier) ==
  IF ~WithdrawalProven(to, p, nullifier) THEN "Refused"
  ELSE IF tokens[PoolAddress] < p.withdrawn THEN "InsufficientBalance"
  ELSE IF ~Unspent(nullifier) THEN "NullifierUsed"
  ELSE "Ok"

-----------------------------------------------------------------------------
(* The callers.  A client may have read the leaves or the root at any       *)
(* earlier time, so it knows the root of any prefix of the leaves, and may  *)
(* also hold the root of the empty tree.  The contract cannot open a        *)
(* commitment: that the amount of a deposit, and the agreed amount of a     *)
(* transfer, is the value inside the commitment is the callers' part        *)
(* (UsersService.deposit and SwapService.ensureOutputNote build both from   *)
(* the same number).                                                        *)

Prefixes == {SubSeq(commitments, 1, k) : k \in 0 .. Len(commitments)}

KnownRoots == {ZeroRoot} \cup {MerkleRoot(s) : s \in Prefixes}

ProposedRoots(n) == {MerkleRoot(Append(s, n)) : s \in Prefixes}

Amounts == UNION {0 .. Value[n] : n \in Notes}

Next ==
  \/ \E a \in Admins : Initialize(a)
  \/ \E from \in Users, n \in Notes, previous \in KnownRoots :
       \E new \in ProposedRoots(n) : Deposit(from, n, previous, new, Value[n])
  \/ \E n, nullifier \in Notes, r \in KnownRoots, w \in Amounts, to, b \in Users :
       Withdraw(to, Proof(n, r, w, b), nullifier)
  \/ \E n, nullifier, output, b \in Notes, r \in KnownRoots, w \in Amounts :
       \E new \in ProposedRoots(output) :
         Transfer(Proof(n, r, w, b), nullifier, output, new, Value[output])

Spec == Init /\ [][Next]_vars
-----------------------------------------------------------------------------
(* Properties *)

\* Storage and balances keep their types; no balance goes below zero.
TypeOK ==
  /\ admin \in Admins \cup {NoAdmin}
  /\ commitments \in Seq(Notes)
  /\ Len(commitments) <= MaxLeaves
  /\ root \in RootValues
  /\ roots \in Seq(RootValues)
  /\ nullifiers \in Seq(Notes)
  /\ tokens \in [Accounts -> Nat]

\* The stored root is always the root of the stored leaves: a caller that
\* computed its new root from a stale copy of the leaves changes nothing.
RootIsOfCommitments == root = RootAfter(commitments, Len(commitments))

\* The window holds exactly the last MaxRoots roots the pool went through, in
\* order and ending with the current one, so a proof stays acceptable for
\* MaxRoots - 1 appends after it was made and for no longer.
WindowIsRecentHistory ==
  Initialized =>
    /\ Len(roots) =
         IF Len(commitments) < MaxRoots THEN Len(commitments) + 1 ELSE MaxRoots
    /\ \A i \in 1 .. Len(roots) :
         roots[i] = RootAfter(commitments, Len(commitments) - Len(roots) + i)

\* No nullifier is recorded twice: a note is spent by one withdrawal or one
\* transfer, never by two, whichever roots the proofs were made against.
NoDoubleSpend ==
  \A i, j \in 1 .. Len(nullifiers) : nullifiers[i] = nullifiers[j] => i = j

\* Only a note that is a leaf of this pool is ever spent in it.
OnlyCommittedNotesSpent == Range(nullifiers) \subseteq Range(commitments)

Live == Range(commitments) \ Range(nullifiers)

\* The pool holds at least what all of its unspent notes are worth together.
Solvency == tokens[PoolAddress] >= Worth[Live]

\* Whoever owns an unspent note can redeem it in full right now, with a proof
\* against the current root, whatever others deposited, withdrew or moved.
NotesStayWithdrawable ==
  \A n \in Live, u \in Users :
    WithdrawResult(u, Proof(n, root, Value[n], u), n) = "Ok"

Extends(new, old) ==
  /\ Len(new) >= Len(old)
  /\ \A i \in 1 .. Len(old) : new[i] = old[i]

\* Leaves and nullifiers are never dropped, changed or reordered, by a second
\* initialize either, and no call appends two of the same kind at once.
HistoryAppendOnly ==
  [][/\ Extends(commitments', commitments) /\ Len(commitments') <= Len(commitments) + 1
     /\ Extends(nullifiers', nullifiers) /\ Len(nullifiers') <= Len(nullifiers) + 1]_vars

\* What the pool promises, with no trees, windows and proofs: see PrivateLedger.
Ledger == INSTANCE PrivateLedger WITH
  live <- Live, spent <- Range(nullifiers), cash <- tokens[PoolAddress]

\* Every call of the contract is a step of the abstract ledger, or changes
\* nothing the ledger can see.
ImplementsLedger == Ledger!Spec
=============================================================================
