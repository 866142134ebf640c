----------------------------- MODULE MerkleTree -----------------------------
(***************************************************************************)
(* The commitment tree, which three programs compute: the contract over    *)
(* all its leaves (poseidon.rs, compute_root_from_commitments), the API    *)
(* over the leaves it read (merkle-tree.service.ts), and the circuit along *)
(* one path (merkleProof.circom).  ShieldedPool takes a root for the list  *)
(* of the leaves under it; this module checks what that rests on.          *)
(*                                                                         *)
(* The tree is sparse: a level is only as long as it has to be, and what   *)
(* is missing counts as the root of a subtree of zero leaves.  Poseidon is *)
(* taken to be collision free, so a hash is the pair of its arguments.     *)
(***************************************************************************)
EXTENDS Integers, Sequences

CONSTANTS
  Depth,      \* TREE_DEPTH
  Zero,       \* 32 zero bytes
  Leaves      \* the values of leaves that callers may append

\* What an instance has to assume of the constants.
TreeAssumption == Depth \in Nat \ {0} /\ Zero \in Leaves

VARIABLES
  commitments,  \* COMMIT_KEY: the leaves in insertion order
  root          \* ROOT_KEY

vars == <<commitments, root>>

-----------------------------------------------------------------------------
Leaf(x) == <<x>>
Hash(left, right) == <<left, right>>

Zeros[d \in 0 .. Depth] == IF d = 0 THEN Leaf(Zero) ELSE Hash(Zeros[d - 1], Zeros[d - 1])

\* Faulty variant: every level is filled up with the zero leaf.
FillUpWithLeaf(level, d) == IF Len(level) % 2 = 1 THEN Append(level, Zeros[0]) ELSE level

\* A level of odd length is filled up with one empty subtree.
FillUp(level, d) == IF Len(level) % 2 = 1 THEN Append(level, Zeros[d]) ELSE level

Parents(level) == [i \in 1 .. Len(level) \div 2 |-> Hash(level[2 * i - 1], level[2 * i])]

\* The levels the loops build, from the leaves up, before they are filled up.
Levels(leaves) ==
  LET level[d \in 0 .. Depth] ==
        IF d = 0 THEN [i \in 1 .. Len(leaves) |-> Leaf(leaves[i])]
        ELSE Parents(FillUp(level[d - 1], d - 1))
  IN level

ComputeRoot(leaves) ==
  LET top == Levels(leaves)[Depth] IN
  IF top = <<>> THEN Zeros[Depth] ELSE top[1]

\* The places above leaf number index, counted from 0: every level halves it.
Places(index) ==
  LET place[d \in 0 .. Depth] == IF d = 0 THEN index ELSE place[d - 1] \div 2
  IN place

Sibling(k) == IF k % 2 = 1 THEN k - 1 ELSE k + 1

\* What stands at a place of a level; behind its end, the given filling.
NodeAt(level, k, filling) == IF k < Len(level) THEN level[k + 1] ELSE filling

\* Faulty variant: what is missing next to a path is the zero leaf at every level.
SiblingsFromLeaf(leaves, index) ==
  [d \in 0 .. Depth - 1 |-> NodeAt(Levels(leaves)[d], Sibling(Places(index)[d]), Zeros[0])]

\* The siblings of the path from a leaf to the root.
Siblings(leaves, index) ==
  [d \in 0 .. Depth - 1 |-> NodeAt(Levels(leaves)[d], Sibling(Places(index)[d]), Zeros[d])]

\* What the circuit computes: each bit of the index says which of the two is left.
Path(leaf, index, siblings) ==
  LET node[d \in 0 .. Depth] ==
        IF d = 0 THEN Leaf(leaf)
        ELSE IF Places(index)[d - 1] % 2 = 0
               THEN Hash(node[d - 1], siblings[d - 1])
               ELSE Hash(siblings[d - 1], node[d - 1])
  IN node

RootFromPath(leaf, index, siblings) == Path(leaf, index, siblings)[Depth]

-----------------------------------------------------------------------------
(* The contract: initialize stores zero bytes, and deposit and transfer     *)
(* append a leaf whenever the new root differs from the stored one.  There  *)
(* is no other limit on the number of leaves.                               *)

Init == commitments = <<>> /\ root = Leaf(Zero)

\* Faulty variant: the new root may equal the stored one.
AppendCommitmentUnchecked(x) ==
  /\ Len(commitments) <= 2 ^ Depth
  /\ commitments' = Append(commitments, x)
  /\ root' = ComputeRoot(Append(commitments, x))

AppendCommitment(x) ==
  LET new == ComputeRoot(Append(commitments, x)) IN
  /\ root # new
  /\ commitments' = Append(commitments, x)
  /\ root' = new

Next == \E x \in Leaves : AppendCommitment(x)

Spec == Init /\ [][Next]_vars

-----------------------------------------------------------------------------
(* Properties *)

\* How many places there are d levels under a node: 2 ^ d.
Width[d \in 0 .. Depth] == IF d = 0 THEN 1 ELSE 2 * Width[d - 1]
Capacity == Width[Depth]
Positions == 0 .. Capacity - 1

\* The definition of the tree: every level has all of its places, and a leaf that is
\* missing is zero.
LeafAt(leaves, k) == NodeAt(leaves, k, Zero)
FullTree(leaves) ==
  LET tree[d \in 0 .. Depth] ==
        IF d = 0 THEN [k \in Nat |-> Leaf(LeafAt(leaves, k))]
        ELSE [k \in Nat |-> Hash(tree[d - 1][2 * k], tree[d - 1][2 * k + 1])]
  IN tree

\* The root that the sparse loops compute is the root of the full tree, at every
\* number of leaves from none to a full tree.
RootIsOfFullTree == ComputeRoot(commitments) = FullTree(commitments)[Depth][0]

\* The path the API builds for a leaf leads the circuit to the stored root, at every size
\* of the tree, so that an owner can always prove a note; and no honest path makes the
\* circuit accept what is not in the tree, at another position or with another leaf.
PathsProve ==
  /\ \A i \in DOMAIN commitments :
       RootFromPath(commitments[i], i - 1, Siblings(commitments, i - 1)) = root
  /\ commitments # <<>> =>
       \A i, j \in Positions : \A x \in Leaves :
         RootFromPath(x, j, Siblings(commitments, i)) = root => LeafAt(commitments, j) = x

\* The pool goes through different roots only, so that a root stands for the list of
\* leaves under it, although the tree of a list that ends in zeros, or overflows, is
\* that of a shorter list; and it never holds a leaf that the tree has no place for,
\* although no line of the contract compares the number of leaves with the capacity.
RootsDiffer ==
  /\ Len(commitments) <= Capacity
  /\ \A m, n \in 1 .. Len(commitments) :
       ComputeRoot(SubSeq(commitments, 1, m)) = ComputeRoot(SubSeq(commitments, 1, n)) => m = n
=============================================================================
