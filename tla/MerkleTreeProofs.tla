-------------------------- MODULE MerkleTreeProofs --------------------------
(***************************************************************************)
(* The commitment tree, for every depth and every list of leaves: the      *)
(* sparse root is that of the full tree, a path leads to the root from its *)
(* own leaf and from nothing else, and the pool never comes back to a root.*)
(*                                                                         *)
(* The definitions recur on the level.  That one may reason by induction   *)
(* on numbers is itself a lemma (Induction), from a fact about finite sets;*)
(* that the recursive functions exist and can be unfolded is proved by it  *)
(* for each of them.                                                       *)
(***************************************************************************)
EXTENDS MerkleTree, FiniteSetTheorems, SequenceTheorems, TLAPS

-----------------------------------------------------------------------------
(* Induction *)

\* What contains 0, and the successor of every number that it contains, contains them all:
\* the numbers up to x that it lacks would be as many as the same without x.
LEMMA Induction ==
  ASSUME NEW S, 0 \in S, \A n \in Nat : n \in S => n + 1 \in S
  PROVE  Nat \subseteq S
<1> SUFFICES ASSUME NEW x \in Nat, x \notin S PROVE FALSE OBVIOUS
<1> DEFINE T == {n \in 0 .. x : n \notin S}
           f == [n \in T |-> n - 1]
<1>1. IsFiniteSet(T)
  <2>1. IsFiniteSet(0 .. x) BY FS_Interval
  <2>. QED BY <2>1, FS_Subset
<1>2. x \in T OBVIOUS
<1>3. \A n \in T : n - 1 \in T \ {x}
  <2> SUFFICES ASSUME NEW n \in T PROVE n - 1 \in T \ {x} OBVIOUS
  <2>1. n \in Nat /\ n # 0 /\ n <= x OBVIOUS
  <2>2. n - 1 \in Nat /\ n - 1 < x /\ (n - 1) + 1 = n BY <2>1
  <2>3. n - 1 \notin S BY <2>2
  <2>. QED BY <2>2, <2>3
<1>4. f \in Injection(T, T \ {x})
  <2>1. f \in [T -> T \ {x}] BY <1>3
  <2>2. \A m, n \in T : m - 1 = n - 1 => m = n OBVIOUS
  <2>. QED BY <2>1, <2>2 DEF Injection, IsInjective
<1> HIDE DEF f, T
<1>5. IsFiniteSet(T \ {x}) /\ Cardinality(T \ {x}) = Cardinality(T) - 1
  BY <1>1, <1>2, FS_RemoveElement
<1>6. Cardinality(T) <= Cardinality(T \ {x})
  BY <1>4, <1>5, FS_Injection
<1>7. Cardinality(T) \in Nat BY <1>1, FS_CardinalityType
<1>. QED BY <1>5, <1>6, <1>7

\* The same for the levels of the tree.
LEMMA Climb ==
  ASSUME TreeAssumption, NEW S, 0 \in S, \A d \in 0 .. Depth - 1 : d \in S => d + 1 \in S
  PROVE  0 .. Depth \subseteq S
<1>0. Depth \in Nat BY DEF TreeAssumption
<1> DEFINE T == S \cup {n \in Nat : n > Depth}
<1>1. 0 \in T OBVIOUS
<1>2. ASSUME NEW n \in Nat, n \in T PROVE n + 1 \in T
  <2>1. CASE n >= Depth BY <2>1, <1>0, <1>2
  <2>2. CASE n < Depth
    <3>1. n \in S BY <2>2, <1>0, <1>2
    <3>2. n \in 0 .. Depth - 1 BY <2>2, <1>0
    <3>. QED BY <3>1, <3>2
  <2>. QED BY <2>1, <2>2, <1>0
<1> HIDE DEF T
<1>3. Nat \subseteq T BY <1>1, <1>2, Induction
<1>. QED BY <1>0, <1>3 DEF T

\* A list from 0 to n with one more entry.
Longer(g, n, v) == [d \in 0 .. n + 1 |-> IF d = n + 1 THEN v ELSE g[d]]

\* What it is made of.
LEMMA LongerIs ==
  ASSUME NEW n \in Nat, NEW g, NEW v
  PROVE  (\A d \in 0 .. n : Longer(g, n, v)[d] = g[d]) /\ Longer(g, n, v)[n + 1] = v
BY DEF Longer

-----------------------------------------------------------------------------
(* What the recursive functions are: the list of the first n levels exists   *)
(* for every n, hence that up to the root.  The six proofs differ only in the *)
(* step from a level to the next: a lemma that took the step as an operator   *)
(* could not be cited.                                                        *)

\* The node above a node and its sibling (merkleProof.circom).
Joined(node, sibling, place) ==
  IF place % 2 = 0 THEN Hash(node, sibling) ELSE Hash(sibling, node)

\* The leaves of the full tree, and the level above a level of it.
Bottom(leaves) == [k \in Nat |-> Leaf(LeafAt(leaves, k))]
Above(level) == [k \in Nat |-> Hash(level[2 * k], level[2 * k + 1])]

\* There are twice as many places a level further down.
LEMMA WidthGrows ==
  ASSUME TreeAssumption
  PROVE  /\ Width[0] = 1
         /\ \A d \in 0 .. Depth - 1 : Width[d + 1] = 2 * Width[d]
<1>0. Depth \in Nat
  BY DEF TreeAssumption
<1> DEFINE Starts(g) == g[0] = 1
           Steps(g, n) == \A d \in 0 .. n - 1 : g[d + 1] = 2 * g[d]
           S == {n \in Nat : \E g : Starts(g) /\ Steps(g, n)}
<1>1. 0 \in S
  <2> DEFINE g == [d \in {0} |-> 1]
  <2>1. Starts(g) /\ Steps(g, 0)
    OBVIOUS
  <2> HIDE DEF g
  <2>. QED
    BY <2>1
<1>2. ASSUME NEW n \in Nat, n \in S PROVE n + 1 \in S
  <2>1. PICK g : Starts(g) /\ Steps(g, n)
    BY <1>2
  <2> DEFINE h == Longer(g, n, 2 * g[n])
  <2>2. (\A d \in 0 .. n : h[d] = g[d]) /\ h[n + 1] = 2 * g[n]
    BY LongerIs
  <2> HIDE DEF h
  <2>3. Starts(h)
    BY <2>1, <2>2
  <2>4. ASSUME NEW d \in 0 .. n PROVE h[d + 1] = 2 * h[d]
    <3>1. h[d] = g[d]
      BY <2>2
    <3>2. CASE d = n
      BY <2>2, <3>1, <3>2
    <3>3. CASE d \in 0 .. n - 1
      <4>1. h[d + 1] = g[d + 1] /\ g[d + 1] = 2 * g[d]
        BY <2>1, <2>2, <3>3
      <4>. QED
        BY <3>1, <4>1
    <3>. QED
      BY <3>2, <3>3
  <2>5. Steps(h, n + 1) /\ n + 1 \in Nat
    BY <2>4
  <2> HIDE DEF Starts, Steps
  <2>. QED
    BY <2>3, <2>5
<1> HIDE DEF S
<1>3. PICK g : Starts(g) /\ Steps(g, Depth)
  <2>1. Depth \in S
    BY <1>0, <1>1, <1>2, Induction
  <2>. QED
    BY <2>1 DEF S
<1> DEFINE f == [d \in 0 .. Depth |-> g[d]]
<1>4. f = [d \in 0 .. Depth |-> IF d = 0 THEN 1 ELSE 2 * f[d - 1]]
  <2>1. ASSUME NEW d \in 0 .. Depth, d # 0 PROVE g[d] = 2 * f[d - 1]
    <3>1. d - 1 \in 0 .. Depth - 1 /\ (d - 1) + 1 = d
      BY <2>1, <1>0
    <3>2. g[(d - 1) + 1] = 2 * g[d - 1]
      BY <1>3, <3>1
    <3>3. f[d - 1] = g[d - 1]
      BY <3>1, <1>0
    <3>. QED
      BY <3>1, <3>2, <3>3
  <2>. QED
    BY <1>3, <2>1
<1> HIDE DEF f
<1>5. Width = [d \in 0 .. Depth |-> IF d = 0 THEN 1 ELSE 2 * Width[d - 1]]
  BY <1>4 DEF Width
<1>6. \A d \in 0 .. Depth - 1 : Width[d + 1] = 2 * Width[d]
  <2> TAKE d \in 0 .. Depth - 1
  <2>1. d + 1 \in 0 .. Depth /\ d + 1 # 0 /\ (d + 1) - 1 = d
    BY <1>0
  <2> HIDE DEF Starts, Steps
  <2>. QED
    BY <1>5, <2>1
<1>7. Width[0] = 1
  BY <1>0, <1>5
<1>. QED
  BY <1>6, <1>7

\* An empty subtree is made of two of the level below (zero_hashes).
LEMMA ZerosRise ==
  ASSUME TreeAssumption
  PROVE  /\ Zeros[0] = Leaf(Zero)
         /\ \A d \in 0 .. Depth - 1 : Zeros[d + 1] = Hash(Zeros[d], Zeros[d])
<1>0. Depth \in Nat
  BY DEF TreeAssumption
<1> DEFINE Starts(g) == g[0] = Leaf(Zero)
           Steps(g, n) == \A d \in 0 .. n - 1 : g[d + 1] = Hash(g[d], g[d])
           S == {n \in Nat : \E g : Starts(g) /\ Steps(g, n)}
<1>1. 0 \in S
  <2> DEFINE g == [d \in {0} |-> Leaf(Zero)]
  <2>1. Starts(g) /\ Steps(g, 0)
    OBVIOUS
  <2> HIDE DEF g
  <2>. QED
    BY <2>1
<1>2. ASSUME NEW n \in Nat, n \in S PROVE n + 1 \in S
  <2>1. PICK g : Starts(g) /\ Steps(g, n)
    BY <1>2
  <2> DEFINE h == Longer(g, n, Hash(g[n], g[n]))
  <2>2. (\A d \in 0 .. n : h[d] = g[d]) /\ h[n + 1] = Hash(g[n], g[n])
    BY LongerIs
  <2> HIDE DEF h
  <2>3. Starts(h)
    BY <2>1, <2>2
  <2>4. ASSUME NEW d \in 0 .. n PROVE h[d + 1] = Hash(h[d], h[d])
    <3>1. h[d] = g[d]
      BY <2>2
    <3>2. CASE d = n
      BY <2>2, <3>1, <3>2
    <3>3. CASE d \in 0 .. n - 1
      <4>1. h[d + 1] = g[d + 1] /\ g[d + 1] = Hash(g[d], g[d])
        BY <2>1, <2>2, <3>3
      <4>. QED
        BY <3>1, <4>1
    <3>. QED
      BY <3>2, <3>3
  <2>5. Steps(h, n + 1) /\ n + 1 \in Nat
    BY <2>4
  <2> HIDE DEF Starts, Steps
  <2>. QED
    BY <2>3, <2>5
<1> HIDE DEF S
<1>3. PICK g : Starts(g) /\ Steps(g, Depth)
  <2>1. Depth \in S
    BY <1>0, <1>1, <1>2, Induction
  <2>. QED
    BY <2>1 DEF S
<1> DEFINE f == [d \in 0 .. Depth |-> g[d]]
<1>4. f = [d \in 0 .. Depth |-> IF d = 0 THEN Leaf(Zero) ELSE Hash(f[d - 1], f[d - 1])]
  <2>1. ASSUME NEW d \in 0 .. Depth, d # 0 PROVE g[d] = Hash(f[d - 1], f[d - 1])
    <3>1. d - 1 \in 0 .. Depth - 1 /\ (d - 1) + 1 = d
      BY <2>1, <1>0
    <3>2. g[(d - 1) + 1] = Hash(g[d - 1], g[d - 1])
      BY <1>3, <3>1
    <3>3. f[d - 1] = g[d - 1]
      BY <3>1, <1>0
    <3>. QED
      BY <3>1, <3>2, <3>3
  <2>. QED
    BY <1>3, <2>1
<1> HIDE DEF f
<1>5. Zeros = [d \in 0 .. Depth |->
                 IF d = 0 THEN Leaf(Zero) ELSE Hash(Zeros[d - 1], Zeros[d - 1])]
  BY <1>4 DEF Zeros
<1>6. \A d \in 0 .. Depth - 1 : Zeros[d + 1] = Hash(Zeros[d], Zeros[d])
  <2> TAKE d \in 0 .. Depth - 1
  <2>1. d + 1 \in 0 .. Depth /\ d + 1 # 0 /\ (d + 1) - 1 = d
    BY <1>0
  <2> HIDE DEF Starts, Steps
  <2>. QED
    BY <1>5, <2>1
<1>7. Zeros[0] = Leaf(Zero)
  BY <1>0, <1>5
<1>. QED
  BY <1>6, <1>7

\* A node stands at half the place of its children.
LEMMA PlacesHalve ==
  ASSUME TreeAssumption, NEW index
  PROVE  /\ Places(index)[0] = index
         /\ \A d \in 0 .. Depth - 1 : Places(index)[d + 1] = Places(index)[d] \div 2
<1>0. Depth \in Nat
  BY DEF TreeAssumption
<1> DEFINE Starts(g) == g[0] = index
           Steps(g, n) == \A d \in 0 .. n - 1 : g[d + 1] = g[d] \div 2
           S == {n \in Nat : \E g : Starts(g) /\ Steps(g, n)}
<1>1. 0 \in S
  <2> DEFINE g == [d \in {0} |-> index]
  <2>1. Starts(g) /\ Steps(g, 0)
    OBVIOUS
  <2> HIDE DEF g
  <2>. QED
    BY <2>1
<1>2. ASSUME NEW n \in Nat, n \in S PROVE n + 1 \in S
  <2>1. PICK g : Starts(g) /\ Steps(g, n)
    BY <1>2
  <2> DEFINE h == Longer(g, n, g[n] \div 2)
  <2>2. (\A d \in 0 .. n : h[d] = g[d]) /\ h[n + 1] = g[n] \div 2
    BY LongerIs
  <2> HIDE DEF h
  <2>3. Starts(h)
    BY <2>1, <2>2
  <2>4. ASSUME NEW d \in 0 .. n PROVE h[d + 1] = h[d] \div 2
    <3>1. h[d] = g[d]
      BY <2>2
    <3>2. CASE d = n
      BY <2>2, <3>1, <3>2
    <3>3. CASE d \in 0 .. n - 1
      <4>1. h[d + 1] = g[d + 1] /\ g[d + 1] = g[d] \div 2
        BY <2>1, <2>2, <3>3
      <4>. QED
        BY <3>1, <4>1
    <3>. QED
      BY <3>2, <3>3
  <2>5. Steps(h, n + 1) /\ n + 1 \in Nat
    BY <2>4
  <2> HIDE DEF Starts, Steps
  <2>. QED
    BY <2>3, <2>5
<1> HIDE DEF S
<1>3. PICK g : Starts(g) /\ Steps(g, Depth)
  <2>1. Depth \in S
    BY <1>0, <1>1, <1>2, Induction
  <2>. QED
    BY <2>1 DEF S
<1> DEFINE f == [d \in 0 .. Depth |-> g[d]]
<1>4. f = [d \in 0 .. Depth |-> IF d = 0 THEN index ELSE f[d - 1] \div 2]
  <2>1. ASSUME NEW d \in 0 .. Depth, d # 0 PROVE g[d] = f[d - 1] \div 2
    <3>1. d - 1 \in 0 .. Depth - 1 /\ (d - 1) + 1 = d
      BY <2>1, <1>0
    <3>2. g[(d - 1) + 1] = g[d - 1] \div 2
      BY <1>3, <3>1
    <3>3. f[d - 1] = g[d - 1]
      BY <3>1, <1>0
    <3>. QED
      BY <3>1, <3>2, <3>3
  <2>. QED
    BY <1>3, <2>1
<1> HIDE DEF f
<1>5. Places(index) = [d \in 0 .. Depth |-> IF d = 0 THEN index ELSE Places(index)[d - 1] \div 2]
  BY <1>4 DEF Places
<1>6. \A d \in 0 .. Depth - 1 : Places(index)[d + 1] = Places(index)[d] \div 2
  <2> TAKE d \in 0 .. Depth - 1
  <2>1. d + 1 \in 0 .. Depth /\ d + 1 # 0 /\ (d + 1) - 1 = d
    BY <1>0
  <2> HIDE DEF Starts, Steps
  <2>. QED
    BY <1>5, <2>1
<1>7. Places(index)[0] = index
  BY <1>0, <1>5
<1>. QED
  BY <1>6, <1>7

\* A level of the sparse tree is made from the one below, filled up.
LEMMA LevelsRise ==
  ASSUME TreeAssumption, NEW leaves
  PROVE  /\ Levels(leaves)[0] = [i \in 1 .. Len(leaves) |-> Leaf(leaves[i])]
         /\ \A d \in 0 .. Depth - 1 :
              Levels(leaves)[d + 1] = Parents(FillUp(Levels(leaves)[d], d))
<1>0. Depth \in Nat
  BY DEF TreeAssumption
<1> DEFINE Starts(g) == g[0] = [i \in 1 .. Len(leaves) |-> Leaf(leaves[i])]
           Steps(g, n) == \A d \in 0 .. n - 1 : g[d + 1] = Parents(FillUp(g[d], d))
           S == {n \in Nat : \E g : Starts(g) /\ Steps(g, n)}
<1>1. 0 \in S
  <2> DEFINE g == [d \in {0} |-> [i \in 1 .. Len(leaves) |-> Leaf(leaves[i])]]
  <2>1. Starts(g) /\ Steps(g, 0)
    OBVIOUS
  <2> HIDE DEF g
  <2>. QED
    BY <2>1
<1>2. ASSUME NEW n \in Nat, n \in S PROVE n + 1 \in S
  <2>1. PICK g : Starts(g) /\ Steps(g, n)
    BY <1>2
  <2> DEFINE h == Longer(g, n, Parents(FillUp(g[n], n)))
  <2>2. (\A d \in 0 .. n : h[d] = g[d]) /\ h[n + 1] = Parents(FillUp(g[n], n))
    BY LongerIs
  <2> HIDE DEF h
  <2>3. Starts(h)
    BY <2>1, <2>2
  <2>4. ASSUME NEW d \in 0 .. n PROVE h[d + 1] = Parents(FillUp(h[d], d))
    <3>1. h[d] = g[d]
      BY <2>2
    <3>2. CASE d = n
      BY <2>2, <3>1, <3>2
    <3>3. CASE d \in 0 .. n - 1
      <4>1. h[d + 1] = g[d + 1] /\ g[d + 1] = Parents(FillUp(g[d], d))
        BY <2>1, <2>2, <3>3
      <4>. QED
        BY <3>1, <4>1
    <3>. QED
      BY <3>2, <3>3
  <2>5. Steps(h, n + 1) /\ n + 1 \in Nat
    BY <2>4
  <2> HIDE DEF Starts, Steps
  <2>. QED
    BY <2>3, <2>5
<1> HIDE DEF S
<1>3. PICK g : Starts(g) /\ Steps(g, Depth)
  <2>1. Depth \in S
    BY <1>0, <1>1, <1>2, Induction
  <2>. QED
    BY <2>1 DEF S
<1> DEFINE f == [d \in 0 .. Depth |-> g[d]]
<1>4. f = [d \in 0 .. Depth |->
             IF d = 0 THEN [i \in 1 .. Len(leaves) |-> Leaf(leaves[i])]
             ELSE Parents(FillUp(f[d - 1], d - 1))]
  <2>1. ASSUME NEW d \in 0 .. Depth, d # 0 PROVE g[d] = Parents(FillUp(f[d - 1], d - 1))
    <3>1. d - 1 \in 0 .. Depth - 1 /\ (d - 1) + 1 = d
      BY <2>1, <1>0
    <3>2. g[(d - 1) + 1] = Parents(FillUp(g[d - 1], d - 1))
      BY <1>3, <3>1
    <3>3. f[d - 1] = g[d - 1]
      BY <3>1, <1>0
    <3>. QED
      BY <3>1, <3>2, <3>3
  <2>. QED
    BY <1>3, <2>1
<1> HIDE DEF f
<1>5. Levels(leaves)
        = [d \in 0 .. Depth |->
             IF d = 0 THEN [i \in 1 .. Len(leaves) |-> Leaf(leaves[i])]
             ELSE Parents(FillUp(Levels(leaves)[d - 1], d - 1))]
  BY <1>4 DEF Levels
<1>6. \A d \in 0 .. Depth - 1 : Levels(leaves)[d + 1] = Parents(FillUp(Levels(leaves)[d], d))
  <2> TAKE d \in 0 .. Depth - 1
  <2>1. d + 1 \in 0 .. Depth /\ d + 1 # 0 /\ (d + 1) - 1 = d
    BY <1>0
  <2> HIDE DEF Starts, Steps
  <2>. QED
    BY <1>5, <2>1
<1>7. Levels(leaves)[0] = [i \in 1 .. Len(leaves) |-> Leaf(leaves[i])]
  BY <1>0, <1>5
<1>. QED
  BY <1>6, <1>7

\* The circuit goes up one level for each sibling.
LEMMA PathRises ==
  ASSUME TreeAssumption, NEW leaf, NEW index, NEW siblings
  PROVE  /\ Path(leaf, index, siblings)[0] = Leaf(leaf)
         /\ \A d \in 0 .. Depth - 1 :
              Path(leaf, index, siblings)[d + 1]
                = Joined(Path(leaf, index, siblings)[d], siblings[d], Places(index)[d])
<1>0. Depth \in Nat
  BY DEF TreeAssumption
<1> DEFINE Starts(g) == g[0] = Leaf(leaf)
           Steps(g, n) ==
             \A d \in 0 .. n - 1 : g[d + 1] = Joined(g[d], siblings[d], Places(index)[d])
           S == {n \in Nat : \E g : Starts(g) /\ Steps(g, n)}
<1>1. 0 \in S
  <2> DEFINE g == [d \in {0} |-> Leaf(leaf)]
  <2>1. Starts(g) /\ Steps(g, 0)
    OBVIOUS
  <2> HIDE DEF g
  <2>. QED
    BY <2>1
<1>2. ASSUME NEW n \in Nat, n \in S PROVE n + 1 \in S
  <2>1. PICK g : Starts(g) /\ Steps(g, n)
    BY <1>2
  <2> DEFINE h == Longer(g, n, Joined(g[n], siblings[n], Places(index)[n]))
  <2>2. (\A d \in 0 .. n : h[d] = g[d]) /\ h[n + 1] = Joined(g[n], siblings[n], Places(index)[n])
    BY LongerIs
  <2> HIDE DEF h
  <2>3. Starts(h)
    BY <2>1, <2>2
  <2>4. ASSUME NEW d \in 0 .. n PROVE h[d + 1] = Joined(h[d], siblings[d], Places(index)[d])
    <3>1. h[d] = g[d]
      BY <2>2
    <3>2. CASE d = n
      BY <2>2, <3>1, <3>2
    <3>3. CASE d \in 0 .. n - 1
      <4>1. h[d + 1] = g[d + 1] /\ g[d + 1] = Joined(g[d], siblings[d], Places(index)[d])
        BY <2>1, <2>2, <3>3
      <4>. QED
        BY <3>1, <4>1
    <3>. QED
      BY <3>2, <3>3
  <2>5. Steps(h, n + 1) /\ n + 1 \in Nat
    BY <2>4
  <2> HIDE DEF Starts, Steps
  <2>. QED
    BY <2>3, <2>5
<1> HIDE DEF S
<1>3. PICK g : Starts(g) /\ Steps(g, Depth)
  <2>1. Depth \in S
    BY <1>0, <1>1, <1>2, Induction
  <2>. QED
    BY <2>1 DEF S
<1> DEFINE f == [d \in 0 .. Depth |-> g[d]]
<1>4. f = [d \in 0 .. Depth |->
             IF d = 0 THEN Leaf(leaf)
             ELSE Joined(f[d - 1], siblings[d - 1], Places(index)[d - 1])]
  <2>1. ASSUME NEW d \in 0 .. Depth, d # 0
        PROVE  g[d] = Joined(f[d - 1], siblings[d - 1], Places(index)[d - 1])
    <3>1. d - 1 \in 0 .. Depth - 1 /\ (d - 1) + 1 = d
      BY <2>1, <1>0
    <3>2. g[(d - 1) + 1] = Joined(g[d - 1], siblings[d - 1], Places(index)[d - 1])
      BY <1>3, <3>1
    <3>3. f[d - 1] = g[d - 1]
      BY <3>1, <1>0
    <3>. QED
      BY <3>1, <3>2, <3>3
  <2>. QED
    BY <1>3, <2>1
<1> HIDE DEF f
<1>5. Path(leaf, index, siblings)
        = [d \in 0 .. Depth |->
             IF d = 0 THEN Leaf(leaf)
             ELSE Joined(Path(leaf, index, siblings)[d - 1], siblings[d - 1],
                         Places(index)[d - 1])]
  BY <1>4 DEF Path, Joined
<1>6. \A d \in 0 .. Depth - 1 :
        Path(leaf, index, siblings)[d + 1]
          = Joined(Path(leaf, index, siblings)[d], siblings[d], Places(index)[d])
  <2> TAKE d \in 0 .. Depth - 1
  <2>1. d + 1 \in 0 .. Depth /\ d + 1 # 0 /\ (d + 1) - 1 = d
    BY <1>0
  <2> HIDE DEF Starts, Steps
  <2>. QED
    BY <1>5, <2>1
<1>7. Path(leaf, index, siblings)[0] = Leaf(leaf)
  BY <1>0, <1>5
<1>. QED
  BY <1>6, <1>7

\* Every node of the full tree has two below it.
LEMMA TreeRises ==
  ASSUME TreeAssumption, NEW leaves
  PROVE  /\ FullTree(leaves)[0] = Bottom(leaves)
         /\ \A d \in 0 .. Depth - 1 : FullTree(leaves)[d + 1] = Above(FullTree(leaves)[d])
<1>0. Depth \in Nat
  BY DEF TreeAssumption
<1> DEFINE Starts(g) == g[0] = Bottom(leaves)
           Steps(g, n) == \A d \in 0 .. n - 1 : g[d + 1] = Above(g[d])
           S == {n \in Nat : \E g : Starts(g) /\ Steps(g, n)}
<1>1. 0 \in S
  <2> DEFINE g == [d \in {0} |-> Bottom(leaves)]
  <2>1. Starts(g) /\ Steps(g, 0)
    OBVIOUS
  <2> HIDE DEF g
  <2>. QED
    BY <2>1
<1>2. ASSUME NEW n \in Nat, n \in S PROVE n + 1 \in S
  <2>1. PICK g : Starts(g) /\ Steps(g, n)
    BY <1>2
  <2> DEFINE h == Longer(g, n, Above(g[n]))
  <2>2. (\A d \in 0 .. n : h[d] = g[d]) /\ h[n + 1] = Above(g[n])
    BY LongerIs
  <2> HIDE DEF h
  <2>3. Starts(h)
    BY <2>1, <2>2
  <2>4. ASSUME NEW d \in 0 .. n PROVE h[d + 1] = Above(h[d])
    <3>1. h[d] = g[d]
      BY <2>2
    <3>2. CASE d = n
      BY <2>2, <3>1, <3>2
    <3>3. CASE d \in 0 .. n - 1
      <4>1. h[d + 1] = g[d + 1] /\ g[d + 1] = Above(g[d])
        BY <2>1, <2>2, <3>3
      <4>. QED
        BY <3>1, <4>1
    <3>. QED
      BY <3>2, <3>3
  <2>5. Steps(h, n + 1) /\ n + 1 \in Nat
    BY <2>4
  <2> HIDE DEF Starts, Steps
  <2>. QED
    BY <2>3, <2>5
<1> HIDE DEF S
<1>3. PICK g : Starts(g) /\ Steps(g, Depth)
  <2>1. Depth \in S
    BY <1>0, <1>1, <1>2, Induction
  <2>. QED
    BY <2>1 DEF S
<1> DEFINE f == [d \in 0 .. Depth |-> g[d]]
<1>4. f = [d \in 0 .. Depth |-> IF d = 0 THEN Bottom(leaves) ELSE Above(f[d - 1])]
  <2>1. ASSUME NEW d \in 0 .. Depth, d # 0 PROVE g[d] = Above(f[d - 1])
    <3>1. d - 1 \in 0 .. Depth - 1 /\ (d - 1) + 1 = d
      BY <2>1, <1>0
    <3>2. g[(d - 1) + 1] = Above(g[d - 1])
      BY <1>3, <3>1
    <3>3. f[d - 1] = g[d - 1]
      BY <3>1, <1>0
    <3>. QED
      BY <3>1, <3>2, <3>3
  <2>. QED
    BY <1>3, <2>1
<1> HIDE DEF f
<1>5. FullTree(leaves)
        = [d \in 0 .. Depth |->
             IF d = 0 THEN Bottom(leaves) ELSE Above(FullTree(leaves)[d - 1])]
  BY <1>4 DEF FullTree, Bottom, Above
<1>6. \A d \in 0 .. Depth - 1 : FullTree(leaves)[d + 1] = Above(FullTree(leaves)[d])
  <2> TAKE d \in 0 .. Depth - 1
  <2>1. d + 1 \in 0 .. Depth /\ d + 1 # 0 /\ (d + 1) - 1 = d
    BY <1>0
  <2> HIDE DEF Starts, Steps
  <2>. QED
    BY <1>5, <2>1
<1>7. FullTree(leaves)[0] = Bottom(leaves)
  BY <1>0, <1>5
<1>. QED
  BY <1>6, <1>7

-----------------------------------------------------------------------------
\* Poseidon is collision free, and a leaf is no hash of two nodes.
LEMMA HashesDiffer ==
  /\ \A a, b, c, d : Hash(a, b) = Hash(c, d) => a = c /\ b = d
  /\ \A x, y : Leaf(x) = Leaf(y) => x = y
  /\ \A a, b, x : Hash(a, b) # Leaf(x)
BY DEF Hash, Leaf

\* A list, of whatever.
Listed(s) == Len(s) \in Nat /\ s = [i \in 1 .. Len(s) |-> s[i]]

\* The length of a list that is given entry by entry.
LEMMA LenListed ==
  ASSUME NEW n \in Nat, NEW s, s = [i \in 1 .. n |-> s[i]]
  PROVE  Len(s) = n /\ Listed(s)
<1> DEFINE T == {s[i] : i \in 1 .. n}
<1>1. s \in [1 .. n -> T]
  OBVIOUS
<1> HIDE DEF T
<1>2. s \in Seq(T)
  BY <1>1, SeqDef
<1>3. Len(s) \in Nat /\ DOMAIN s = 1 .. Len(s)
  BY <1>2, LenProperties
<1>4. DOMAIN s = 1 .. n
  BY <1>1
<1>5. Len(s) = n
  BY <1>3, <1>4
<1>. QED
  BY <1>5 DEF Listed

\* Every sequence is such a list.
LEMMA SeqListed ==
  ASSUME NEW S, NEW s \in Seq(S)
  PROVE  Listed(s)
BY LenProperties DEF Listed

\* A list of length 0 is empty.
LEMMA EmptyListed ==
  ASSUME NEW s, Listed(s)
  PROVE  s = <<>> <=> Len(s) = 0
<1>1. s = <<>> => Len(s) = 0
  OBVIOUS
<1>2. ASSUME Len(s) = 0 PROVE s = <<>>
  <2>1. s = [i \in 1 .. 0 |-> s[i]]
    BY <1>2 DEF Listed
  <2>2. s \in [1 .. 0 -> {}]
    BY <2>1
  <2>3. s \in Seq({})
    BY <2>2, SeqDef
  <2>. QED
    BY <2>3, <1>2, EmptySeq
<1>. QED
  BY <1>1, <1>2

\* A level of the sparse tree and the same level of the full one.
Matches(level, full, d) ==
  Listed(level) /\ \A k \in Nat : full[k] = NodeAt(level, k, Zeros[d])

\* A level that is filled up is still that of the full tree, as far as it goes.
LEMMA FilledMatches ==
  ASSUME NEW level, NEW full, NEW d \in 0 .. Depth - 1, Matches(level, full, d)
  PROVE  LET filled == FillUp(level, d) IN
         /\ Listed(filled) /\ Len(filled) % 2 = 0 /\ Len(filled) >= Len(level)
         /\ \A k \in 0 .. Len(filled) - 1 : filled[k + 1] = full[k]
<1>1. Len(level) \in Nat
  BY DEF Matches, Listed
<1>2. CASE Len(level) % 2 = 0
  <2>1. FillUp(level, d) = level
    BY <1>1, <1>2 DEF FillUp
  <2>2. ASSUME NEW k \in 0 .. Len(level) - 1 PROVE level[k + 1] = full[k]
    BY <1>1 DEF Matches, NodeAt
  <2>. QED
    BY <1>1, <1>2, <2>1, <2>2 DEF Matches
<1>3. CASE Len(level) % 2 = 1
  <2> DEFINE n == Len(level)
             filled == Append(level, Zeros[d])
             T == {level[i] : i \in 1 .. n} \cup {Zeros[d]}
  <2>1. level \in [1 .. n -> T]
    BY DEF Matches, Listed
  <2>2. Zeros[d] \in T
    OBVIOUS
  <2> HIDE DEF T
  <2>3. level \in Seq(T)
    BY <1>1, <2>1, SeqDef
  <2>4. /\ filled \in Seq(T) /\ Len(filled) = n + 1
        /\ \A i \in 1 .. n : filled[i] = level[i]
        /\ filled[n + 1] = Zeros[d]
    BY <2>2, <2>3, AppendProperties
  <2>5. FillUp(level, d) = filled
    BY <1>3 DEF FillUp
  <2> HIDE DEF filled
  <2>6. Listed(filled)
    BY <2>4, SeqListed
  <2>7. ASSUME NEW k \in 0 .. Len(filled) - 1 PROVE filled[k + 1] = full[k]
    <3>1. full[k] = NodeAt(level, k, Zeros[d])
      BY <1>1, <2>4 DEF Matches
    <3>2. CASE k < n
      BY <1>1, <2>4, <3>1, <3>2 DEF NodeAt
    <3>3. CASE k = n
      BY <1>1, <2>4, <3>1, <3>3 DEF NodeAt
    <3>. QED
      BY <1>1, <2>4, <3>2, <3>3
  <2>8. (n + 1) % 2 = 0
    BY <1>1, <1>3
  <2>. QED
    BY <1>1, <2>4, <2>5, <2>6, <2>7, <2>8
<1>. QED
  BY <1>1, <1>2, <1>3

\* If a level is that of the full tree, so is the next one.
LEMMA ParentsMatch ==
  ASSUME TreeAssumption, NEW level, NEW full, NEW d \in 0 .. Depth - 1, Matches(level, full, d)
  PROVE  Matches(Parents(FillUp(level, d)), Above(full), d + 1)
<1> DEFINE filled == FillUp(level, d)
           up == Parents(filled)
           n == Len(filled) \div 2
<1>1. /\ Listed(filled) /\ Len(filled) % 2 = 0 /\ Len(filled) >= Len(level)
      /\ \A k \in 0 .. Len(filled) - 1 : filled[k + 1] = full[k]
  BY FilledMatches
<1>2. Len(level) \in Nat /\ \A k \in Nat : full[k] = NodeAt(level, k, Zeros[d])
  BY DEF Matches, Listed
<1> HIDE DEF filled
<1>3. n \in Nat /\ Len(filled) = 2 * n
  <2>1. Len(filled) \in Nat
    BY <1>1 DEF Listed
  <2>2. \A m \in Nat : m % 2 = 0 => m \div 2 \in Nat /\ m = 2 * (m \div 2)
    OBVIOUS
  <2>. QED
    BY <1>1, <2>1, <2>2
<1>4. up = [i \in 1 .. n |-> Hash(filled[2 * i - 1], filled[2 * i])]
  BY DEF Parents
<1> HIDE DEF up, n
<1>5. Len(up) = n /\ Listed(up)
  <2>1. up = [i \in 1 .. n |-> up[i]]
    BY <1>4
  <2>. QED
    BY <1>3, <2>1, LenListed
<1>6. ASSUME NEW k \in Nat PROVE Above(full)[k] = NodeAt(up, k, Zeros[d + 1])
  <2>1. Above(full)[k] = Hash(full[2 * k], full[2 * k + 1])
    BY DEF Above
  <2>2. CASE k < n
    <3>1. k + 1 \in 1 .. n /\ 2 * (k + 1) - 1 = 2 * k + 1 /\ 2 * (k + 1) = (2 * k + 1) + 1
      BY <1>3, <2>2
    <3>2. up[k + 1] = Hash(filled[2 * k + 1], filled[(2 * k + 1) + 1])
      BY <1>4, <3>1
    <3>3. 2 * k \in 0 .. Len(filled) - 1 /\ 2 * k + 1 \in 0 .. Len(filled) - 1
      BY <1>3, <2>2
    <3>4. filled[2 * k + 1] = full[2 * k] /\ filled[(2 * k + 1) + 1] = full[2 * k + 1]
      BY <1>1, <3>3
    <3>5. NodeAt(up, k, Zeros[d + 1]) = up[k + 1]
      BY <1>5, <2>2 DEF NodeAt
    <3>. QED
      BY <2>1, <3>2, <3>4, <3>5
  <2>3. CASE ~ k < n
    <3>1. 2 * k \in Nat /\ 2 * k + 1 \in Nat /\ ~ 2 * k < Len(level) /\ ~ 2 * k + 1 < Len(level)
      BY <1>1, <1>2, <1>3, <2>3
    <3>2. full[2 * k] = Zeros[d] /\ full[2 * k + 1] = Zeros[d]
      BY <1>2, <3>1 DEF NodeAt
    <3>3. Zeros[d + 1] = Hash(Zeros[d], Zeros[d])
      BY ZerosRise
    <3>4. NodeAt(up, k, Zeros[d + 1]) = Zeros[d + 1]
      BY <1>5, <2>3 DEF NodeAt
    <3>. QED
      BY <2>1, <3>2, <3>3, <3>4
  <2>. QED
    BY <2>2, <2>3
<1>. QED
  BY <1>5, <1>6 DEF Matches, up, filled

\* The sparse levels are those of the full tree, as far as they go.
LEMMA LevelsMatch ==
  ASSUME TreeAssumption, NEW leaves \in Seq(Leaves)
  PROVE  \A d \in 0 .. Depth : Matches(Levels(leaves)[d], FullTree(leaves)[d], d)
<1>0. Depth \in Nat
  BY DEF TreeAssumption
<1> DEFINE S == {d \in 0 .. Depth : Matches(Levels(leaves)[d], FullTree(leaves)[d], d)}
<1>1. 0 \in S
  <2> DEFINE bottom == [i \in 1 .. Len(leaves) |-> Leaf(leaves[i])]
  <2>1. Levels(leaves)[0] = bottom /\ FullTree(leaves)[0] = Bottom(leaves)
    BY LevelsRise, TreeRises
  <2>2. Len(leaves) \in Nat
    OBVIOUS
  <2>3. \A i \in 1 .. Len(leaves) : bottom[i] = Leaf(leaves[i])
    OBVIOUS
  <2>4. bottom = [i \in 1 .. Len(leaves) |-> bottom[i]]
    OBVIOUS
  <2> HIDE DEF bottom
  <2>5. Len(bottom) = Len(leaves) /\ Listed(bottom)
    BY <2>2, <2>4, LenListed
  <2>6. Zeros[0] = Leaf(Zero)
    BY ZerosRise
  <2>7. ASSUME NEW k \in Nat PROVE Bottom(leaves)[k] = NodeAt(bottom, k, Zeros[0])
    <3>1. Bottom(leaves)[k] = Leaf(LeafAt(leaves, k))
      BY DEF Bottom
    <3>2. CASE k < Len(leaves)
      <4>1. k + 1 \in 1 .. Len(leaves)
        BY <2>2, <3>2
      <4>. QED
        BY <2>3, <2>5, <3>1, <3>2, <4>1 DEF LeafAt, NodeAt
    <3>3. CASE ~ k < Len(leaves)
      BY <2>5, <2>6, <3>1, <3>3 DEF LeafAt, NodeAt
    <3>. QED
      BY <3>2, <3>3
  <2>8. Matches(Levels(leaves)[0], FullTree(leaves)[0], 0)
    BY <2>1, <2>5, <2>7 DEF Matches
  <2>. QED
    BY <1>0, <2>8
<1>2. ASSUME NEW d \in 0 .. Depth - 1, d \in S PROVE d + 1 \in S
  <2>1. Matches(Levels(leaves)[d], FullTree(leaves)[d], d)
    BY <1>2
  <2>2. Matches(Parents(FillUp(Levels(leaves)[d], d)), Above(FullTree(leaves)[d]), d + 1)
    BY <2>1, ParentsMatch
  <2>3. /\ Levels(leaves)[d + 1] = Parents(FillUp(Levels(leaves)[d], d))
        /\ FullTree(leaves)[d + 1] = Above(FullTree(leaves)[d])
    BY LevelsRise, TreeRises
  <2>4. d + 1 \in 0 .. Depth
    BY <1>0
  <2>. QED
    BY <2>2, <2>3, <2>4
<1> HIDE DEF S
<1>3. 0 .. Depth \subseteq S
  BY <1>1, <1>2, Climb
<1>. QED
  BY <1>3 DEF S

\* The root that the sparse loops compute is that of the full tree, for every list.
LEMMA RootIsOfTree ==
  ASSUME TreeAssumption, NEW leaves \in Seq(Leaves)
  PROVE  ComputeRoot(leaves) = FullTree(leaves)[Depth][0]
<1>0. Depth \in Nat
  BY DEF TreeAssumption
<1> DEFINE top == Levels(leaves)[Depth]
<1>1. ComputeRoot(leaves) = IF top = <<>> THEN Zeros[Depth] ELSE top[1]
  BY DEF ComputeRoot
<1>2. Matches(top, FullTree(leaves)[Depth], Depth)
  BY <1>0, LevelsMatch
<1> HIDE DEF top
<1>3. FullTree(leaves)[Depth][0] = NodeAt(top, 0, Zeros[Depth])
  BY <1>2 DEF Matches
<1>4. Len(top) \in Nat /\ (top = <<>> <=> Len(top) = 0)
  BY <1>2, EmptyListed DEF Matches, Listed
<1>. QED
  BY <1>1, <1>3, <1>4 DEF NodeAt

-----------------------------------------------------------------------------
\* A node and its sibling are the two children of the place above them.
LEMMA Halves ==
  ASSUME NEW p \in Nat
  PROVE  /\ p \div 2 \in Nat /\ Sibling(p) \in Nat
         /\ p % 2 = 0 => p = 2 * (p \div 2) /\ Sibling(p) = 2 * (p \div 2) + 1
         /\ p % 2 # 0 => p = 2 * (p \div 2) + 1 /\ Sibling(p) = 2 * (p \div 2)
BY DEF Sibling

\* Every level has its own place above a leaf.
LEMMA PlacesAreNumbers ==
  ASSUME TreeAssumption, NEW index \in Nat
  PROVE  \A d \in 0 .. Depth : Places(index)[d] \in Nat
<1>0. Depth \in Nat
  BY DEF TreeAssumption
<1> DEFINE S == {d \in 0 .. Depth : Places(index)[d] \in Nat}
<1>1. 0 \in S
  BY <1>0, PlacesHalve
<1>2. ASSUME NEW d \in 0 .. Depth - 1, d \in S PROVE d + 1 \in S
  <2>1. Places(index)[d + 1] = Places(index)[d] \div 2
    BY PlacesHalve
  <2>2. Places(index)[d + 1] \in Nat
    BY <1>2, <2>1, Halves
  <2>. QED
    BY <1>0, <2>2
<1> HIDE DEF S
<1>3. 0 .. Depth \subseteq S
  BY <1>1, <1>2, Climb
<1>. QED
  BY <1>3 DEF S

\* Every node has at least one leaf under it.
LEMMA WidthsAreNumbers ==
  ASSUME TreeAssumption
  PROVE  \A d \in 0 .. Depth : Width[d] \in Nat \ {0}
<1>0. Depth \in Nat
  BY DEF TreeAssumption
<1> DEFINE S == {d \in 0 .. Depth : Width[d] \in Nat \ {0}}
<1>1. 0 \in S
  BY <1>0, WidthGrows
<1>2. ASSUME NEW d \in 0 .. Depth - 1, d \in S PROVE d + 1 \in S
  <2>1. Width[d + 1] = 2 * Width[d]
    BY WidthGrows
  <2>2. Width[d + 1] \in Nat \ {0}
    BY <1>2, <2>1
  <2>. QED
    BY <1>0, <2>2
<1> HIDE DEF S
<1>3. 0 .. Depth \subseteq S
  BY <1>1, <1>2, Climb
<1>. QED
  BY <1>3 DEF S

\* Above every leaf that the tree has a place for is the root.
LEMMA PlacesEndAtRoot ==
  ASSUME TreeAssumption, NEW index \in Positions
  PROVE  index \in Nat /\ Places(index)[Depth] = 0
<1>0. Depth \in Nat
  BY DEF TreeAssumption
<1>1. Width[Depth] \in Nat \ {0} /\ index \in Nat /\ index < Width[Depth]
  BY <1>0, WidthsAreNumbers DEF Positions, Capacity
<1> DEFINE S == {d \in 0 .. Depth : Places(index)[d] < Width[Depth - d]}
<1>2. 0 \in S
  BY <1>0, <1>1, PlacesHalve
<1>3. ASSUME NEW d \in 0 .. Depth - 1, d \in S PROVE d + 1 \in S
  <2> DEFINE e == Depth - (d + 1)
  <2>1. e \in 0 .. Depth - 1 /\ Depth - d = e + 1
    BY <1>0
  <2> HIDE DEF e
  <2>2. Width[Depth - d] = 2 * Width[e] /\ Width[e] \in Nat
    BY <1>0, <2>1, WidthGrows, WidthsAreNumbers
  <2>3. Places(index)[d] \in Nat /\ Places(index)[d + 1] = Places(index)[d] \div 2
    BY <1>0, <1>1, PlacesHalve, PlacesAreNumbers
  <2>4. Places(index)[d] < 2 * Width[e]
    BY <1>3, <2>2
  <2>5. Places(index)[d + 1] < Width[e]
    BY <2>2, <2>3, <2>4
  <2>. QED
    BY <1>0, <2>5 DEF e
<1> HIDE DEF S
<1>4. Depth \in S
  BY <1>0, <1>2, <1>3, Climb
<1>5. Places(index)[Depth] < Width[Depth - Depth]
  BY <1>4 DEF S
<1>6. Width[Depth - Depth] = 1 /\ Places(index)[Depth] \in Nat
  BY <1>0, <1>1, WidthGrows, PlacesAreNumbers
<1>. QED
  BY <1>1, <1>5, <1>6

\* The path that the API builds for a leaf leads the circuit to the root.
LEMMA PathLeadsToRoot ==
  ASSUME TreeAssumption, NEW leaves \in Seq(Leaves), NEW index \in Positions
  PROVE  RootFromPath(LeafAt(leaves, index), index, Siblings(leaves, index))
           = ComputeRoot(leaves)
<1>0. Depth \in Nat /\ index \in Nat /\ Places(index)[Depth] = 0
  BY PlacesEndAtRoot DEF TreeAssumption
<1> DEFINE siblings == Siblings(leaves, index)
           path == Path(LeafAt(leaves, index), index, siblings)
           S == {d \in 0 .. Depth : path[d] = FullTree(leaves)[d][Places(index)[d]]}
<1>1. 0 \in S
  <2>1. path[0] = Leaf(LeafAt(leaves, index))
    BY PathRises
  <2>2. FullTree(leaves)[0] = Bottom(leaves) /\ Places(index)[0] = index
    BY TreeRises, PlacesHalve
  <2>3. Bottom(leaves)[index] = Leaf(LeafAt(leaves, index))
    BY <1>0 DEF Bottom
  <2>. QED
    BY <1>0, <2>1, <2>2, <2>3
<1>2. ASSUME NEW d \in 0 .. Depth - 1, d \in S PROVE d + 1 \in S
  <2> DEFINE p == Places(index)[d]
             q == p \div 2
             full == FullTree(leaves)[d]
  <2>1. p \in Nat /\ Places(index)[d + 1] = q
    BY <1>0, PlacesAreNumbers, PlacesHalve
  <2>2. path[d] = full[p]
    BY <1>2
  <2>3. siblings[d] = NodeAt(Levels(leaves)[d], Sibling(p), Zeros[d])
    BY DEF Siblings
  <2>4. path[d + 1] = Joined(path[d], siblings[d], p)
    BY PathRises
  <2>5. FullTree(leaves)[d + 1] = Above(full)
    BY TreeRises
  <2>6. \A k \in Nat : full[k] = NodeAt(Levels(leaves)[d], k, Zeros[d])
    BY <1>0, LevelsMatch DEF Matches
  <2> HIDE DEF p, full, siblings, path
  <2>7. q \in Nat /\ Sibling(p) \in Nat
    BY <2>1, Halves
  <2>8. siblings[d] = full[Sibling(p)]
    BY <2>3, <2>6, <2>7
  <2>9. Above(full)[q] = Hash(full[2 * q], full[2 * q + 1])
    BY <2>7 DEF Above
  <2>10. path[d + 1] = Above(full)[q]
    <3>1. CASE p % 2 = 0
      <4>1. p = 2 * q /\ Sibling(p) = 2 * q + 1
        BY <2>1, <3>1, Halves
      <4>2. path[d + 1] = Hash(path[d], siblings[d])
        BY <2>4, <3>1 DEF Joined
      <4> HIDE DEF q
      <4>. QED
        BY <2>2, <2>8, <2>9, <4>1, <4>2
    <3>2. CASE p % 2 # 0
      <4>1. p = 2 * q + 1 /\ Sibling(p) = 2 * q
        BY <2>1, <3>2, Halves
      <4>2. path[d + 1] = Hash(siblings[d], path[d])
        BY <2>4, <3>2 DEF Joined
      <4> HIDE DEF q
      <4>. QED
        BY <2>2, <2>8, <2>9, <4>1, <4>2
    <3>. QED
      BY <3>1, <3>2
  <2>11. d + 1 \in 0 .. Depth
    BY <1>0
  <2>. QED
    BY <2>1, <2>5, <2>10, <2>11
<1> HIDE DEF S, path
<1>3. Depth \in S
  BY <1>0, <1>1, <1>2, Climb
<1>4. path[Depth] = FullTree(leaves)[Depth][0]
  BY <1>0, <1>3 DEF S
<1>. QED
  BY <1>4, RootIsOfTree DEF path, RootFromPath

\* No path leads to the root from what is not in the tree.
LEMMA OnlyPathsFromLeaves ==
  ASSUME TreeAssumption, NEW leaves \in Seq(Leaves), NEW x, NEW index \in Positions, NEW siblings,
         RootFromPath(x, index, siblings) = ComputeRoot(leaves)
  PROVE  LeafAt(leaves, index) = x
<1>0. Depth \in Nat /\ index \in Nat /\ Places(index)[Depth] = 0
  BY PlacesEndAtRoot DEF TreeAssumption
<1> DEFINE path == Path(x, index, siblings)
           On(d) == path[d] = FullTree(leaves)[d][Places(index)[d]]
           S == {n \in 0 .. Depth : On(Depth - n)}
<1>1. 0 \in S
  <2>1. path[Depth] = FullTree(leaves)[Depth][0]
    BY RootIsOfTree DEF RootFromPath
  <2>2. On(Depth)
    BY <1>0, <2>1
  <2>3. Depth - 0 = Depth
    BY <1>0
  <2> HIDE DEF On
  <2>. QED
    BY <1>0, <2>2, <2>3
<1>2. ASSUME NEW n \in 0 .. Depth - 1, n \in S PROVE n + 1 \in S
  <2> DEFINE d == Depth - (n + 1)
             p == Places(index)[d]
             q == p \div 2
             full == FullTree(leaves)[d]
  <2>1. d \in 0 .. Depth - 1 /\ Depth - n = d + 1 /\ n + 1 \in 0 .. Depth
    BY <1>0
  <2>2. On(d + 1)
    BY <1>2, <2>1
  <2> HIDE DEF d
  <2>3. p \in Nat /\ Places(index)[d + 1] = q
    BY <1>0, <2>1, PlacesAreNumbers, PlacesHalve
  <2>4. path[d + 1] = Joined(path[d], siblings[d], p)
    BY <2>1, PathRises
  <2>5. FullTree(leaves)[d + 1] = Above(full)
    BY <2>1, TreeRises
  <2>6. path[d + 1] = Above(full)[q]
    BY <2>2, <2>3, <2>5
  <2> HIDE DEF p, full, path
  <2>7. q \in Nat
    BY <2>3, Halves
  <2>8. Above(full)[q] = Hash(full[2 * q], full[2 * q + 1])
    BY <2>7 DEF Above
  <2>9. path[d] = full[p]
    <3>1. CASE p % 2 = 0
      <4>1. p = 2 * q
        BY <2>3, <3>1, Halves
      <4>2. path[d + 1] = Hash(path[d], siblings[d])
        BY <2>4, <3>1 DEF Joined
      <4> HIDE DEF q
      <4>3. path[d] = full[2 * q]
        BY <2>6, <2>8, <4>2, HashesDiffer
      <4>. QED
        BY <4>1, <4>3
    <3>2. CASE p % 2 # 0
      <4>1. p = 2 * q + 1
        BY <2>3, <3>2, Halves
      <4>2. path[d + 1] = Hash(siblings[d], path[d])
        BY <2>4, <3>2 DEF Joined
      <4> HIDE DEF q
      <4>3. path[d] = full[2 * q + 1]
        BY <2>6, <2>8, <4>2, HashesDiffer
      <4>. QED
        BY <4>1, <4>3
    <3>. QED
      BY <3>1, <3>2
  <2>10. On(Depth - (n + 1))
    BY <2>9 DEF p, full, d, path
  <2> HIDE DEF On
  <2>. QED
    BY <2>1, <2>10
<1> HIDE DEF S
<1>3. Depth \in S
  BY <1>0, <1>1, <1>2, Climb
<1>4. On(0)
  <2>1. Depth - Depth = 0
    BY <1>0
  <2>. QED
    BY <1>3, <2>1 DEF S
<1>5. path[0] = Leaf(x)
  BY PathRises
<1>6. FullTree(leaves)[0] = Bottom(leaves) /\ Places(index)[0] = index
  BY TreeRises, PlacesHalve
<1>7. Bottom(leaves)[index] = Leaf(LeafAt(leaves, index))
  BY <1>0 DEF Bottom
<1>. QED
  BY <1>4, <1>5, <1>6, <1>7, HashesDiffer

\* Two lists with the same root have the same leaves at every place of the tree,
LEMMA SameRootSameLeaves ==
  ASSUME TreeAssumption, NEW a \in Seq(Leaves), NEW b \in Seq(Leaves),
         ComputeRoot(a) = ComputeRoot(b), NEW k \in Positions
  PROVE  LeafAt(a, k) = LeafAt(b, k)
BY PathLeadsToRoot, OnlyPathsFromLeaves

\* and the other way round.
LEMMA SameLeavesSameRoot ==
  ASSUME TreeAssumption, NEW a \in Seq(Leaves), NEW b \in Seq(Leaves),
         \A k \in Positions : LeafAt(a, k) = LeafAt(b, k)
  PROVE  ComputeRoot(a) = ComputeRoot(b)
<1>0. Depth \in Nat
  BY DEF TreeAssumption
<1> DEFINE Same(d) == \A k \in 0 .. Width[Depth - d] - 1 :
                        FullTree(a)[d][k] = FullTree(b)[d][k]
           S == {d \in 0 .. Depth : Same(d)}
<1>1. 0 \in S
  <2>1. FullTree(a)[0] = Bottom(a) /\ FullTree(b)[0] = Bottom(b)
    BY TreeRises
  <2>2. Depth - 0 = Depth /\ Width[Depth] \in Nat
    BY <1>0, WidthsAreNumbers
  <2>3. ASSUME NEW k \in 0 .. Width[Depth] - 1 PROVE Bottom(a)[k] = Bottom(b)[k]
    <3>1. k \in Nat /\ k \in Positions
      BY <2>2 DEF Positions, Capacity
    <3>. QED
      BY <3>1 DEF Bottom
  <2>. QED
    BY <1>0, <2>1, <2>2, <2>3
<1>2. ASSUME NEW d \in 0 .. Depth - 1, d \in S PROVE d + 1 \in S
  <2> DEFINE e == Depth - (d + 1)
             f == FullTree(a)[d]
             g == FullTree(b)[d]
  <2>1. e \in 0 .. Depth - 1 /\ Depth - d = e + 1
    BY <1>0
  <2>2. FullTree(a)[d + 1] = Above(f) /\ FullTree(b)[d + 1] = Above(g)
    BY TreeRises
  <2> HIDE DEF e
  <2>3. Width[Depth - d] = 2 * Width[e] /\ Width[e] \in Nat
    BY <1>0, <2>1, WidthGrows, WidthsAreNumbers
  <2>4. \A k \in 0 .. 2 * Width[e] - 1 : f[k] = g[k]
    BY <1>2, <2>3
  <2> HIDE DEF f, g
  <2>5. ASSUME NEW k \in 0 .. Width[e] - 1 PROVE Above(f)[k] = Above(g)[k]
    <3>1. /\ k \in Nat
          /\ 2 * k \in 0 .. 2 * Width[e] - 1 /\ 2 * k + 1 \in 0 .. 2 * Width[e] - 1
      BY <2>3
    <3>2. f[2 * k] = g[2 * k] /\ f[2 * k + 1] = g[2 * k + 1]
      BY <2>4, <3>1
    <3>. QED
      BY <3>1, <3>2 DEF Above
  <2>6. Same(d + 1)
    BY <2>2, <2>5 DEF e
  <2> HIDE DEF Same
  <2>7. d + 1 \in 0 .. Depth
    BY <1>0
  <2>. QED
    BY <2>6, <2>7
<1> HIDE DEF S
<1>3. Same(Depth)
  <2>1. Depth \in S
    BY <1>0, <1>1, <1>2, Climb
  <2>. QED
    BY <2>1 DEF S
<1>4. Width[Depth - Depth] = 1
  BY <1>0, WidthGrows
<1>5. FullTree(a)[Depth][0] = FullTree(b)[Depth][0]
  BY <1>3, <1>4
<1>. QED
  BY <1>5, RootIsOfTree

\* The root of a tree is not the zero leaf that initialize stores.
LEMMA RootIsNoLeaf ==
  ASSUME TreeAssumption, NEW leaves \in Seq(Leaves)
  PROVE  ComputeRoot(leaves) # Leaf(Zero)
<1>1. Depth \in Nat /\ Depth - 1 \in 0 .. Depth - 1 /\ (Depth - 1) + 1 = Depth
  BY DEF TreeAssumption
<1>2. FullTree(leaves)[Depth] = Above(FullTree(leaves)[Depth - 1])
  BY <1>1, TreeRises
<1> DEFINE below == FullTree(leaves)[Depth - 1]
<1>3. Above(below)[0] = Hash(below[2 * 0], below[2 * 0 + 1])
  BY DEF Above
<1>. QED
  BY <1>2, <1>3, RootIsOfTree, HashesDiffer

-----------------------------------------------------------------------------
(* The pool's leaves: the first may be zero, the others are not, since they *)
(* would not change the root.                                               *)

Inv ==
  /\ commitments \in Seq(Leaves)
  /\ Len(commitments) <= Capacity
  /\ root = IF commitments = <<>> THEN Leaf(Zero) ELSE ComputeRoot(commitments)
  /\ \A i \in 2 .. Len(commitments) : commitments[i] # Zero

\* An append that changes the root leaves no zero behind the first leaf and finds room.
LEMMA AppendKeepsInv ==
  ASSUME TreeAssumption, Inv, NEW x \in Leaves, AppendCommitment(x)
  PROVE  Inv'
<1> DEFINE old == commitments
           longer == Append(commitments, x)
           n == Len(commitments)
<1>1. /\ longer \in Seq(Leaves) /\ Len(longer) = n + 1 /\ n \in Nat
      /\ \A i \in 1 .. n : longer[i] = old[i]
      /\ longer[n + 1] = x
  BY AppendProperties DEF Inv
<1>2. Capacity \in Nat \ {0}
  BY WidthsAreNumbers DEF Capacity, TreeAssumption
<1>3. root # ComputeRoot(longer) /\ commitments' = longer /\ root' = ComputeRoot(longer)
  BY DEF AppendCommitment
<1> HIDE DEF longer
<1>4. old \in Seq(Leaves)
  BY DEF Inv
<1>5. n # 0 => root = ComputeRoot(old)
  BY DEF Inv
<1>6. ASSUME \A k \in Positions : LeafAt(old, k) = LeafAt(longer, k), n # 0 PROVE FALSE
  BY <1>1, <1>3, <1>4, <1>5, <1>6, SameLeavesSameRoot
<1>7. n < Capacity
  <2> SUFFICES ASSUME ~ n < Capacity PROVE FALSE
    OBVIOUS
  <2>1. n = Capacity
    BY <1>1, <1>2 DEF Inv
  <2>2. ASSUME NEW k \in Positions PROVE LeafAt(old, k) = LeafAt(longer, k)
    BY <1>1, <1>2, <2>1 DEF LeafAt, NodeAt, Positions
  <2>. QED
    BY <1>2, <1>6, <2>1, <2>2
<1>8. n # 0 => x # Zero
  <2> SUFFICES ASSUME n # 0, x = Zero PROVE FALSE
    OBVIOUS
  <2>1. ASSUME NEW k \in Positions PROVE LeafAt(old, k) = LeafAt(longer, k)
    <3>1. k \in Nat
      BY <1>2 DEF Positions
    <3>2. CASE k < n
      BY <1>1, <3>1, <3>2 DEF LeafAt, NodeAt
    <3>3. CASE k = n
      BY <1>1, <3>1, <3>3 DEF LeafAt, NodeAt
    <3>4. CASE k > n
      BY <1>1, <3>1, <3>4 DEF LeafAt, NodeAt
    <3>. QED
      BY <1>1, <3>1, <3>2, <3>3, <3>4
  <2>. QED
    BY <1>6, <2>1
<1>9. \A i \in 2 .. n + 1 : longer[i] # Zero
  <2>1. \A i \in 2 .. n : old[i] # Zero
    BY DEF Inv
  <2>. QED
    BY <1>1, <1>8, <2>1
<1>10. longer # <<>>
  BY <1>1
<1>. QED
  BY <1>1, <1>2, <1>3, <1>7, <1>9, <1>10 DEF Inv

\* What Services needs of each property of the module, and of the invariant.
LEMMA TreeIsRight ==
  ASSUME TreeAssumption, Inv
  PROVE  RootIsOfFullTree
BY RootIsOfTree DEF Inv, RootIsOfFullTree

\* An owner's path proves his note, and proves nothing else.
LEMMA PathsAreRight ==
  ASSUME TreeAssumption, Inv
  PROVE  PathsProve
<1> DEFINE leaves == commitments
<1>0. leaves \in Seq(Leaves) /\ Len(leaves) <= Capacity /\ Len(leaves) \in Nat
  BY DEF Inv
<1>1. Capacity \in Nat
  BY WidthsAreNumbers DEF Capacity, TreeAssumption
<1>2. leaves # <<>> => root = ComputeRoot(leaves)
  BY DEF Inv
<1> HIDE DEF leaves
<1>3. ASSUME NEW i \in DOMAIN leaves
      PROVE  RootFromPath(leaves[i], i - 1, Siblings(leaves, i - 1)) = root
  <2>1. i \in 1 .. Len(leaves)
    BY <1>0
  <2>2. leaves # <<>>
    BY <2>1
  <2>3. i - 1 \in Positions /\ LeafAt(leaves, i - 1) = leaves[i]
    BY <1>0, <1>1, <2>1 DEF Positions, LeafAt, NodeAt
  <2>. QED
    BY <1>0, <1>2, <2>2, <2>3, PathLeadsToRoot
<1>4. ASSUME leaves # <<>>, NEW i \in Positions, NEW j \in Positions, NEW x \in Leaves,
             RootFromPath(x, j, Siblings(leaves, i)) = root
      PROVE  LeafAt(leaves, j) = x
  BY <1>0, <1>2, <1>4, OnlyPathsFromLeaves
<1>. QED
  BY <1>3, <1>4 DEF PathsProve, leaves

\* Different prefixes of the leaves have different roots.
LEMMA RootsAreDifferent ==
  ASSUME TreeAssumption, Inv
  PROVE  RootsDiffer
<1> DEFINE leaves == commitments
           Prefix(m) == SubSeq(leaves, 1, m)
<1>0. /\ leaves \in Seq(Leaves) /\ Len(leaves) <= Capacity /\ Len(leaves) \in Nat
      /\ \A i \in 2 .. Len(leaves) : leaves[i] # Zero
  BY DEF Inv
<1>1. Capacity \in Nat
  BY WidthsAreNumbers DEF Capacity, TreeAssumption
<1> HIDE DEF leaves
<1>2. ASSUME NEW m \in 1 .. Len(leaves)
      PROVE  /\ Prefix(m) \in Seq(Leaves) /\ Len(Prefix(m)) = m
             /\ \A i \in 1 .. m : Prefix(m)[i] = leaves[i]
  BY <1>0, SubSeqProperties
<1> HIDE DEF Prefix
<1>3. ASSUME NEW m \in 1 .. Len(leaves), NEW n \in 1 .. Len(leaves), m < n,
             ComputeRoot(Prefix(m)) = ComputeRoot(Prefix(n))
      PROVE  FALSE
  <2>1. n - 1 \in Positions /\ n \in 2 .. Len(leaves) /\ (n - 1) + 1 = n
    BY <1>0, <1>1, <1>3 DEF Positions
  <2>2. LeafAt(Prefix(m), n - 1) = LeafAt(Prefix(n), n - 1)
    BY <1>2, <1>3, <2>1, SameRootSameLeaves
  <2>3. LeafAt(Prefix(m), n - 1) = Zero
    BY <1>0, <1>2, <1>3 DEF LeafAt, NodeAt
  <2>4. LeafAt(Prefix(n), n - 1) = leaves[n]
    BY <1>0, <1>2, <2>1 DEF LeafAt, NodeAt
  <2>. QED
    BY <1>0, <2>1, <2>2, <2>3, <2>4
<1>4. \A m, n \in 1 .. Len(leaves) :
        ComputeRoot(Prefix(m)) = ComputeRoot(Prefix(n)) => m = n
  <2> SUFFICES ASSUME NEW m \in 1 .. Len(leaves), NEW n \in 1 .. Len(leaves),
                      ComputeRoot(Prefix(m)) = ComputeRoot(Prefix(n)), m # n
               PROVE  FALSE
    OBVIOUS
  <2>1. m < n \/ n < m
    BY <1>0
  <2>. QED
    BY <1>3, <2>1
<1>. QED
  BY <1>0, <1>4 DEF RootsDiffer, leaves, Prefix

\* An empty pool is in order,
LEMMA InitInv ==
  ASSUME TreeAssumption, Init
  PROVE  Inv
BY WidthsAreNumbers DEF Init, Inv, Capacity, TreeAssumption

\* and stays so.
LEMMA NextKeepsInv ==
  ASSUME TreeAssumption, Inv, [Next]_vars
  PROVE  Inv'
<1>1. CASE Next
  BY <1>1, AppendKeepsInv DEF Next
<1>2. CASE UNCHANGED vars
  BY <1>2 DEF vars, Inv
<1>. QED
  BY <1>1, <1>2
=============================================================================
