------------------------- MODULE ShieldedPoolProofs -------------------------
(***************************************************************************)
(* What ShieldedPool keeps for every set of notes, every window size and   *)
(* every capacity of the tree: its storage stays consistent, no note is    *)
(* spent twice, and the pool can pay for every unspent note.               *)
(***************************************************************************)
EXTENDS ShieldedPool, SequenceTheorems, TLAPS

-----------------------------------------------------------------------------
(* Sequences of notes and the roots over them. *)

\* Appending a note adds it to the leaves and nothing else.
LEMMA RangeAppendOne ==
  ASSUME NEW S, NEW s \in Seq(S), NEW e \in S
  PROVE  Range(Append(s, e)) = Range(s) \cup {e}
<1>. DEFINE t == Append(s, e)
<1>1. /\ Len(s) \in Nat
      /\ DOMAIN s = 1 .. Len(s)
      /\ DOMAIN t = 1 .. Len(s) + 1
  BY LenProperties, AppendProperties, SMT
<1>2. \A i \in 1 .. Len(s) : t[i] = s[i]
  BY AppendProperties
<1>3. t[Len(s) + 1] = e
  BY AppendProperties
<1>4. 1 .. Len(s) + 1 = (1 .. Len(s)) \cup {Len(s) + 1}
  BY <1>1
<1>. QED
  BY <1>1, <1>2, <1>3, <1>4 DEF Range

\* A prefix has no elements of its own.
LEMMA RangePrefix ==
  ASSUME NEW S, NEW s \in Seq(S), NEW k \in 0 .. Len(s)
  PROVE  /\ SubSeq(s, 1, k) \in Seq(S)
         /\ Range(SubSeq(s, 1, k)) \subseteq Range(s)
<1>1. Len(s) \in Nat /\ DOMAIN s = 1 .. Len(s)
  BY LenProperties
<1>2. \A i \in 1 .. k : s[i] \in S
  BY <1>1, ElementOfSeq
<1>3. /\ SubSeq(s, 1, k) \in Seq(S)
      /\ Len(SubSeq(s, 1, k)) = k
      /\ \A i \in 1 .. k : SubSeq(s, 1, k)[i] = s[i]
  BY <1>1, <1>2, SubSeqProperties, SMT
<1>4. DOMAIN SubSeq(s, 1, k) = 1 .. k
  BY <1>3, LenProperties
<1>. QED
  BY <1>1, <1>3, <1>4 DEF Range

\* A longer list of leaves went through the same roots as the shorter one.
LEMMA RootAfterAppend ==
  ASSUME NEW s \in Seq(Notes), NEW n \in Notes, NEW k \in 0 .. Len(s)
  PROVE  RootAfter(Append(s, n), k) = RootAfter(s, k)
<1>1. Len(s) \in Nat
  BY LenProperties
<1>2. CASE k = 0
  BY <1>2 DEF RootAfter
<1>3. CASE k # 0
  <2>1. Append(s, n) = s \o <<n>> /\ <<n>> \in Seq(Notes)
    BY AppendIsConcat
  <2>2. k \in 1 .. Len(s) /\ 1 \in 1 .. Len(s)
    BY <1>1, <1>3
  <2>3. SubSeq(s \o <<n>>, 1, k) = SubSeq(s, 1, k)
    BY <2>1, <2>2, SubSeqOfConcat1
  <2>. QED
    BY <1>3, <2>1, <2>3 DEF RootAfter
<1>. QED
  BY <1>2, <1>3

\* The root after the last leaf is the root of all the leaves.
LEMMA RootAfterAll ==
  ASSUME NEW s \in Seq(Notes), NEW n \in Notes
  PROVE  RootAfter(Append(s, n), Len(s) + 1) = MerkleRoot(Append(s, n))
<1>1. Append(s, n) \in Seq(Notes) /\ Len(Append(s, n)) = Len(s) + 1
  BY AppendProperties
<1>2. Len(s) + 1 # 0
  BY LenProperties
<1>3. SubSeq(Append(s, n), 1, Len(s) + 1) = Append(s, n)
  BY <1>1, SubSeqFull
<1>. QED
  BY <1>2, <1>3 DEF RootAfter

\* Roots have their type, and only notes of the pool lie under them.
LEMMA RootAfterType ==
  ASSUME NEW s \in Seq(Notes), NEW k \in 0 .. Len(s)
  PROVE  /\ RootAfter(s, k) \in RootValues
         /\ Range(RootAfter(s, k).leaves) \subseteq Range(s)
<1>1. CASE k = 0
  <2>1. <<>> \in Seq(Notes) /\ Range(<<>>) = {}
    BY DEF Range
  <2>. QED
    BY <1>1, <2>1 DEF RootAfter, ZeroRoot, RootValues
<1>2. CASE k # 0
  BY <1>2, RangePrefix DEF RootAfter, MerkleRoot, RootValues
<1>. QED
  BY <1>1, <1>2
-----------------------------------------------------------------------------
(* The worth of sets of notes. *)

\* Taking a note out of a set lowers its worth by the value of the note.
LEMMA WorthWithout ==
  ASSUME NEW S \in SUBSET Notes, NEW n \in S
  PROVE  /\ Worth[S] = Worth[S \ {n}] + Value[n]
         /\ Worth[S] \in Nat /\ Worth[S \ {n}] \in Nat /\ Value[n] \in Nat \ {0}
<1>1. S \ {n} \in SUBSET Notes /\ n \in Notes \ (S \ {n})
  OBVIOUS
<1>2. (S \ {n}) \cup {n} = S
  OBVIOUS
<1>3. Worth[(S \ {n}) \cup {n}] = Worth[S \ {n}] + Value[n]
  BY <1>1, WorthAssumption
<1>4. Worth[S] \in Nat /\ Worth[S \ {n}] \in Nat /\ Value[n] \in Nat \ {0}
  BY <1>1, WorthAssumption, PoolAssumption
<1>. QED
  BY <1>2, <1>3, <1>4

\* Putting a note into a set raises its worth by at most the value of the note.
LEMMA WorthWith ==
  ASSUME NEW S \in SUBSET Notes, NEW n \in Notes
  PROVE  /\ Worth[S \cup {n}] \in Nat /\ Worth[S] \in Nat /\ Value[n] \in Nat \ {0}
         /\ Worth[S \cup {n}] <= Worth[S] + Value[n]
<1>1. Worth[S \cup {n}] \in Nat /\ Worth[S] \in Nat /\ Value[n] \in Nat \ {0}
  BY WorthAssumption, PoolAssumption
<1>2. CASE n \in S
  <2>1. S \cup {n} = S
    BY <1>2
  <2>. QED
    BY <1>1, <2>1
<1>3. CASE n \notin S
  <2>1. Worth[S \cup {n}] = Worth[S] + Value[n]
    BY <1>3, WorthAssumption
  <2>. QED
    BY <1>1, <2>1
<1>. QED
  BY <1>1, <1>2, <1>3

-----------------------------------------------------------------------------
(* The inductive invariant.  Solvency needs to know that whoever proves a   *)
(* spend owns an unspent leaf; that follows from the window, whose roots    *)
(* are all roots of prefixes of the leaves; and the window is only known to *)
(* be so while the stored root is the root of the stored leaves.            *)

NothingBeforeInitialize ==
  ~Initialized => /\ commitments = <<>>
                  /\ nullifiers = <<>>

Inv ==
  /\ TypeOK
  /\ RootIsOfCommitments
  /\ WindowIsRecentHistory
  /\ NoDoubleSpend
  /\ OnlyCommittedNotesSpent
  /\ Solvency
  /\ NothingBeforeInitialize

\* The notes under a root of the window are leaves of the pool.
LEMMA WindowLeaves ==
  ASSUME TypeOK, WindowIsRecentHistory, Initialized, NEW r \in Range(roots)
  PROVE  Range(r.leaves) \subseteq Range(commitments)
<1>1. /\ Len(commitments) \in Nat /\ Len(roots) \in Nat
      /\ DOMAIN roots = 1 .. Len(roots)
      /\ MaxRoots \in Nat \ {0}
  BY LenProperties, PoolAssumption DEF TypeOK
<1>2. PICK i \in 1 .. Len(roots) : r = roots[i]
  BY <1>1 DEF Range
<1>. DEFINE k == Len(commitments) - Len(roots) + i
<1>3. Len(roots) <= Len(commitments) + 1
  <2>1. Len(roots) = IF Len(commitments) < MaxRoots
                     THEN Len(commitments) + 1 ELSE MaxRoots
    BY DEF WindowIsRecentHistory
  <2>. QED
    BY <1>1, <2>1
<1>4. k \in 0 .. Len(commitments)
  BY <1>1, <1>3
<1>5. r = RootAfter(commitments, k)
  BY <1>2 DEF WindowIsRecentHistory
<1>. HIDE DEF k
<1>. QED
  BY <1>4, <1>5, RootAfterType DEF TypeOK

\* A verified spend against the window spends a live note for at most its value.
LEMMA ProvenSpendIsLive ==
  ASSUME TypeOK, WindowIsRecentHistory, Initialized,
         NEW p, p.root \in Range(roots), Verifies(p), Unspent(p.note)
  PROVE  /\ p.note \in Live
         /\ p.withdrawn \in 0 .. Value[p.note]
  BY WindowLeaves DEF Verifies, Unspent, Live

\* Live notes are notes.
LEMMA LiveNotes ==
  ASSUME TypeOK
  PROVE  Live \in SUBSET Notes
  BY RangeOfSeq DEF TypeOK, Live
-----------------------------------------------------------------------------
(* The three ways the storage changes. *)

\* PushRoot drops the oldest root only when the window is full.
LEMMA PushRootWindow ==
  ASSUME NEW w \in Seq(RootValues), NEW r \in RootValues
  PROVE  /\ PushRoot(w, r) \in Seq(RootValues)
         /\ Len(w) < MaxRoots =>
              /\ Len(PushRoot(w, r)) = Len(w) + 1
              /\ \A i \in 1 .. Len(w) : PushRoot(w, r)[i] = w[i]
              /\ PushRoot(w, r)[Len(w) + 1] = r
         /\ Len(w) >= MaxRoots =>
              /\ Len(PushRoot(w, r)) = Len(w)
              /\ \A i \in 1 .. Len(w) - 1 : PushRoot(w, r)[i] = w[i + 1]
              /\ PushRoot(w, r)[Len(w)] = r
<1>1. Len(w) \in Nat /\ MaxRoots \in Nat \ {0}
  BY LenProperties, PoolAssumption
<1>2. CASE Len(w) < MaxRoots
  <2>1. PushRoot(w, r) = Append(w, r)
    BY <1>1, <1>2 DEF PushRoot
  <2>. QED
    BY <1>1, <1>2, <2>1, AppendProperties
<1>3. CASE Len(w) >= MaxRoots
  <2>1. PushRoot(w, r) = Append(Tail(w), r)
    BY <1>1, <1>3 DEF PushRoot
  <2>2. w # <<>>
    BY <1>1, <1>3, EmptySeq
  <2>3. /\ Tail(w) \in Seq(RootValues)
        /\ Len(Tail(w)) = Len(w) - 1
        /\ \A i \in 1 .. Len(w) - 1 : Tail(w)[i] = w[i + 1]
    BY <2>2, HeadTailProperties
  <2>4. /\ Append(Tail(w), r) \in Seq(RootValues)
        /\ Len(Append(Tail(w), r)) = Len(Tail(w)) + 1
        /\ \A i \in 1 .. Len(Tail(w)) : Append(Tail(w), r)[i] = Tail(w)[i]
        /\ Append(Tail(w), r)[Len(Tail(w)) + 1] = r
    BY <2>3, AppendProperties
  <2>5. Len(Append(Tail(w), r)) = Len(w) /\ Append(Tail(w), r)[Len(w)] = r
    BY <1>1, <2>3, <2>4
  <2>6. \A i \in 1 .. Len(w) - 1 : Append(Tail(w), r)[i] = w[i + 1]
    BY <2>3, <2>4
  <2>7. ~(Len(w) < MaxRoots)
    BY <1>1, <1>3
  <2>. QED
    BY <2>1, <2>4, <2>5, <2>6, <2>7
<1>. QED
  BY <1>1, <1>2, <1>3

\* Appending a leaf keeps the root and the window in step with the leaves.
LEMMA AppendLeafStep ==
  ASSUME TypeOK, RootIsOfCommitments, WindowIsRecentHistory, Initialized,
         NEW n \in Notes, NEW new, AppendLeaf(n, new), admin' = admin
  PROVE  /\ commitments' \in Seq(Notes)
         /\ Len(commitments') <= MaxLeaves
         /\ root' \in RootValues
         /\ roots' \in Seq(RootValues)
         /\ Range(commitments') = Range(commitments) \cup {n}
         /\ RootIsOfCommitments'
         /\ WindowIsRecentHistory'
<1>. DEFINE c == commitments
            d == Append(commitments, n)
<1>1. /\ c \in Seq(Notes) /\ Len(c) \in Nat /\ Len(roots) \in Nat
      /\ roots \in Seq(RootValues)
      /\ MaxRoots \in Nat \ {0} /\ MaxLeaves \in Nat
  BY LenProperties, PoolAssumption DEF TypeOK
<1>2. /\ commitments' = d /\ root' = new /\ roots' = PushRoot(roots, new)
      /\ new = MerkleRoot(d) /\ Len(c) < MaxLeaves
  BY DEF AppendLeaf
<1>3. d \in Seq(Notes) /\ Len(d) = Len(c) + 1
  BY <1>1, AppendProperties
<1>4. new \in RootValues
  BY <1>2, <1>3 DEF MerkleRoot, RootValues
<1>5. new = RootAfter(d, Len(d))
  BY <1>1, <1>2, <1>3, RootAfterAll
<1>6. \A k \in 0 .. Len(c) : RootAfter(d, k) = RootAfter(c, k)
  BY <1>1, RootAfterAppend
<1>7. WindowIsRecentHistory'
  <2>1. /\ Len(roots) = IF Len(c) < MaxRoots THEN Len(c) + 1 ELSE MaxRoots
        /\ \A i \in 1 .. Len(roots) :
             roots[i] = RootAfter(c, Len(c) - Len(roots) + i)
    BY DEF WindowIsRecentHistory
  <2>. DEFINE w == PushRoot(roots, new)
  <2>. SUFFICES /\ Len(w) = IF Len(d) < MaxRoots THEN Len(d) + 1 ELSE MaxRoots
                /\ \A i \in 1 .. Len(w) :
                     w[i] = RootAfter(d, Len(d) - Len(w) + i)
    BY <1>2 DEF WindowIsRecentHistory
  <2>2. CASE Len(roots) < MaxRoots
    <3>1. /\ Len(w) = Len(roots) + 1
          /\ \A i \in 1 .. Len(roots) : w[i] = roots[i]
          /\ w[Len(roots) + 1] = new
      BY <1>1, <1>4, <2>2, PushRootWindow
    <3>2. Len(roots) = Len(c) + 1 /\ Len(d) - Len(w) = -1
      BY <1>1, <1>3, <2>1, <2>2, <3>1
    <3>. HIDE DEF w, d, c
    <3>3. ASSUME NEW i \in 1 .. Len(roots)
          PROVE  w[i] = RootAfter(d, Len(d) - Len(w) + i)
      <4>1. Len(c) - Len(roots) + i = i - 1 /\ Len(d) - Len(w) + i = i - 1
        BY <1>1, <1>3, <3>1, <3>2
      <4>2. i - 1 \in 0 .. Len(c)
        BY <1>1, <3>2
      <4>. QED
        BY <1>6, <2>1, <3>1, <4>1, <4>2
    <3>4. Len(d) - Len(w) + (Len(roots) + 1) = Len(d)
      BY <1>1, <1>3, <3>1, <3>2
    <3>5. \A i \in 1 .. Len(w) : i \in 1 .. Len(roots) \/ i = Len(roots) + 1
      BY <1>1, <3>1
    <3>6. Len(w) = IF Len(d) < MaxRoots THEN Len(d) + 1 ELSE MaxRoots
      BY <1>1, <1>3, <2>2, <3>1, <3>2
    <3>. QED
      BY <1>5, <3>1, <3>3, <3>4, <3>5, <3>6
  <2>3. CASE Len(roots) >= MaxRoots
    <3>1. /\ Len(w) = Len(roots)
          /\ \A i \in 1 .. Len(roots) - 1 : w[i] = roots[i + 1]
          /\ w[Len(roots)] = new
      BY <1>1, <1>4, <2>3, PushRootWindow
    <3>2. Len(roots) = MaxRoots /\ Len(c) + 1 >= MaxRoots
      BY <1>1, <2>1, <2>3
    <3>. HIDE DEF w, d, c
    <3>3. ASSUME NEW i \in 1 .. Len(roots) - 1
          PROVE  w[i] = RootAfter(d, Len(d) - Len(w) + i)
      <4>1. Len(c) - Len(roots) + (i + 1) = Len(d) - Len(w) + i
        BY <1>1, <1>3, <3>1
      <4>2. Len(d) - Len(w) + i \in 0 .. Len(c)
        BY <1>1, <1>3, <3>1, <3>2
      <4>3. i + 1 \in 1 .. Len(roots)
        BY <1>1
      <4>. QED
        BY <1>6, <2>1, <3>1, <4>1, <4>2, <4>3
    <3>4. Len(d) - Len(w) + Len(roots) = Len(d)
      BY <1>1, <1>3, <3>1
    <3>5. \A i \in 1 .. Len(w) : i \in 1 .. Len(roots) - 1 \/ i = Len(roots)
      BY <1>1, <3>1
    <3>6. Len(w) = IF Len(d) < MaxRoots THEN Len(d) + 1 ELSE MaxRoots
      BY <1>1, <1>3, <3>1, <3>2
    <3>. QED
      BY <1>5, <3>1, <3>3, <3>4, <3>5, <3>6
  <2>. QED
    BY <1>1, <2>2, <2>3
<1>. QED
  BY <1>1, <1>2, <1>3, <1>4, <1>5, <1>7, PushRootWindow, RangeAppendOne
     DEF RootIsOfCommitments
\* Recording an unspent nullifier keeps the nullifiers distinct.
LEMMA SpendNoteStep ==
  ASSUME TypeOK, NoDoubleSpend, NEW n \in Notes, Unspent(n), SpendNote(n)
  PROVE  /\ nullifiers' \in Seq(Notes)
         /\ Range(nullifiers') = Range(nullifiers) \cup {n}
         /\ NoDoubleSpend'
<1>. DEFINE m == Append(nullifiers, n)
<1>1. /\ nullifiers \in Seq(Notes) /\ Len(nullifiers) \in Nat
      /\ DOMAIN nullifiers = 1 .. Len(nullifiers)
      /\ nullifiers' = m
  BY LenProperties DEF TypeOK, SpendNote
<1>2. /\ m \in Seq(Notes) /\ Len(m) = Len(nullifiers) + 1
      /\ \A i \in 1 .. Len(nullifiers) : m[i] = nullifiers[i]
      /\ m[Len(nullifiers) + 1] = n
  BY <1>1, AppendProperties
<1>3. \A i \in 1 .. Len(nullifiers) : nullifiers[i] # n
  BY <1>1 DEF Unspent, Range
<1>4. \A i, j \in 1 .. Len(m) : m[i] = m[j] => i = j
  <2>. HIDE DEF m
  <2>1. \A i \in 1 .. Len(m) :
          i \in 1 .. Len(nullifiers) \/ i = Len(nullifiers) + 1
    BY <1>1, <1>2
  <2>. QED
    BY <1>2, <1>3, <2>1 DEF NoDoubleSpend
<1>. QED
  BY <1>1, <1>2, <1>4, RangeAppendOne DEF NoDoubleSpend

\* A token transfer leaves no balance below zero.
LEMMA MoveTokensStep ==
  ASSUME TypeOK, NEW from \in Accounts, NEW to \in Accounts, from # to,
         NEW amount \in Nat, MoveTokens(from, to, amount)
  PROVE  /\ tokens' \in [Accounts -> Nat]
         /\ tokens'[from] = tokens[from] - amount
         /\ tokens'[to] = tokens[to] + amount
<1>1. /\ tokens \in [Accounts -> Nat]
      /\ tokens[from] >= amount
      /\ tokens' = [tokens EXCEPT ![from] = @ - amount, ![to] = @ + amount]
  BY DEF TypeOK, MoveTokens
<1>2. tokens[from] \in Nat /\ tokens[to] \in Nat
  BY <1>1
<1>3. tokens[from] - amount \in Nat /\ tokens[to] + amount \in Nat
  BY <1>1, <1>2
<1>. QED
  BY <1>1, <1>2, <1>3

-----------------------------------------------------------------------------
(* Each call preserves the invariant. *)

LEMMA InitInv == Init => Inv
<1>. SUFFICES ASSUME Init PROVE Inv
  OBVIOUS
<1>1. /\ <<>> \in Seq(Notes) /\ <<>> \in Seq(RootValues) /\ Len(<<>>) = 0
      /\ Range(<<>>) = {}
  BY DEF Range
<1>2. TypeOK
  <2>1. tokens \in [Accounts -> Nat]
    BY PoolAssumption DEF Init, Accounts
  <2>. QED
    BY <1>1, <2>1, PoolAssumption DEF Init, TypeOK, ZeroRoot, RootValues
<1>3. Solvency
  <2>1. Live = {} /\ tokens[PoolAddress] = 0
    BY <1>1 DEF Init, Live, Accounts
  <2>. QED
    BY <2>1, WorthAssumption DEF Solvency
<1>. QED
  BY <1>1, <1>2, <1>3
     DEF Init, Inv, RootIsOfCommitments, RootAfter, WindowIsRecentHistory,
         Initialized, NoDoubleSpend, OnlyCommittedNotesSpent, NothingBeforeInitialize

LEMMA InitializeInv ==
  ASSUME Inv, NEW a \in Admins, Initialize(a)
  PROVE  Inv'
<1>1. /\ <<>> \in Seq(Notes) /\ Len(<<>>) = 0 /\ Range(<<>>) = {}
      /\ ZeroRoot \in RootValues
  BY DEF Range, ZeroRoot, RootValues
<1>2. /\ commitments = <<>> /\ nullifiers = <<>> /\ tokens' = tokens
      /\ commitments' = <<>> /\ nullifiers' = <<>> /\ admin' = a
      /\ root' = ZeroRoot /\ roots' = <<ZeroRoot>>
  BY DEF Inv, NothingBeforeInitialize, Initialize
<1>3. TypeOK'
  BY <1>1, <1>2, PoolAssumption DEF Inv, TypeOK
<1>4. WindowIsRecentHistory'
  <2>1. Len(<<ZeroRoot>>) = 1 /\ <<ZeroRoot>>[1] = ZeroRoot
    OBVIOUS
  <2>2. MaxRoots \in Nat /\ 0 < MaxRoots
    BY PoolAssumption
  <2>3. \A i \in 1 .. 1 : i = 1
    OBVIOUS
  <2>4. RootAfter(<<>>, 0 - 1 + 1) = ZeroRoot
    BY DEF RootAfter
  <2>. QED
    BY <1>1, <1>2, <2>1, <2>2, <2>3, <2>4 DEF WindowIsRecentHistory
<1>5. RootIsOfCommitments'
  BY <1>1, <1>2 DEF RootIsOfCommitments, RootAfter
<1>6. Solvency'
  BY <1>2 DEF Inv, Solvency, Live
<1>. QED
  BY <1>2, <1>3, <1>4, <1>5, <1>6
     DEF Inv, NoDoubleSpend, OnlyCommittedNotesSpent, NothingBeforeInitialize

LEMMA DepositInv ==
  ASSUME Inv, NEW from \in Users, NEW n \in Notes, NEW previous, NEW new,
         Deposit(from, n, previous, new, Value[n])
  PROVE  Inv'
<1>1. /\ TypeOK /\ RootIsOfCommitments /\ WindowIsRecentHistory
      /\ Initialized /\ AppendLeaf(n, new) /\ admin' = admin
      /\ nullifiers' = nullifiers
      /\ MoveTokens(from, PoolAddress, Value[n])
  BY DEF Inv, Deposit
<1>2. /\ commitments' \in Seq(Notes) /\ Len(commitments') <= MaxLeaves
      /\ root' \in RootValues /\ roots' \in Seq(RootValues)
      /\ Range(commitments') = Range(commitments) \cup {n}
      /\ RootIsOfCommitments' /\ WindowIsRecentHistory'
  BY <1>1, AppendLeafStep
<1>3. /\ tokens' \in [Accounts -> Nat]
      /\ tokens'[PoolAddress] = tokens[PoolAddress] + Value[n]
      /\ tokens[PoolAddress] \in Nat /\ Value[n] \in Nat
  <2>1. from \in Accounts /\ PoolAddress \in Accounts /\ from # PoolAddress
    BY PoolAssumption DEF Accounts
  <2>2. Value[n] \in Nat
    BY PoolAssumption
  <2>. QED
    BY <1>1, <2>1, <2>2, MoveTokensStep DEF TypeOK
<1>4. TypeOK'
  BY <1>1, <1>2, <1>3 DEF TypeOK
<1>5. Solvency'
  <2>1. Live' = Live \/ Live' = Live \cup {n}
    BY <1>1, <1>2 DEF Live
  <2>2. Live \in SUBSET Notes
    BY <1>1, LiveNotes
  <2>3. /\ Worth[Live \cup {n}] <= Worth[Live] + Value[n]
        /\ Worth[Live \cup {n}] \in Nat /\ Worth[Live] \in Nat
    BY <2>2, WorthWith
  <2>4. tokens[PoolAddress] >= Worth[Live]
    BY DEF Inv, Solvency
  <2>5. Worth[Live'] = Worth[Live] \/ Worth[Live'] = Worth[Live \cup {n}]
    BY <2>1
  <2>6. Worth[Live'] <= Worth[Live] + Value[n] /\ Worth[Live'] \in Nat
    BY <1>3, <2>3, <2>5
  <2>7. tokens'[PoolAddress] >= Worth[Live']
    BY <1>3, <2>3, <2>4, <2>6
  <2>. QED
    BY <2>7 DEF Solvency
<1>6. NoDoubleSpend' /\ OnlyCommittedNotesSpent' /\ NothingBeforeInitialize'
  BY <1>1, <1>2 DEF Inv, NoDoubleSpend, OnlyCommittedNotesSpent,
                    NothingBeforeInitialize, Initialized
<1>. QED
  BY <1>2, <1>4, <1>5, <1>6 DEF Inv

LEMMA WithdrawInv ==
  ASSUME Inv, NEW to \in Users, NEW p, NEW nullifier \in Notes,
         p.withdrawn \in Nat, Withdraw(to, p, nullifier)
  PROVE  Inv'
<1>1. /\ TypeOK /\ WindowIsRecentHistory /\ NoDoubleSpend /\ Initialized
      /\ p.note = nullifier /\ p.root \in Range(roots) /\ Verifies(p)
      /\ Unspent(nullifier) /\ SpendNote(nullifier)
      /\ MoveTokens(PoolAddress, to, p.withdrawn)
      /\ admin' = admin /\ root' = root /\ roots' = roots
      /\ commitments' = commitments
  BY DEF Inv, Withdraw, WithdrawalProven
<1>2. /\ nullifiers' \in Seq(Notes)
      /\ Range(nullifiers') = Range(nullifiers) \cup {nullifier}
      /\ NoDoubleSpend'
  BY <1>1, SpendNoteStep
<1>3. nullifier \in Live /\ p.withdrawn \in 0 .. Value[nullifier]
  BY <1>1, ProvenSpendIsLive
<1>4. /\ tokens' \in [Accounts -> Nat]
      /\ tokens'[PoolAddress] = tokens[PoolAddress] - p.withdrawn
      /\ tokens[PoolAddress] \in Nat
  <2>1. to \in Accounts /\ PoolAddress \in Accounts /\ to # PoolAddress
    BY PoolAssumption DEF Accounts
  <2>. QED
    BY <1>1, <2>1, MoveTokensStep DEF TypeOK
<1>5. TypeOK'
  BY <1>1, <1>2, <1>4 DEF TypeOK
<1>6. Solvency'
  <2>1. Live' = Live \ {nullifier}
    BY <1>1, <1>2 DEF Live
  <2>2. /\ Worth[Live] = Worth[Live \ {nullifier}] + Value[nullifier]
        /\ Worth[Live] \in Nat /\ Worth[Live \ {nullifier}] \in Nat
        /\ Value[nullifier] \in Nat
    BY <1>1, <1>3, LiveNotes, WorthWithout
  <2>3. tokens[PoolAddress] >= Worth[Live]
    BY DEF Inv, Solvency
  <2>4. tokens'[PoolAddress] >= Worth[Live']
    BY <1>3, <1>4, <2>1, <2>2, <2>3
  <2>. QED
    BY <2>4 DEF Solvency
<1>7. /\ RootIsOfCommitments' /\ WindowIsRecentHistory'
      /\ OnlyCommittedNotesSpent' /\ NothingBeforeInitialize'
  BY <1>1, <1>2, <1>3
     DEF Inv, RootIsOfCommitments, WindowIsRecentHistory, OnlyCommittedNotesSpent,
         NothingBeforeInitialize, Initialized, Live
<1>. QED
  BY <1>2, <1>5, <1>6, <1>7 DEF Inv

LEMMA TransferInv ==
  ASSUME Inv, NEW p, NEW nullifier \in Notes, NEW output \in Notes, NEW new,
         Transfer(p, nullifier, output, new, Value[output])
  PROVE  Inv'
<1>1. /\ TypeOK /\ RootIsOfCommitments /\ WindowIsRecentHistory
      /\ NoDoubleSpend /\ Initialized
      /\ p.note = nullifier /\ p.root \in Range(roots) /\ Verifies(p)
      /\ p.withdrawn = Value[output]
      /\ Unspent(nullifier) /\ SpendNote(nullifier) /\ AppendLeaf(output, new)
      /\ admin' = admin /\ tokens' = tokens
  BY DEF Inv, Transfer
<1>2. /\ commitments' \in Seq(Notes) /\ Len(commitments') <= MaxLeaves
      /\ root' \in RootValues /\ roots' \in Seq(RootValues)
      /\ Range(commitments') = Range(commitments) \cup {output}
      /\ RootIsOfCommitments' /\ WindowIsRecentHistory'
  BY <1>1, AppendLeafStep
<1>3. /\ nullifiers' \in Seq(Notes)
      /\ Range(nullifiers') = Range(nullifiers) \cup {nullifier}
      /\ NoDoubleSpend'
  BY <1>1, SpendNoteStep
<1>4. nullifier \in Live /\ p.withdrawn \in 0 .. Value[nullifier]
  BY <1>1, ProvenSpendIsLive
<1>5. TypeOK'
  BY <1>1, <1>2, <1>3 DEF TypeOK
<1>6. Solvency'
  <2>. DEFINE rest == Live \ {nullifier}
  <2>1. Live' = rest \/ Live' = rest \cup {output}
    BY <1>2, <1>3 DEF Live
  <2>2. Live \in SUBSET Notes /\ rest \in SUBSET Notes
    BY <1>1, LiveNotes
  <2>3. /\ Worth[Live] = Worth[rest] + Value[nullifier]
        /\ Worth[Live] \in Nat /\ Worth[rest] \in Nat /\ Value[nullifier] \in Nat
    BY <1>4, <2>2, WorthWithout
  <2>4. /\ Worth[rest \cup {output}] <= Worth[rest] + Value[output]
        /\ Worth[rest \cup {output}] \in Nat /\ Value[output] \in Nat
    BY <2>2, WorthWith
  <2>5. Worth[Live'] = Worth[rest] \/ Worth[Live'] = Worth[rest \cup {output}]
    BY <2>1
  <2>6. tokens[PoolAddress] >= Worth[Live] /\ tokens[PoolAddress] \in Nat
    BY <1>1 DEF Inv, Solvency, TypeOK, Accounts
  <2>. HIDE DEF rest
  <2>7. Value[output] <= Value[nullifier]
    BY <1>1, <1>4, <2>3, <2>4
  <2>8. Worth[Live'] <= Worth[Live] /\ Worth[Live'] \in Nat
    BY <2>3, <2>4, <2>5, <2>7
  <2>9. tokens[PoolAddress] >= Worth[Live']
    BY <2>3, <2>6, <2>8
  <2>. QED
    BY <1>1, <2>9 DEF Solvency
<1>7. OnlyCommittedNotesSpent' /\ NothingBeforeInitialize'
  BY <1>1, <1>2, <1>3, <1>4
     DEF Inv, OnlyCommittedNotesSpent, NothingBeforeInitialize, Initialized, Live
<1>. QED
  BY <1>2, <1>3, <1>5, <1>6, <1>7 DEF Inv

\* Nothing the invariant speaks of changes in a stuttering step.
LEMMA StutterInv == Inv /\ UNCHANGED vars => Inv'
  BY DEF Inv, vars, TypeOK, RootIsOfCommitments, WindowIsRecentHistory,
         NoDoubleSpend, OnlyCommittedNotesSpent, Solvency, Live,
         NothingBeforeInitialize, Initialized

\* The calls a client makes have natural amounts and name their note.
LEMMA CallTypes ==
  ASSUME NEW n \in Notes, NEW r, NEW w \in Amounts, NEW b
  PROVE  Proof(n, r, w, b).withdrawn \in Nat
<1>1. PICK m \in Notes : w \in 0 .. Value[m]
  BY DEF Amounts
<1>2. Value[m] \in Nat
  BY PoolAssumption
<1>3. w \in Nat
  BY <1>1, <1>2
<1>. QED
  BY <1>3 DEF Proof

LEMMA NextInv == Inv /\ [Next]_vars => Inv'
<1>. SUFFICES ASSUME Inv, [Next]_vars PROVE Inv'
  OBVIOUS
<1>1. ASSUME NEW a \in Admins, Initialize(a) PROVE Inv'
  BY <1>1, InitializeInv
<1>2. ASSUME NEW from \in Users, NEW n \in Notes, NEW previous \in KnownRoots,
             NEW new \in ProposedRoots(n), Deposit(from, n, previous, new, Value[n])
      PROVE  Inv'
  BY <1>2, DepositInv
<1>3. ASSUME NEW n \in Notes, NEW nullifier \in Notes, NEW r \in KnownRoots,
             NEW w \in Amounts, NEW to \in Users, NEW b \in Users,
             Withdraw(to, Proof(n, r, w, b), nullifier)
      PROVE  Inv'
  BY <1>3, CallTypes, WithdrawInv
<1>4. ASSUME NEW n \in Notes, NEW nullifier \in Notes, NEW output \in Notes,
             NEW b \in Notes, NEW r \in KnownRoots, NEW w \in Amounts,
             NEW new \in ProposedRoots(output),
             Transfer(Proof(n, r, w, b), nullifier, output, new, Value[output])
      PROVE  Inv'
  BY <1>4, TransferInv
<1>. QED
  BY <1>1, <1>2, <1>3, <1>4, StutterInv DEF Next

\* The storage of the contract and the money in it stay consistent with each
\* other through every sequence of calls.
THEOREM InvHolds == Spec => []Inv
<1>. QED
  BY InitInv, NextInv, PTL DEF Spec

\* TypeOK: storage and balances keep their types, no balance below zero.
THEOREM TypeCorrect == Spec => []TypeOK
<1>. QED
  BY InvHolds, PTL DEF Inv

\* RootIsOfCommitments: whatever root a caller brings, the one that deposit and
\* transfer store is that of the contract's own leaves.
THEOREM RootFollowsLeaves == Spec => []RootIsOfCommitments
<1>. QED
  BY InvHolds, PTL DEF Inv

\* WindowIsRecentHistory: the contract accepts proofs against the last MaxRoots
\* roots of its own leaves, and against no other.
THEOREM RootsAreOwnHistory == Spec => []WindowIsRecentHistory
<1>. QED
  BY InvHolds, PTL DEF Inv

\* NoDoubleSpend: each note is spent at most once, by withdraw or by transfer.
THEOREM SpentOnce == Spec => []NoDoubleSpend
<1>. QED
  BY InvHolds, PTL DEF Inv

\* OnlyCommittedNotesSpent: a proof under any root of the window spends a leaf of
\* the pool, and nothing else is spent.
THEOREM OnlyLeavesAreSpent == Spec => []OnlyCommittedNotesSpent
<1>. QED
  BY InvHolds, PTL DEF Inv

\* Solvency: the pool's balance covers all unspent notes.
THEOREM PoolIsSolvent == Spec => []Solvency
<1>. QED
  BY InvHolds, PTL DEF Inv

-----------------------------------------------------------------------------
(* An unspent note can always be redeemed in full. *)

\* The current root is accepted, and all leaves lie under it.
LEMMA CurrentRootAccepted ==
  ASSUME Inv, NEW n \in Live
  PROVE  /\ Initialized
         /\ root \in Range(roots)
         /\ n \in Range(root.leaves)
<1>1. /\ commitments \in Seq(Notes) /\ Len(commitments) \in Nat
      /\ Len(roots) \in Nat /\ DOMAIN roots = 1 .. Len(roots)
      /\ MaxRoots \in Nat \ {0}
  BY LenProperties, PoolAssumption DEF Inv, TypeOK
<1>2. n \in Range(commitments)
  BY DEF Live
<1>3. commitments # <<>>
  BY <1>2 DEF Range
<1>4. Initialized
  BY <1>3 DEF Inv, NothingBeforeInitialize
<1>5. Len(commitments) # 0
  BY <1>1, <1>3, EmptySeq
<1>6. root \in Range(roots)
  <2>1. Len(roots) = IF Len(commitments) < MaxRoots
                     THEN Len(commitments) + 1 ELSE MaxRoots
    BY <1>4 DEF Inv, WindowIsRecentHistory
  <2>2. Len(roots) \in 1 .. Len(roots)
    BY <1>1, <2>1
  <2>3. Len(commitments) - Len(roots) + Len(roots) = Len(commitments)
    BY <1>1
  <2>4. roots[Len(roots)] = RootAfter(commitments, Len(commitments))
    BY <1>4, <2>2, <2>3 DEF Inv, WindowIsRecentHistory
  <2>5. roots[Len(roots)] = root
    BY <2>4 DEF Inv, RootIsOfCommitments
  <2>. QED
    BY <1>1, <2>2, <2>5 DEF Range
<1>7. root = MerkleRoot(commitments)
  <2>1. root = MerkleRoot(SubSeq(commitments, 1, Len(commitments)))
    BY <1>5 DEF Inv, RootIsOfCommitments, RootAfter
  <2>. QED
    BY <1>1, <2>1, SubSeqFull
<1>. QED
  BY <1>2, <1>4, <1>6, <1>7 DEF MerkleRoot

\* A consistent pool can pay the owner of each unspent note in full.
LEMMA ConsistentPoolPays == Inv => NotesStayWithdrawable
<1>. SUFFICES ASSUME Inv, NEW n \in Live, NEW u \in Users
              PROVE  WithdrawResult(u, Proof(n, root, Value[n], u), n) = "Ok"
  BY DEF NotesStayWithdrawable
<1>. DEFINE p == Proof(n, root, Value[n], u)
<1>1. p.note = n /\ p.root = root /\ p.withdrawn = Value[n] /\ p.binding = u
  BY DEF Proof
<1>2. Live \in SUBSET Notes /\ n \in Notes
  BY LiveNotes DEF Inv
<1>3. Value[n] \in Nat \ {0}
  BY <1>2, PoolAssumption
<1>4. WithdrawalProven(u, p, n)
  <2>. HIDE DEF p
  <2>. QED
    BY <1>1, <1>3, CurrentRootAccepted DEF WithdrawalProven, Verifies
<1>5. Unspent(n)
  BY DEF Live, Unspent
<1>6. ~(tokens[PoolAddress] < p.withdrawn)
  <2>1. /\ Worth[Live] = Worth[Live \ {n}] + Value[n]
        /\ Worth[Live] \in Nat /\ Worth[Live \ {n}] \in Nat
    BY <1>2, WorthWithout
  <2>2. tokens[PoolAddress] >= Worth[Live] /\ tokens[PoolAddress] \in Nat
    BY DEF Inv, Solvency, TypeOK, Accounts
  <2>. HIDE DEF p
  <2>. QED
    BY <1>1, <1>3, <2>1, <2>2
<1>. HIDE DEF p
<1>7. WithdrawResult(u, p, n) = "Ok"
  BY <1>4, <1>5, <1>6 DEF WithdrawResult
<1>. QED
  BY <1>7 DEF p

\* NotesStayWithdrawable: whatever the other clients do, the owner of an unspent
\* note is one accepted call away from all of its value.
THEOREM OwnersAreNeverLockedOut == Spec => []NotesStayWithdrawable
<1>. QED
  BY ConsistentPoolPays, InvHolds, PTL

-----------------------------------------------------------------------------
(* History is append-only. *)

\* A sequence extends itself, and an appended sequence extends the old one.
LEMMA ExtendsFacts ==
  ASSUME NEW s \in Seq(Notes), NEW n \in Notes
  PROVE  /\ Extends(s, s) /\ Len(s) <= Len(s) + 1
         /\ Extends(Append(s, n), s) /\ Len(Append(s, n)) <= Len(s) + 1
<1>1. Len(s) \in Nat
  BY LenProperties
<1>2. /\ Len(Append(s, n)) = Len(s) + 1
      /\ \A i \in 1 .. Len(s) : Append(s, n)[i] = s[i]
  BY AppendProperties
<1>. QED
  BY <1>1, <1>2 DEF Extends

\* HistoryAppendOnly: no call drops, rewrites or reorders a leaf or a nullifier.
THEOREM HistoryIsAppendOnly == Spec => HistoryAppendOnly
<1>. DEFINE Grows(new, old) == Extends(new, old) /\ Len(new) <= Len(old) + 1
<1>1. ASSUME Inv, Next
      PROVE  Grows(commitments', commitments) /\ Grows(nullifiers', nullifiers)
  <2>1. commitments \in Seq(Notes) /\ nullifiers \in Seq(Notes)
    BY <1>1 DEF Inv, TypeOK
  <2>2. \A s \in Seq(Notes), n \in Notes : Grows(s, s) /\ Grows(Append(s, n), s)
    BY ExtendsFacts
  <2>3. /\ \A s \in Seq(Notes) : Grows(s, s)
        /\ Grows(<<>>, <<>>)
    BY LenProperties DEF Extends
  <2>. HIDE DEF Grows
  <2>5. ASSUME NEW a \in Admins, Initialize(a)
        PROVE  Grows(commitments', commitments) /\ Grows(nullifiers', nullifiers)
    BY <1>1, <2>3, <2>5 DEF Initialize, Inv, NothingBeforeInitialize
  <2>6. ASSUME NEW from \in Users, NEW n \in Notes, NEW previous \in KnownRoots,
               NEW new \in ProposedRoots(n), Deposit(from, n, previous, new, Value[n])
        PROVE  Grows(commitments', commitments) /\ Grows(nullifiers', nullifiers)
    BY <2>1, <2>2, <2>3, <2>6 DEF Deposit, AppendLeaf
  <2>7. ASSUME NEW n \in Notes, NEW nullifier \in Notes, NEW r \in KnownRoots,
               NEW w \in Amounts, NEW to \in Users, NEW b \in Users,
               Withdraw(to, Proof(n, r, w, b), nullifier)
        PROVE  Grows(commitments', commitments) /\ Grows(nullifiers', nullifiers)
    BY <2>1, <2>2, <2>3, <2>7 DEF Withdraw, SpendNote
  <2>8. ASSUME NEW n \in Notes, NEW nullifier \in Notes, NEW output \in Notes,
               NEW b \in Notes, NEW r \in KnownRoots, NEW w \in Amounts,
               NEW new \in ProposedRoots(output),
               Transfer(Proof(n, r, w, b), nullifier, output, new, Value[output])
        PROVE  Grows(commitments', commitments) /\ Grows(nullifiers', nullifiers)
    BY <2>1, <2>2, <2>8 DEF Transfer, SpendNote, AppendLeaf
  <2>. QED
    BY <1>1, <2>5, <2>6, <2>7, <2>8 DEF Next
<1>2. Inv /\ [Next]_vars =>
        [Grows(commitments', commitments) /\ Grows(nullifiers', nullifiers)]_vars
  BY <1>1
<1>. QED
  BY <1>2, InvHolds, PTL DEF Spec, HistoryAppendOnly

-----------------------------------------------------------------------------
(* The contract implements the abstract ledger. *)

LEMMA LedgerInit == Init => Ledger!Init
<1>. SUFFICES ASSUME Init PROVE Ledger!Init
  OBVIOUS
<1>1. Range(<<>>) = {}
  BY DEF Range
<1>2. tokens[PoolAddress] = 0
  BY DEF Init, Accounts
<1>. QED
  BY <1>1, <1>2 DEF Init, Ledger!Init, Live

\* Each call is a step of the ledger; initialize is not seen by it.
LEMMA InitializeUnseen ==
  ASSUME Inv, NEW a \in Admins, Initialize(a)
  PROVE  UNCHANGED Ledger!ledger
<1>. QED
  BY DEF Initialize, Inv, NothingBeforeInitialize, Ledger!ledger, Live

LEMMA DepositSeen ==
  ASSUME Inv, NEW from \in Users, NEW n \in Notes, NEW previous, NEW new,
         Deposit(from, n, previous, new, Value[n])
  PROVE  Ledger!Deposit(n)
<1>1. /\ TypeOK /\ RootIsOfCommitments /\ WindowIsRecentHistory
      /\ Initialized /\ AppendLeaf(n, new) /\ admin' = admin
      /\ nullifiers' = nullifiers /\ MoveTokens(from, PoolAddress, Value[n])
  BY DEF Inv, Deposit
<1>2. Range(commitments') = Range(commitments) \cup {n}
  BY <1>1, AppendLeafStep
<1>3. from \in Accounts /\ PoolAddress \in Accounts /\ from # PoolAddress
  BY PoolAssumption DEF Accounts
<1>4. tokens'[PoolAddress] = tokens[PoolAddress] + Value[n]
  BY <1>1, <1>3, MoveTokensStep, PoolAssumption
<1>5. Live' = (Live \cup {n}) \ Range(nullifiers)
  BY <1>1, <1>2 DEF Live
<1>. QED
  BY <1>1, <1>4, <1>5 DEF Ledger!Deposit, Ledger!Create

LEMMA WithdrawSeen ==
  ASSUME Inv, NEW to \in Users, NEW p, NEW nullifier \in Notes,
         p.withdrawn \in Nat, Withdraw(to, p, nullifier)
  PROVE  \E amount \in 1 .. Value[nullifier] : Ledger!Redeem(nullifier, amount)
<1>1. p.withdrawn \in Nat
  OBVIOUS
<1>2. /\ TypeOK /\ WindowIsRecentHistory /\ NoDoubleSpend /\ Initialized
      /\ p.note = nullifier /\ p.root \in Range(roots) /\ Verifies(p)
      /\ p.withdrawn > 0
      /\ Unspent(nullifier) /\ SpendNote(nullifier)
      /\ MoveTokens(PoolAddress, to, p.withdrawn)
      /\ commitments' = commitments
  BY DEF Inv, Withdraw, WithdrawalProven
<1>3. nullifier \in Live /\ p.withdrawn \in 0 .. Value[nullifier]
  BY <1>2, ProvenSpendIsLive
<1>4. Range(nullifiers') = Range(nullifiers) \cup {nullifier}
  BY <1>2, SpendNoteStep
<1>5. to \in Accounts /\ PoolAddress \in Accounts /\ to # PoolAddress
  BY PoolAssumption DEF Accounts
<1>6. /\ tokens'[PoolAddress] = tokens[PoolAddress] - p.withdrawn
      /\ p.withdrawn <= tokens[PoolAddress]
  BY <1>1, <1>2, <1>5, MoveTokensStep DEF MoveTokens
<1>7. Live' = Live \ {nullifier}
  BY <1>2, <1>4 DEF Live
<1>8. p.withdrawn \in 1 .. Value[nullifier]
  <2>1. Value[nullifier] \in Nat
    BY PoolAssumption
  <2>. QED
    BY <1>1, <1>2, <1>3, <2>1
<1>9. Ledger!Redeem(nullifier, p.withdrawn)
  BY <1>3, <1>4, <1>6, <1>7, <1>8 DEF Ledger!Redeem
<1>. QED
  BY <1>8, <1>9

LEMMA TransferSeen ==
  ASSUME Inv, NEW p, NEW nullifier \in Notes, NEW output \in Notes, NEW new,
         Transfer(p, nullifier, output, new, Value[output])
  PROVE  Ledger!Replace(nullifier, output)
<1>1. /\ TypeOK /\ RootIsOfCommitments /\ WindowIsRecentHistory
      /\ NoDoubleSpend /\ Initialized
      /\ p.note = nullifier /\ p.root \in Range(roots) /\ Verifies(p)
      /\ p.withdrawn = Value[output]
      /\ Unspent(nullifier) /\ SpendNote(nullifier) /\ AppendLeaf(output, new)
      /\ admin' = admin /\ tokens' = tokens
  BY DEF Inv, Transfer
<1>2. nullifier \in Live /\ p.withdrawn \in 0 .. Value[nullifier]
  BY <1>1, ProvenSpendIsLive
<1>3. /\ Range(commitments') = Range(commitments) \cup {output}
      /\ Range(nullifiers') = Range(nullifiers) \cup {nullifier}
  BY <1>1, AppendLeafStep, SpendNoteStep
<1>4. Value[output] <= Value[nullifier]
  <2>1. Value[nullifier] \in Nat
    BY PoolAssumption
  <2>. QED
    BY <1>1, <1>2, <2>1
<1>5. Live' = (Live \cup {output}) \ Range(nullifiers)'
  BY <1>3 DEF Live
<1>. QED
  BY <1>1, <1>2, <1>3, <1>4, <1>5 DEF Ledger!Replace

LEMMA LedgerStep == Inv /\ [Next]_vars => [Ledger!Next]_(Ledger!ledger)
<1>. SUFFICES ASSUME Inv, [Next]_vars PROVE [Ledger!Next]_(Ledger!ledger)
  OBVIOUS
<1>1. ASSUME NEW a \in Admins, Initialize(a) PROVE UNCHANGED Ledger!ledger
  BY <1>1, InitializeUnseen
<1>2. ASSUME NEW from \in Users, NEW n \in Notes, NEW previous \in KnownRoots,
             NEW new \in ProposedRoots(n), Deposit(from, n, previous, new, Value[n])
      PROVE  Ledger!Deposit(n)
  BY <1>2, DepositSeen
<1>3. ASSUME NEW n \in Notes, NEW nullifier \in Notes, NEW r \in KnownRoots,
             NEW w \in Amounts, NEW to \in Users, NEW b \in Users,
             Withdraw(to, Proof(n, r, w, b), nullifier)
      PROVE  \E amount \in 1 .. Value[nullifier] : Ledger!Redeem(nullifier, amount)
  BY <1>3, CallTypes, WithdrawSeen
<1>4. ASSUME NEW n \in Notes, NEW nullifier \in Notes, NEW output \in Notes,
             NEW b \in Notes, NEW r \in KnownRoots, NEW w \in Amounts,
             NEW new \in ProposedRoots(output),
             Transfer(Proof(n, r, w, b), nullifier, output, new, Value[output])
      PROVE  Ledger!Replace(nullifier, output)
  BY <1>4, TransferSeen
<1>5. ASSUME UNCHANGED vars PROVE UNCHANGED Ledger!ledger
  BY <1>5 DEF vars, Ledger!ledger, Live
<1>. QED
  BY <1>1, <1>2, <1>3, <1>4, <1>5 DEF Next, Ledger!Next

\* ImplementsLedger: for its clients the contract, with its trees, its window of
\* roots and its proofs, is the abstract ledger.
THEOREM PoolImplementsLedger == Spec => ImplementsLedger
<1>. QED
  BY LedgerInit, LedgerStep, InvHolds, PTL DEF Spec, ImplementsLedger, Ledger!Spec
=============================================================================
