--------------------------- MODULE MCUsersService ---------------------------
\* The instances of UsersService that TLC checks: clients u1 and u2 with two notes
\* to create, an outsider with two notes.
EXTENDS UsersService, TLC

CONSTANTS n1, n2, f1, f2, u1, u2, other, s1, s2

MCNotes == {n1, n2, f1, f2}
MCForeign == {f1, f2}
MCValue == [n \in MCNotes |-> 1]
MCWorth == [S \in SUBSET MCNotes |-> Cardinality(S)]
MCUsers == {u1, u2, other}
MCClients == {u1, u2}
MCTokens == [u \in MCUsers |-> 2]

\* The clients, their notes and the slots are interchangeable.
Symmetry == Permutations(MCClients) \cup Permutations({n1, n2}) \cup Permutations({s1, s2})

TwoSlots == {s1, s2}
OneSlot == {s1}

\* A pool somebody has deposited into, and one fresh from initialize.
UsedPool == <<f1>>
FreshPool == <<>>
=============================================================================
