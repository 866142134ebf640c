------------------------- MODULE UsersServiceProofs -------------------------
(***************************************************************************)
(* The custodial wallet follows the pool, for any number of clients,       *)
(* notes, handlers, transactions and faults.  A handler acts on what it    *)
(* read long ago, so the invariant says of each what cannot be undone: the *)
(* transaction it waits for is the one for its note, one that took effect  *)
(* stays so, and a note it is about to mark is spent or handed over.       *)
(* Nothing of the pool's own correctness is needed but that its lists only *)
(* grow.  A second invariant, on top of the first, keeps account: as long  *)
(* as nothing fails, every transaction is dead, written down or waited     *)
(* for, which is what the wallets agree with the chain by in the end.      *)
(***************************************************************************)
EXTENDS UsersService, SequenceTheorems, FiniteSetTheorems, TLAPS

States == {"pending", "landed", "dead"}
Jobs == {"deposit", "withdrawSelf", "sendPrivate", "process"}
Places == {"root", "leaves", "send", "wait", "done", "create", "mark"}

Own == Notes \ Foreign   \* the notes of clients

RootValues == Pool!RootValues
Proofs == [note : Own, root : RootValues, withdrawn : {Value[n] : n \in Notes}, binding : Clients]

Deposits == [kind : {"deposit"}, state : States, from : Clients, note : Own,
             previous : RootValues, new : RootValues]
Withdrawals == [kind : {"withdraw"}, state : States, to : Clients, proof : Proofs]
Txs == Deposits \cup Withdrawals
Payments == [to : Clients, proof : Proofs, processed : BOOLEAN]

Handlers == [at : Places, job : Jobs, user : Clients, note : Own, recipient : Clients,
             root : RootValues, todo : Seq(Nat), tx : Nat]

Types ==
  /\ commitments \in Seq(Notes) /\ nullifiers \in Seq(Notes) /\ root \in RootValues
  /\ wallet \in [Clients -> SUBSET Own]
  /\ pending \in Seq(Payments) /\ txs \in Seq(Txs)

\* What a transaction that took effect left in the pool.
Effect(tx) ==
  /\ tx.kind = "deposit" => tx.note \in Range(commitments)
  /\ tx.kind = "withdraw" => tx.proof.note \in Range(nullifiers)

Landings == \A i \in 1 .. Len(txs) : txs[i].state = "landed" => Effect(txs[i])

\* The wallets and the chain.
World ==
  /\ Types /\ Landings
  /\ StoredNotesAreDeposited /\ MarkedMeansGone /\ ProcessedMeansPaid

\* The list a handler works through is of payments to its user.
ListOf(q) ==
  /\ q.todo # <<>>
  /\ \A i \in 1 .. Len(q.todo) :
       q.todo[i] \in 1 .. Len(pending) /\ pending[q.todo[i]].to = q.user

\* The transaction a handler waits for is the one that it sent.
Sends(q, tx) ==
  /\ q.job = "deposit" => tx.kind = "deposit" /\ tx.note = q.note
  /\ q.job # "deposit" => tx.kind = "withdraw" /\ tx.to = q.user
  /\ q.job = "withdrawSelf" => tx.proof.note = q.note
  /\ q.job = "process" => tx.proof = pending[q.todo[1]].proof

Gone(n) == n \in Range(nullifiers) \cup Sent

Busy(q) ==
  /\ q \in Handlers
  /\ q.job = "process" => ListOf(q) /\ q.at \in {"send", "wait", "done"}
  /\ q.at \in {"wait", "done"} => q.tx \in 1 .. Len(txs) /\ Sends(q, txs[q.tx])
  /\ q.at = "done" => txs[q.tx].state = "landed"
  /\ q.at = "mark" => Gone(q.note)

RequestOK(q) == q = Idle \/ Busy(q)

Inv == World /\ DOMAIN request = Slots /\ \A s \in Slots : RequestOK(request[s])

-----------------------------------------------------------------------------
(* What cannot be undone *)

\* The same transaction, later.
Follows(new, old) ==
  /\ new.kind = old.kind
  /\ old.state = "landed" => new.state = "landed"
  /\ old.kind = "deposit" => new.note = old.note
  /\ old.kind = "withdraw" => new.to = old.to /\ new.proof = old.proof

\* The lists of the pool, the transactions and the payments only grow.
Advances ==
  /\ Range(commitments) \subseteq Range(commitments')
  /\ Range(nullifiers) \subseteq Range(nullifiers')
  /\ Len(txs) \in Nat /\ Len(txs') \in Nat /\ Len(txs) <= Len(txs')
  /\ \A i \in 1 .. Len(txs) : Follows(txs'[i], txs[i])
  /\ Len(pending) \in Nat /\ Len(pending') \in Nat /\ Len(pending) <= Len(pending')
  /\ \A i \in 1 .. Len(pending) :
       pending'[i].to = pending[i].to /\ pending'[i].proof = pending[i].proof

LEMMA GoneStays ==
  ASSUME Advances, NEW n, Gone(n)
  PROVE  Gone(n)'
<1>1. CASE n \in Range(nullifiers)
  BY <1>1 DEF Advances, Gone
<1>2. CASE n \in Sent
  <2>1. PICK i \in 1 .. Len(pending) : n = pending[i].proof.note
    BY <1>2 DEF Sent
  <2>2. i \in 1 .. Len(pending') /\ n = pending'[i].proof.note
    BY <2>1 DEF Advances
  <2>. QED
    BY <2>2 DEF Gone, Sent
<1>. QED
  BY <1>1, <1>2 DEF Gone

\* What a handler knows stays true while others move.
LEMMA KnowledgeLasts ==
  ASSUME Advances, NEW q, RequestOK(q)
  PROVE  RequestOK(q)'
<1>1. CASE q = Idle
  BY <1>1 DEF RequestOK
<1>2. CASE Busy(q)
  <2>1. ListOf(q) => ListOf(q)'
    <3>1. \A j \in 1 .. Len(pending) : j \in 1 .. Len(pending') /\ pending'[j].to = pending[j].to
      BY DEF Advances
    <3>. QED
      BY <3>1 DEF ListOf
  <2>2. q.at \in {"wait", "done"} => q.tx \in 1 .. Len(txs')
    BY <1>2 DEF Busy, Advances
  <2>3. ASSUME q.at \in {"wait", "done"} PROVE Sends(q, txs[q.tx])'
    <3>1. q.tx \in 1 .. Len(txs) /\ Sends(q, txs[q.tx]) /\ Follows(txs'[q.tx], txs[q.tx])
      BY <1>2, <2>3 DEF Busy, Advances
    <3>2. q.job = "process" => pending'[q.todo[1]].proof = pending[q.todo[1]].proof
      <4>1. q.job = "process" => q.todo # <<>> /\ q.todo \in Seq(Nat)
        BY <1>2 DEF Busy, ListOf, Handlers
      <4>2. q.job = "process" => 1 \in 1 .. Len(q.todo)
        BY <4>1
      <4>3. q.job = "process" => q.todo[1] \in 1 .. Len(pending)
        BY <1>2, <4>2 DEF Busy, ListOf
      <4>. QED
        BY <4>3 DEF Advances
    <3>. QED
      BY <3>1, <3>2 DEF Sends, Follows
  <2>4. q.at = "done" => txs'[q.tx].state = "landed"
    BY <1>2 DEF Busy, Advances, Follows
  <2>5. q.at = "mark" => Gone(q.note)'
    BY <1>2, GoneStays DEF Busy
  <2>. QED
    BY <1>2, <2>1, <2>2, <2>3, <2>4, <2>5 DEF Busy, RequestOK
<1>. QED
  BY <1>1, <1>2 DEF RequestOK

\* One handler moves.
LEMMA HandlerMoves ==
  ASSUME Inv, Advances, NEW s \in Slots, NEW q, request' = [request EXCEPT ![s] = q],
         RequestOK(q)', World'
  PROVE  Inv'
<1>1. \A t \in Slots : RequestOK(request[t])'
  <2>. SUFFICES ASSUME NEW t \in Slots PROVE RequestOK(request[t])'
    OBVIOUS
  <2>1. CASE t = s
    BY <2>1 DEF Inv
  <2>2. CASE t # s
    <3>1. ASSUME NEW p, p = request[t] PROVE RequestOK(p)'
      BY <3>1, KnowledgeLasts DEF Inv
    <3>2. request'[t] = request[t]
      BY <2>2 DEF Inv
    <3>. QED
      BY <3>1, <3>2
  <2>. QED
    BY <2>1, <2>2
<1>. QED
  BY <1>1 DEF Inv

\* Steps that only look.
LEMMA LookKeeps ==
  ASSUME Inv, NEW s \in Slots, NEW q, request' = [request EXCEPT ![s] = q], RequestOK(q),
         UNCHANGED <<pool, database, txs>>
  PROVE  Inv'
<1>1. UNCHANGED <<commitments, nullifiers, root, wallet, marked, pending, txs>>
  BY DEF pool, database
<1>2. Len(txs) \in Nat /\ Len(pending) \in Nat
  BY DEF Inv, World, Types
<1>3. Advances
  BY <1>1, <1>2 DEF Advances, Follows
<1>4. World'
  BY <1>1 DEF Inv, World, Types, Landings, Effect, StoredNotesAreDeposited, Stored,
     MarkedMeansGone, Sent, ProcessedMeansPaid
<1>. QED
  BY <1>3, <1>4, KnowledgeLasts, HandlerMoves

-----------------------------------------------------------------------------
(* Handlers *)

\* A handler that goes to another place, with what it learned.
Moved(q, at, r, todo, tx) ==
  [at |-> at, job |-> q.job, user |-> q.user, note |-> q.note, recipient |-> q.recipient,
   root |-> r, todo |-> todo, tx |-> tx]

At(q, at) == [q EXCEPT !.at = at]
AtLeaves(q, r) == [q EXCEPT !.at = "leaves", !.root = r]
Waiting(q, tx) == [q EXCEPT !.at = "wait", !.tx = tx]

LEMMA MovedTo ==
  ASSUME NEW q \in Handlers
  PROVE  /\ \A at \in Places : At(q, at) = Moved(q, at, q.root, q.todo, q.tx)
         /\ \A r : AtLeaves(q, r) = Moved(q, "leaves", r, q.todo, q.tx)
         /\ \A tx : Waiting(q, tx) = Moved(q, "wait", q.root, q.todo, tx)
<1>1. ASSUME NEW at PROVE At(q, at) = Moved(q, at, q.root, q.todo, q.tx)
  BY DEF At, Moved, Handlers
<1>2. ASSUME NEW r PROVE AtLeaves(q, r) = Moved(q, "leaves", r, q.todo, q.tx)
  <2>. DEFINE q1 == At(q, "leaves")
  <2>1. AtLeaves(q, r) = [q1 EXCEPT !.root = r]
    BY DEF AtLeaves, At
  <2>2. q1 = Moved(q, "leaves", q.root, q.todo, q.tx)
    BY <1>1
  <2>. HIDE DEF q1
  <2>. QED
    BY <2>1, <2>2 DEF Moved
<1>3. ASSUME NEW tx PROVE Waiting(q, tx) = Moved(q, "wait", q.root, q.todo, tx)
  <2>. DEFINE q1 == At(q, "wait")
  <2>1. Waiting(q, tx) = [q1 EXCEPT !.tx = tx]
    BY DEF Waiting, At
  <2>2. q1 = Moved(q, "wait", q.root, q.todo, q.tx)
    BY <1>1
  <2>. HIDE DEF q1
  <2>. QED
    BY <2>1, <2>2 DEF Moved
<1>. QED
  BY <1>1, <1>2, <1>3, Zenon

LEMMA MovedType ==
  ASSUME NEW q \in Handlers, NEW at \in Places, NEW r \in RootValues, NEW todo \in Seq(Nat),
         NEW tx \in Nat
  PROVE  Moved(q, at, r, todo, tx) \in Handlers
BY DEF Moved, Handlers

\* After a failure a handler ends, or goes on with the rest of its list.
LEMMA NextItemOK ==
  ASSUME NEW q, Busy(q)
  PROVE  RequestOK(NextItem(q))
<1>1. CASE ~ (q.job = "process" /\ Len(q.todo) > 1)
  BY <1>1 DEF NextItem, RequestOK
<1>2. CASE q.job = "process" /\ Len(q.todo) > 1
  <2>1. /\ q \in Handlers /\ q.todo \in Seq(Nat) /\ q.todo # <<>> /\ ListOf(q)
        /\ q.root \in RootValues /\ q.tx \in Nat
    BY <1>2 DEF Busy, ListOf, Handlers
  <2>. DEFINE rest == Tail(q.todo)
  <2>2. /\ rest \in Seq(Nat) /\ Len(rest) = Len(q.todo) - 1 /\ Len(q.todo) \in Nat
        /\ \A i \in 1 .. Len(rest) : rest[i] = q.todo[i + 1]
    BY <2>1, HeadTailProperties
  <2>. DEFINE q1 == At(q, "send")
  <2>. DEFINE t == Moved(q, "send", q.root, rest, q.tx)
  <2>3. NextItem(q) = t
    <3>1. NextItem(q) = [q1 EXCEPT !.todo = rest]
      BY <1>2 DEF NextItem, At
    <3>2. q1 = Moved(q, "send", q.root, q.todo, q.tx)
      BY <2>1, MovedTo DEF Places
    <3>. HIDE DEF q1, rest
    <3>. QED
      BY <3>1, <3>2 DEF Moved
  <2>4. t \in Handlers
    BY <2>1, <2>2, MovedType DEF Places
  <2>. HIDE DEF rest
  <2>5. t.at = "send" /\ t.job = "process" /\ t.user = q.user /\ t.todo = rest
    BY <1>2 DEF Moved
  <2>6. ListOf(t)
    <3>1. rest # <<>>
      BY <1>2, <2>2
    <3>2. ASSUME NEW i \in 1 .. Len(rest)
          PROVE  rest[i] \in 1 .. Len(pending) /\ pending[rest[i]].to = q.user
      <4>1. i + 1 \in 1 .. Len(q.todo)
        BY <2>2
      <4>. QED
        BY <2>1, <2>2, <4>1 DEF ListOf
    <3>. QED
      BY <2>5, <3>1, <3>2 DEF ListOf
  <2>. HIDE DEF t
  <2>7. Busy(t)
    BY <2>4, <2>5, <2>6 DEF Busy
  <2>. QED
    BY <2>3, <2>7 DEF RequestOK
<1>. QED
  BY <1>1, <1>2

-----------------------------------------------------------------------------
(* The steps *)

\* A handler that has drawn or picked a note.
LEMMA HandlerOK ==
  ASSUME Inv, NEW job \in Jobs \ {"process"}, NEW u \in Clients, NEW n \in Own,
         NEW recipient \in Clients
  PROVE  RequestOK(Handler(job, u, n, recipient))
<1>. DEFINE q == Handler(job, u, n, recipient)
<1>1. Pool!ZeroRoot \in RootValues
  BY DEF RootValues, Pool!RootValues, Pool!ZeroRoot
<1>2. q \in Handlers
  BY <1>1 DEF Handler, Handlers, Places
<1>3. q.at = "root" /\ q.job # "process"
  BY DEF Handler
<1>. HIDE DEF q
<1>4. Busy(q)
  BY <1>2, <1>3 DEF Busy
<1>. QED
  BY <1>4 DEF RequestOK, q

\* processPendingWithdrawals loads what is unprocessed.
LEMMA ProcessBeginKeeps ==
  ASSUME Inv, NEW s \in Slots, NEW u \in Clients, ProcessBegin(s, u)
  PROVE  Inv'
<1>1. PICK todo \in [1 .. Cardinality(Unprocessed(u)) -> Unprocessed(u)] :
        /\ todo # <<>>
        /\ request' = [request EXCEPT ![s] =
             [Handler("process", u, pending[Head(todo)].proof.note, u)
                EXCEPT !.at = "send", !.todo = todo]]
  BY DEF ProcessBegin, Begin
<1>2. pending \in Seq(Payments) /\ Len(pending) \in Nat
  BY DEF Inv, World, Types
<1>3. Cardinality(Unprocessed(u)) \in Nat
  <2>1. Unprocessed(u) \subseteq 1 .. Len(pending)
    BY DEF Unprocessed
  <2>2. 1 \in Int /\ Len(pending) \in Int
    BY <1>2
  <2>3. IsFiniteSet(1 .. Len(pending))
    BY <2>2, FS_Interval
  <2>4. IsFiniteSet(Unprocessed(u))
    BY <2>1, <2>3, FS_Subset
  <2>. QED
    BY <2>4, FS_CardinalityType
<1>4. /\ todo \in Seq(Nat)
      /\ \A i \in 1 .. Len(todo) :
           todo[i] \in 1 .. Len(pending) /\ pending[todo[i]].to = u
  <2>1. PICK k \in Nat : k = Cardinality(Unprocessed(u))
    BY <1>3
  <2>2. \A i \in Unprocessed(u) : i \in Nat /\ i \in 1 .. Len(pending) /\ pending[i].to = u
    BY DEF Unprocessed
  <2>3. todo \in [1 .. k -> Unprocessed(u)]
    BY <2>1
  <2>4. todo \in Seq(Nat) /\ \A i \in 1 .. Len(todo) : todo[i] \in Unprocessed(u)
    <3>1. ASSUME NEW S, S \subseteq Nat, NEW f \in [1 .. k -> S]
          PROVE  f \in Seq(Nat) /\ \A i \in 1 .. Len(f) : f[i] \in S
      <4>1. f \in Seq(S) /\ Len(f) = k
        OBVIOUS
      <4>. QED
        BY <3>1, <4>1, SeqMonotonic
    <3>2. Unprocessed(u) \subseteq Nat
      BY <2>2
    <3>. QED
      BY <2>3, <3>1, <3>2
  <2>. QED
    BY <2>2, <2>4
<1>. DEFINE n == pending[Head(todo)].proof.note
<1>5. n \in Own
  <2>1. 1 \in 1 .. Len(todo) /\ Head(todo) = todo[1]
    BY <1>1, <1>4
  <2>2. pending[Head(todo)] \in Payments
    BY <1>2, <1>4, <2>1
  <2>. QED
    BY <2>2 DEF Payments, Proofs
<1>. DEFINE q == Handler("process", u, n, u)
<1>. DEFINE q1 == At(q, "send")
<1>. DEFINE t == Moved(q, "send", q.root, todo, q.tx)
<1>6. Pool!ZeroRoot \in RootValues
  BY DEF RootValues, Pool!RootValues, Pool!ZeroRoot
<1>7. q \in Handlers /\ q.job = "process" /\ q.user = u
  <2>. HIDE DEF n
  <2>. QED
    BY <1>5, <1>6 DEF Handler, Handlers, Places, Jobs
<1>8. request' = [request EXCEPT ![s] = t]
  <2>1. request' = [request EXCEPT ![s] = [q1 EXCEPT !.todo = todo]]
    BY <1>1 DEF At
  <2>2. q1 = Moved(q, "send", q.root, q.todo, q.tx)
    BY <1>7, MovedTo DEF Places
  <2>3. [q1 EXCEPT !.todo = todo] = t
    <3>. HIDE DEF q1, q
    <3>. QED
      BY <2>2 DEF Moved
  <2>. QED
    BY <2>1, <2>3
<1>. HIDE DEF q
<1>9. t \in Handlers
  <2>1. q.root \in RootValues /\ q.tx \in Nat
    BY <1>7 DEF Handlers
  <2>. QED
    BY <1>4, <1>7, <2>1, MovedType DEF Places
<1>10. t.at = "send" /\ t.todo = todo /\ t.user = u
  BY <1>7 DEF Moved
<1>. HIDE DEF t
<1>11. ListOf(t)
  BY <1>1, <1>4, <1>10 DEF ListOf
<1>12. RequestOK(t)
  BY <1>9, <1>10, <1>11 DEF RequestOK, Busy
<1>13. UNCHANGED <<pool, database, txs>>
  BY DEF ProcessBegin
<1>. QED
  BY <1>8, <1>12, <1>13, LookKeeps

LEMMA ArriveKeeps ==
  ASSUME Inv, NEW s \in Slots, NEW u \in Clients, Arrive(s, u)
  PROVE  Inv'
<1>1. ASSUME NEW n \in Notes \ Foreign, DepositBegin(s, u, n) PROVE Inv'
  <2>1. RequestOK(Handler("deposit", u, n, u))
    BY HandlerOK DEF Jobs, Own
  <2>. QED
    BY <1>1, <2>1, LookKeeps DEF DepositBegin, Begin
<1>2. ASSUME NEW n \in Notes \ Foreign, NEW job \in {"withdrawSelf", "sendPrivate"},
             NEW recipient \in Clients, PickNote(s, job, u, n, recipient)
      PROVE Inv'
  <2>1. RequestOK(Handler(job, u, n, recipient))
    BY HandlerOK DEF Jobs, Own
  <2>. QED
    BY <1>2, <2>1, LookKeeps DEF PickNote, Begin
<1>. QED
  BY <1>1, <1>2, ProcessBeginKeeps DEF Arrive

\* Going elsewhere changes nothing else of a handler.
LEMMA AtFacts ==
  ASSUME NEW q \in Handlers, NEW at \in Places
  PROVE  LET t == At(q, at) IN
         /\ t \in Handlers /\ t.at = at /\ t.job = q.job /\ t.user = q.user /\ t.note = q.note
         /\ t.todo = q.todo /\ t.tx = q.tx
<1>1. At(q, at) = Moved(q, at, q.root, q.todo, q.tx)
  BY MovedTo
<1>2. q.root \in RootValues /\ q.todo \in Seq(Nat) /\ q.tx \in Nat
  BY DEF Handlers
<1>3. At(q, at) \in Handlers
  BY <1>1, <1>2, MovedType
<1>. QED
  BY <1>1, <1>3 DEF Moved

LEMMA BusyAt ==
  ASSUME Inv, NEW s \in Slots, NEW q, q = request[s], q.at \in Places
  PROVE  Busy(q)
BY DEF Inv, RequestOK, Idle, Places

\* Steps that only look.
LEMMA LookingKeeps ==
  ASSUME Inv, NEW s \in Slots,
         ReadRoot(s) \/ ReadLeaves(s) \/ Outcome(s) \/ GiveUp(s) \/ Crash(s)
  PROVE  Inv'
<1>. SUFFICES ASSUME NEW q, q = request[s] PROVE Inv'
  OBVIOUS
<1>0. UNCHANGED <<pool, database, txs>>
  BY DEF ReadRoot, ReadLeaves, Outcome, GiveUp, Crash
<1>1. RequestOK(Idle)
  BY DEF RequestOK
<1>2. CASE ReadRoot(s)
  <2>1. q.at = "root" /\ Busy(q) /\ q \in Handlers /\ q.job # "process"
    BY <1>2, BusyAt DEF ReadRoot, Places, Busy
  <2>. DEFINE t == Moved(q, "leaves", root, q.todo, q.tx)
  <2>2. request' = [request EXCEPT ![s] = t]
    <3>1. request' = [request EXCEPT ![s] = AtLeaves(q, root)]
      BY <1>2 DEF ReadRoot, Continue, AtLeaves
    <3>2. AtLeaves(q, root) = t
      BY <2>1, MovedTo
    <3>. QED
      BY <3>1, <3>2
  <2>3. t \in Handlers
    <3>1. root \in RootValues /\ q.todo \in Seq(Nat) /\ q.tx \in Nat
      BY <2>1 DEF Inv, World, Types, Handlers
    <3>. QED
      BY <2>1, <3>1, MovedType DEF Places
  <2>4. t.at = "leaves" /\ t.job = q.job
    BY DEF Moved
  <2>. HIDE DEF t
  <2>5. RequestOK(t)
    BY <2>1, <2>3, <2>4 DEF Busy, RequestOK
  <2>. QED
    BY <1>0, <2>2, <2>5, LookKeeps
<1>3. CASE ReadLeaves(s)
  <2>1. q.at = "leaves" /\ Busy(q) /\ q \in Handlers /\ q.job # "process"
    BY <1>3, BusyAt DEF ReadLeaves, Places, Busy
  <2>2. \/ request' = [request EXCEPT ![s] = Idle]
        \/ \E at \in {"create", "send", "root"} : request' = [request EXCEPT ![s] = At(q, at)]
    BY <1>3 DEF ReadLeaves, Goto, Continue, At
  <2>3. ASSUME NEW at \in {"create", "send", "root"} PROVE RequestOK(At(q, at))
    <3>. DEFINE t == At(q, at)
    <3>1. t \in Handlers /\ t.at = at /\ t.job = q.job
      BY <2>1, AtFacts DEF Places
    <3>. HIDE DEF t
    <3>2. RequestOK(t)
      BY <2>1, <3>1 DEF Busy, RequestOK
    <3>. QED
      BY <3>2 DEF t
  <2>. QED
    BY <1>0, <1>1, <2>2, <2>3, LookKeeps
<1>4. CASE Outcome(s)
  <2>1. q.at = "wait" /\ Busy(q) /\ q \in Handlers
    BY <1>4, BusyAt DEF Outcome, Places, Busy
  <2>2. \/ request' = [request EXCEPT ![s] = NextItem(q)]
        \/ txs[q.tx].state = "landed" /\ request' = [request EXCEPT ![s] = At(q, "done")]
    BY <1>4 DEF Outcome, Goto, Continue, At
  <2>3. ASSUME txs[q.tx].state = "landed" PROVE RequestOK(At(q, "done"))
    <3>. DEFINE t == At(q, "done")
    <3>1. /\ t \in Handlers /\ t.at = "done" /\ t.job = q.job /\ t.user = q.user
          /\ t.note = q.note /\ t.todo = q.todo /\ t.tx = q.tx
      BY <2>1, AtFacts DEF Places
    <3>. HIDE DEF t
    <3>2. ListOf(q) => ListOf(t)
      BY <3>1 DEF ListOf
    <3>3. \A tx : Sends(q, tx) => Sends(t, tx)
      BY <3>1 DEF Sends
    <3>4. Busy(t)
      BY <2>1, <2>3, <3>1, <3>2, <3>3 DEF Busy
    <3>. QED
      BY <3>4 DEF RequestOK, t
  <2>. QED
    BY <1>0, <2>1, <2>2, <2>3, NextItemOK, LookKeeps
<1>5. CASE GiveUp(s)
  <2>1. Busy(q)
    BY <1>5, BusyAt DEF GiveUp, Places
  <2>2. request' = [request EXCEPT ![s] = NextItem(q)]
    BY <1>5 DEF GiveUp
  <2>. QED
    BY <1>0, <2>1, <2>2, NextItemOK, LookKeeps
<1>6. CASE Crash(s)
  BY <1>0, <1>1, <1>6, LookKeeps DEF Crash
<1>. QED
  BY <1>2, <1>3, <1>4, <1>5, <1>6

\* What changes nothing in the wallets leaves the world as true as it was.
LEMMA WorldStands ==
  ASSUME World, Advances, Types', Landings', UNCHANGED database
  PROVE  World'
<1>1. UNCHANGED <<wallet, marked, pending>>
  BY DEF database
<1>2. StoredNotesAreDeposited'
  BY <1>1 DEF World, StoredNotesAreDeposited, Stored, Advances
<1>3. MarkedMeansGone'
  BY <1>1 DEF World, MarkedMeansGone, Sent, Advances
<1>4. ProcessedMeansPaid'
  <2>. SUFFICES ASSUME NEW i \in 1 .. Len(pending), pending[i].processed
                PROVE  \E k \in 1 .. Len(txs') :
                         /\ txs'[k].kind = "withdraw" /\ txs'[k].state = "landed"
                         /\ txs'[k].to = pending[i].to /\ txs'[k].proof = pending[i].proof
    BY <1>1 DEF ProcessedMeansPaid
  <2>1. PICK k \in 1 .. Len(txs) :
          /\ txs[k].kind = "withdraw" /\ txs[k].state = "landed"
          /\ txs[k].to = pending[i].to /\ txs[k].proof = pending[i].proof
    BY DEF World, ProcessedMeansPaid
  <2>2. k \in 1 .. Len(txs') /\ Follows(txs'[k], txs[k])
    BY DEF Advances
  <2>. QED
    BY <2>1, <2>2 DEF Follows
<1>. QED
  BY <1>2, <1>3, <1>4 DEF World

\* The transaction of a handler is one for its note, or for the payment it is at.
LEMMA TxOfOK ==
  ASSUME Inv, NEW q, Busy(q)
  PROVE  /\ TxOf(q) \in Txs /\ TxOf(q).state = "pending" /\ Sends(q, TxOf(q))
         /\ q.job = "withdrawSelf" => TxOf(q).proof.note = q.note
<1>1. /\ q \in Handlers /\ q.user \in Clients /\ q.note \in Own /\ q.note \in Notes /\ q.root \in RootValues
      /\ q.recipient \in Clients /\ q.todo \in Seq(Nat)
  BY DEF Busy, Handlers, Own
<1>2. CASE q.job = "deposit"
  <2>1. Pool!MerkleRoot(Append(q.root.leaves, q.note)) \in RootValues
    <3>1. q.root.leaves \in Seq(Notes)
      BY <1>1 DEF RootValues, Pool!RootValues
    <3>2. Append(q.root.leaves, q.note) \in Seq(Notes)
      BY <1>1, <3>1
    <3>. QED
      BY <3>2 DEF RootValues, Pool!RootValues, Pool!MerkleRoot
  <2>2. TxOf(q) = [kind |-> "deposit", state |-> "pending", from |-> q.user, note |-> q.note,
                   previous |-> q.root,
                   new |-> Pool!MerkleRoot(Append(q.root.leaves, q.note))]
    BY <1>2 DEF TxOf
  <2>. QED
    BY <1>1, <1>2, <2>1, <2>2 DEF Txs, Deposits, States, Sends
<1>3. CASE q.job # "deposit"
  <2>. DEFINE p == IF q.job = "process" THEN pending[Head(q.todo)].proof ELSE ProofOf(q)
  <2>1. TxOf(q) = [kind |-> "withdraw", state |-> "pending", to |-> q.user, proof |-> p]
    BY <1>3 DEF TxOf
  <2>2. CASE q.job = "process"
    <3>1. q.todo # <<>> /\ ListOf(q)
      BY <2>2 DEF Busy, ListOf
    <3>2. Head(q.todo) = q.todo[1] /\ 1 \in 1 .. Len(q.todo)
      BY <1>1, <3>1
    <3>3. q.todo[1] \in 1 .. Len(pending)
      BY <3>1, <3>2 DEF ListOf
    <3>4. pending[q.todo[1]] \in Payments
      BY <3>3 DEF Inv, World, Types
    <3>5. p = pending[q.todo[1]].proof /\ p \in Proofs
      BY <2>2, <3>2, <3>4 DEF Payments
    <3>. HIDE DEF p
    <3>. QED
      BY <1>1, <2>1, <2>2, <3>5 DEF Txs, Withdrawals, States, Sends
  <2>3. CASE q.job # "process"
    <3>1. p = Pool!Proof(q.note, q.root, Value[q.note], q.recipient)
      BY <2>3 DEF ProofOf
    <3>2. p.note = q.note /\ p \in Proofs
      <4>1. p.note = q.note
        BY <3>1 DEF Pool!Proof
      <4>2. p \in Proofs
        BY <1>1, <3>1 DEF Pool!Proof, Proofs
      <4>. QED
        BY <4>1, <4>2
    <3>. HIDE DEF p
    <3>. QED
      BY <1>1, <1>3, <2>1, <2>3, <3>2 DEF Txs, Withdrawals, States, Sends
  <2>. QED
    BY <2>2, <2>3
<1>. QED
  BY <1>2, <1>3

\* A transaction is sent, or the note turns out to be spent already, or it is refused.
LEMMA SendKeeps ==
  ASSUME Inv, NEW s \in Slots, Send(s)
  PROVE  Inv'
<1>. SUFFICES ASSUME NEW q, q = request[s], NEW tx, tx = TxOf(q), NEW n, n = Len(txs)
     PROVE Inv'
  OBVIOUS
<1>1. q.at = "send" /\ Busy(q) /\ q \in Handlers
  BY BusyAt DEF Send, Places, Busy
<1>2. UNCHANGED <<pool, database>>
  BY DEF Send
<1>3. /\ tx \in Txs /\ tx.state = "pending" /\ Sends(q, tx)
      /\ q.job = "withdrawSelf" => tx.proof.note = q.note
  BY <1>1, TxOfOK
<1>4. \/ txs' = Append(txs, tx) /\ request' = [request EXCEPT ![s] = Waiting(q, n + 1)]
      \/ /\ Simulation(tx) = "NullifierUsed" /\ q.job = "withdrawSelf"
         /\ request' = [request EXCEPT ![s] = At(q, "mark")] /\ UNCHANGED txs
      \/ request' = [request EXCEPT ![s] = NextItem(q)] /\ UNCHANGED txs
  BY DEF Send, Goto, Continue, Waiting, At
<1>5. CASE txs' = Append(txs, tx) /\ request' = [request EXCEPT ![s] = Waiting(q, n + 1)]
  <2>1. /\ txs \in Seq(Txs) /\ n \in Nat /\ txs' \in Seq(Txs) /\ Len(txs') = n + 1
        /\ \A i \in 1 .. n : txs'[i] = txs[i]
        /\ txs'[n + 1] = tx
    BY <1>3, <1>5 DEF Inv, World, Types
  <2>2. UNCHANGED <<commitments, nullifiers, root, wallet, pending>>
    BY <1>2 DEF pool, database
  <2>3. Advances
    <3>1. \A i \in 1 .. Len(txs) : Follows(txs'[i], txs[i])
      BY <2>1 DEF Follows
    <3>2. Len(pending) \in Nat
      BY DEF Inv, World, Types
    <3>. QED
      BY <2>1, <2>2, <3>1, <3>2 DEF Advances
  <2>4. Types'
    BY <2>1, <2>2 DEF Inv, World, Types
  <2>5. Landings'
    <3>1. ASSUME NEW i \in 1 .. Len(txs'), txs'[i].state = "landed" PROVE Effect(txs[i])'
      <4>1. i # n + 1
        BY <1>3, <2>1, <3>1
      <4>2. i \in 1 .. n /\ txs'[i] = txs[i]
        BY <2>1, <4>1
      <4>. QED
        BY <2>2, <3>1, <4>2 DEF Inv, World, Landings, Effect
    <3>. QED
      BY <3>1 DEF Landings
  <2>6. World'
    BY <1>2, <2>3, <2>4, <2>5, WorldStands DEF Inv
  <2>. DEFINE t == Moved(q, "wait", q.root, q.todo, n + 1)
  <2>7. request' = [request EXCEPT ![s] = t]
    BY <1>1, <1>5, MovedTo
  <2>8. t \in Handlers
    <3>1. q.root \in RootValues /\ q.todo \in Seq(Nat) /\ n + 1 \in Nat
      BY <1>1, <2>1 DEF Handlers
    <3>. QED
      BY <1>1, <3>1, MovedType DEF Places
  <2>9. /\ t.at = "wait" /\ t.job = q.job /\ t.user = q.user /\ t.note = q.note
        /\ t.todo = q.todo /\ t.tx = n + 1
    BY DEF Moved
  <2>. HIDE DEF t
  <2>10. ListOf(q) => ListOf(t)'
    BY <2>2, <2>9 DEF ListOf
  <2>11. Sends(t, txs[t.tx])'
    BY <1>3, <2>1, <2>2, <2>9 DEF Sends
  <2>12. n + 1 \in 1 .. Len(txs')
    BY <2>1
  <2>13. Busy(t)'
    BY <1>1, <2>8, <2>9, <2>10, <2>11, <2>12 DEF Busy
  <2>. QED
    BY <2>3, <2>6, <2>7, <2>13, HandlerMoves DEF RequestOK
<1>6. CASE /\ Simulation(tx) = "NullifierUsed" /\ q.job = "withdrawSelf"
           /\ request' = [request EXCEPT ![s] = At(q, "mark")] /\ UNCHANGED txs
  <2>1. tx.kind = "withdraw"
    BY <1>3, <1>6 DEF Sends
  <2>2. tx.proof.note \in Range(nullifiers)
    <3>1. tx.proof.note \in Pool!Range(nullifiers)
      BY <1>6, <2>1 DEF Simulation, Pool!WithdrawResult, Pool!Unspent
    <3>. QED
      BY <3>1 DEF Range, Pool!Range
  <2>3. Gone(q.note)
    BY <1>3, <1>6, <2>2 DEF Gone
  <2>. DEFINE t == At(q, "mark")
  <2>4. t \in Handlers /\ t.at = "mark" /\ t.job = q.job /\ t.note = q.note
    BY <1>1, AtFacts DEF Places
  <2>5. request' = [request EXCEPT ![s] = t]
    BY <1>6
  <2>. HIDE DEF t
  <2>6. Busy(t)
    BY <1>6, <2>3, <2>4 DEF Busy
  <2>7. RequestOK(t)
    BY <2>6 DEF RequestOK
  <2>. QED
    BY <1>2, <1>6, <2>5, <2>7, LookKeeps
<1>7. CASE request' = [request EXCEPT ![s] = NextItem(q)] /\ UNCHANGED txs
  BY <1>1, <1>2, <1>7, NextItemOK, LookKeeps
<1>. QED
  BY <1>4, <1>5, <1>6, <1>7

\* A deposit is stored once its transaction took effect: its note is a leaf.
LEMMA StoreNoteKeeps ==
  ASSUME Inv, NEW s \in Slots, StoreNote(s)
  PROVE  Inv'
<1>. SUFFICES ASSUME NEW q, q = request[s] PROVE Inv'
  OBVIOUS
<1>1. q.at = "done" /\ q.job = "deposit" /\ Busy(q) /\ q.note \in Own /\ q.user \in Clients
  BY BusyAt DEF StoreNote, Places, Busy, Handlers
<1>2. q.note \in Range(commitments)
  <2>1. /\ q.tx \in 1 .. Len(txs) /\ txs[q.tx].state = "landed"
        /\ txs[q.tx].kind = "deposit" /\ txs[q.tx].note = q.note
    BY <1>1 DEF Busy, Sends
  <2>. QED
    BY <2>1 DEF Inv, World, Landings, Effect
<1>3. wallet' = [wallet EXCEPT ![q.user] = @ \cup {q.note}]
  BY DEF StoreNote
<1>4. UNCHANGED <<commitments, nullifiers, root, marked, pending, txs>>
  BY DEF StoreNote, pool
<1>5. Len(txs) \in Nat /\ Len(pending) \in Nat /\ wallet \in [Clients -> SUBSET Own]
  BY DEF Inv, World, Types
<1>6. Advances
  BY <1>4, <1>5 DEF Advances, Follows
<1>7. Types' /\ Landings'
  BY <1>1, <1>3, <1>4, <1>5 DEF Inv, World, Types, Landings, Effect
<1>8. StoredNotesAreDeposited'
  <2>1. \A u \in Clients : wallet[u] \subseteq Range(commitments)
    BY DEF Inv, World, StoredNotesAreDeposited, Stored
  <2>2. \A u \in Clients : wallet'[u] \subseteq Range(commitments)
    BY <1>2, <1>3, <1>5, <2>1
  <2>. QED
    BY <1>4, <2>2 DEF StoredNotesAreDeposited, Stored
<1>9. World'
  BY <1>4, <1>7, <1>8 DEF Inv, World, MarkedMeansGone, Sent, ProcessedMeansPaid
<1>10. request' = [request EXCEPT ![s] = Idle] /\ RequestOK(Idle)'
  BY DEF StoreNote, Continue, RequestOK
<1>. QED
  BY <1>6, <1>9, <1>10, HandlerMoves

\* A proof is handed over: from then on the note is gone, if it is marked.
LEMMA CreatePendingKeeps ==
  ASSUME Inv, NEW s \in Slots, CreatePending(s)
  PROVE  Inv'
<1>. SUFFICES ASSUME NEW q, q = request[s], NEW n, n = Len(pending),
                     NEW p, p = [to |-> q.recipient, proof |-> ProofOf(q), processed |-> FALSE]
     PROVE Inv'
  OBVIOUS
<1>1. q.at = "create" /\ Busy(q) /\ q \in Handlers /\ q.job # "process"
  BY BusyAt DEF CreatePending, Places, Busy
<1>2. p \in Payments /\ p.proof.note = q.note /\ p.processed = FALSE
  <2>1. /\ q.note \in Own /\ q.note \in Notes /\ q.root \in RootValues /\ q.recipient \in Clients
    BY <1>1 DEF Handlers, Own
  <2>2. ProofOf(q) \in Proofs /\ ProofOf(q).note = q.note
    BY <2>1 DEF ProofOf, Pool!Proof, Proofs
  <2>. QED
    BY <2>1, <2>2 DEF Payments
<1>3. /\ pending \in Seq(Payments) /\ n \in Nat /\ pending' = Append(pending, p)
      /\ pending' \in Seq(Payments) /\ Len(pending') = n + 1
      /\ \A i \in 1 .. n : pending'[i] = pending[i]
      /\ pending'[n + 1] = p
  BY <1>2 DEF Inv, World, Types, CreatePending
<1>4. UNCHANGED <<commitments, nullifiers, root, wallet, marked, txs>>
  BY DEF CreatePending, pool
<1>5. Advances
  <2>1. Len(txs) \in Nat
    BY DEF Inv, World, Types
  <2>. QED
    BY <1>3, <1>4, <2>1 DEF Advances, Follows
<1>6. Types' /\ Landings' /\ StoredNotesAreDeposited'
  BY <1>3, <1>4 DEF Inv, World, Types, Landings, Effect, StoredNotesAreDeposited, Stored
<1>7. Gone(q.note)'
  <2>1. n + 1 \in 1 .. Len(pending') /\ pending'[n + 1].proof.note = q.note
    BY <1>2, <1>3
  <2>. QED
    BY <2>1 DEF Gone, Sent
<1>8. MarkedMeansGone'
  <2>1. ASSUME NEW x \in marked PROVE Gone(x)'
    <3>1. Gone(x)
      BY <2>1 DEF Inv, World, MarkedMeansGone, Gone
    <3>. QED
      BY <1>5, <3>1, GoneStays
  <2>. QED
    BY <1>4, <2>1 DEF MarkedMeansGone, Gone
<1>9. ProcessedMeansPaid'
  <2>1. ASSUME NEW i \in 1 .. Len(pending'), pending'[i].processed
        PROVE  i \in 1 .. n /\ pending'[i] = pending[i]
    <3>1. i # n + 1
      BY <1>2, <1>3, <2>1
    <3>. QED
      BY <1>3, <3>1
  <2>. QED
    BY <1>3, <1>4, <2>1 DEF Inv, World, ProcessedMeansPaid
<1>10. World'
  BY <1>6, <1>8, <1>9 DEF World
<1>. DEFINE t == At(q, "mark")
<1>11. t \in Handlers /\ t.at = "mark" /\ t.job = q.job /\ t.note = q.note
  BY <1>1, AtFacts DEF Places
<1>12. request' = [request EXCEPT ![s] = t]
  BY DEF CreatePending, Goto, Continue, At
<1>. HIDE DEF t
<1>13. RequestOK(t)'
  BY <1>1, <1>7, <1>11 DEF RequestOK, Busy
<1>. QED
  BY <1>5, <1>10, <1>12, <1>13, HandlerMoves

\* A note is marked: its proof was handed over, or the pool has spent it.
LEMMA MarkNoteSpentKeeps ==
  ASSUME Inv, NEW s \in Slots, MarkNoteSpent(s)
  PROVE  Inv'
<1>. SUFFICES ASSUME NEW q, q = request[s] PROVE Inv'
  OBVIOUS
<1>1. Busy(q) /\ (q.at = "mark" \/ (q.at = "done" /\ q.job = "withdrawSelf"))
  BY BusyAt DEF MarkNoteSpent, Places
<1>2. Gone(q.note)
  <2>1. CASE q.at = "mark"
    BY <1>1, <2>1 DEF Busy
  <2>2. CASE q.at = "done" /\ q.job = "withdrawSelf"
    <3>1. /\ q.tx \in 1 .. Len(txs) /\ txs[q.tx].state = "landed"
          /\ txs[q.tx].kind = "withdraw" /\ txs[q.tx].proof.note = q.note
      BY <1>1, <2>2 DEF Busy, Sends
    <3>. QED
      BY <3>1 DEF Inv, World, Landings, Effect, Gone
  <2>. QED
    BY <1>1, <2>1, <2>2
<1>3. UNCHANGED <<commitments, nullifiers, root, wallet, pending, txs>>
      /\ marked' = marked \cup {q.note}
  BY DEF MarkNoteSpent, pool
<1>4. Advances
  <2>1. Len(txs) \in Nat /\ Len(pending) \in Nat
    BY DEF Inv, World, Types
  <2>. QED
    BY <1>3, <2>1 DEF Advances, Follows
<1>5. MarkedMeansGone'
  BY <1>2, <1>3 DEF Inv, World, MarkedMeansGone, Gone, Sent
<1>6. World'
  BY <1>3, <1>5 DEF Inv, World, Types, Landings, Effect, StoredNotesAreDeposited, Stored,
     ProcessedMeansPaid
<1>7. request' = [request EXCEPT ![s] = Idle] /\ RequestOK(Idle)'
  BY DEF MarkNoteSpent, Continue, RequestOK
<1>. QED
  BY <1>4, <1>6, <1>7, HandlerMoves

\* A payment reads processed once the transaction with its proof took effect.
LEMMA MarkProcessedKeeps ==
  ASSUME Inv, NEW s \in Slots, MarkProcessed(s)
  PROVE  Inv'
<1>. SUFFICES ASSUME NEW q, q = request[s], NEW h, h = q.todo[1] PROVE Inv'
  OBVIOUS
<1>1. q.at = "done" /\ q.job = "process" /\ Busy(q) /\ ListOf(q) /\ q.todo \in Seq(Nat)
  BY BusyAt DEF MarkProcessed, Places, Busy, Handlers
<1>2. Head(q.todo) = h /\ h \in 1 .. Len(pending) /\ pending[h].to = q.user
  <2>1. q.todo # <<>>
    BY <1>1 DEF ListOf
  <2>2. Head(q.todo) = h /\ 1 \in 1 .. Len(q.todo)
    BY <1>1, <2>1
  <2>. QED
    BY <1>1, <2>2 DEF ListOf
<1>3. /\ q.tx \in 1 .. Len(txs) /\ txs[q.tx].state = "landed" /\ txs[q.tx].kind = "withdraw"
      /\ txs[q.tx].to = q.user /\ txs[q.tx].proof = pending[h].proof
  BY <1>1 DEF Busy, Sends
<1>4. pending \in Seq(Payments) /\ Len(pending) \in Nat /\ pending[h] \in Payments
  BY <1>2 DEF Inv, World, Types
<1>. DEFINE p == [pending[h] EXCEPT !.processed = TRUE]
<1>5. p \in Payments /\ p.to = pending[h].to /\ p.proof = pending[h].proof
  BY <1>4 DEF Payments
<1>6. pending' = [pending EXCEPT ![h] = p]
  BY <1>2 DEF MarkProcessed
<1>. HIDE DEF p
<1>7. /\ pending' \in Seq(Payments) /\ Len(pending') = Len(pending)
      /\ \A i \in 1 .. Len(pending) : pending'[i] = IF i = h THEN p ELSE pending[i]
  BY <1>2, <1>4, <1>5, <1>6, ExceptSeq
<1>8. UNCHANGED <<commitments, nullifiers, root, wallet, marked, txs>>
  BY DEF MarkProcessed, pool
<1>9. Advances
  <2>1. Len(txs) \in Nat
    BY DEF Inv, World, Types
  <2>2. \A i \in 1 .. Len(pending) :
          pending'[i].to = pending[i].to /\ pending'[i].proof = pending[i].proof
    BY <1>5, <1>7
  <2>. QED
    BY <1>4, <1>7, <1>8, <2>1, <2>2 DEF Advances, Follows
<1>10. Types' /\ Landings' /\ StoredNotesAreDeposited'
  BY <1>7, <1>8 DEF Inv, World, Types, Landings, Effect, StoredNotesAreDeposited, Stored
<1>11. MarkedMeansGone'
  <2>1. ASSUME NEW x \in marked PROVE Gone(x)'
    <3>1. Gone(x)
      BY <2>1 DEF Inv, World, MarkedMeansGone, Gone
    <3>. QED
      BY <1>9, <3>1, GoneStays
  <2>. QED
    BY <1>8, <2>1 DEF MarkedMeansGone, Gone
<1>12. ProcessedMeansPaid'
  <2>. SUFFICES ASSUME NEW i \in 1 .. Len(pending), pending'[i].processed
                PROVE  \E k \in 1 .. Len(txs) :
                         /\ txs[k].kind = "withdraw" /\ txs[k].state = "landed"
                         /\ txs[k].to = pending'[i].to /\ txs[k].proof = pending'[i].proof
    BY <1>7, <1>8 DEF ProcessedMeansPaid
  <2>1. CASE i = h
    BY <1>2, <1>3, <1>5, <1>7, <2>1
  <2>2. CASE i # h
    BY <1>7, <2>2 DEF Inv, World, ProcessedMeansPaid
  <2>. QED
    BY <2>1, <2>2
<1>13. World'
  BY <1>10, <1>11, <1>12 DEF World
<1>14. request' = [request EXCEPT ![s] = NextItem(q)]
  BY DEF MarkProcessed, Continue
<1>15. RequestOK(NextItem(q))'
  <2>1. ASSUME NEW t, t = NextItem(q) PROVE RequestOK(t)'
    BY <1>1, <1>9, <2>1, NextItemOK, KnowledgeLasts
  <2>. QED
    BY <2>1
<1>. QED
  BY <1>9, <1>13, <1>14, <1>15, HandlerMoves

-----------------------------------------------------------------------------
(* The chain *)

LEMMA RangeAppend ==
  ASSUME NEW S, NEW seq \in Seq(S), NEW x \in S
  PROVE  Range(Append(seq, x)) = Range(seq) \cup {x}
<1>. DEFINE t == Append(seq, x)
<1>1. /\ Len(seq) \in Nat /\ DOMAIN seq = 1 .. Len(seq)
      /\ DOMAIN t = 1 .. (Len(seq) + 1)
      /\ t[Len(seq) + 1] = x
      /\ \A i \in 1 .. Len(seq) : t[i] = seq[i]
  OBVIOUS
<1>. HIDE DEF t
<1>2. ASSUME NEW y \in Range(t) PROVE y \in Range(seq) \cup {x}
  <2>1. PICK i \in 1 .. (Len(seq) + 1) : y = t[i]
    BY <1>1 DEF Range
  <2>. QED
    BY <1>1, <2>1 DEF Range
<1>3. ASSUME NEW y \in Range(seq) PROVE y \in Range(t)
  <2>1. PICK i \in 1 .. Len(seq) : y = seq[i]
    BY <1>1 DEF Range
  <2>2. i \in DOMAIN t
    BY <1>1
  <2>. QED
    BY <1>1, <2>1, <2>2 DEF Range
<1>4. x \in Range(t)
  <2>1. Len(seq) + 1 \in DOMAIN t
    BY <1>1
  <2>. QED
    BY <1>1, <2>1 DEF Range
<1>. QED
  BY <1>2, <1>3, <1>4 DEF t

\* A step of the chain alone.
LEMMA ChainKeeps ==
  ASSUME Inv, Advances, Types', Landings', UNCHANGED <<database, request>>
  PROVE  Inv'
<1>1. UNCHANGED <<wallet, marked, pending, request>>
  BY DEF database
<1>2. World'
  BY <1>1, WorldStands DEF Inv
<1>3. ASSUME NEW s \in Slots PROVE RequestOK(request[s])'
  <2>1. ASSUME NEW q, q = request[s] PROVE RequestOK(q)'
    BY <2>1, KnowledgeLasts DEF Inv
  <2>. QED
    BY <1>1, <2>1
<1>. QED
  BY <1>1, <1>2, <1>3 DEF Inv

\* The transaction that is left when x takes effect or dies.
Settled(x, a) == [x EXCEPT !.state = a]

LEMMA SettledFollows ==
  ASSUME NEW x \in Txs, NEW a \in States, x.state = "pending"
  PROVE  Settled(x, a) \in Txs /\ Settled(x, a).state = a /\ Follows(Settled(x, a), x)
<1>. DEFINE y == Settled(x, a)
<1>1. CASE x \in Deposits
  <2>1. /\ y \in Deposits /\ y.state = a /\ y.kind = x.kind /\ y.note = x.note
        /\ x.kind = "deposit"
    BY <1>1 DEF Deposits, Settled
  <2>. HIDE DEF y
  <2>. QED
    BY <2>1 DEF Txs, Follows, y
<1>2. CASE x \in Withdrawals
  <2>1. /\ y \in Withdrawals /\ y.state = a /\ y.kind = x.kind /\ y.to = x.to
        /\ y.proof = x.proof /\ x.kind = "withdraw"
    BY <1>2 DEF Withdrawals, Settled
  <2>. HIDE DEF y
  <2>. QED
    BY <2>1 DEF Txs, Follows, y
<1>. QED
  BY <1>1, <1>2 DEF Txs

\* A transaction takes effect or dies, and the pool moves accordingly.
LEMMA SettleKeeps ==
  ASSUME Inv, NEW i \in 1 .. Len(txs), NEW a \in States, txs[i].state = "pending",
         NEW tx, tx = Settled(txs[i], a), txs' = [txs EXCEPT ![i] = tx],
         commitments' \in Seq(Notes), Range(commitments) \subseteq Range(commitments'),
         nullifiers' \in Seq(Notes), Range(nullifiers) \subseteq Range(nullifiers'),
         root' \in RootValues,
         a = "landed" => Effect(tx)',
         UNCHANGED <<database, request>>
  PROVE  Inv'
<1>1. /\ txs \in Seq(Txs) /\ Len(txs) \in Nat /\ txs[i] \in Txs
      /\ pending \in Seq(Payments) /\ Len(pending) \in Nat
  BY DEF Inv, World, Types
<1>2. UNCHANGED <<wallet, pending>>
  BY DEF database
<1>3. tx \in Txs /\ tx.state = a /\ Follows(tx, txs[i])
  BY <1>1, SettledFollows
<1>5. /\ txs' \in Seq(Txs) /\ Len(txs') = Len(txs)
      /\ txs'[i] = tx /\ \A j \in 1 .. Len(txs) : j # i => txs'[j] = txs[j]
  BY <1>1, <1>3, ExceptSeq
<1>6. Advances
  <2>1. \A j \in 1 .. Len(txs) : Follows(txs'[j], txs[j])
    <3>1. ASSUME NEW j \in 1 .. Len(txs), j # i PROVE Follows(txs'[j], txs[j])
      BY <1>5, <3>1 DEF Follows
    <3>. QED
      BY <1>3, <1>5, <3>1
  <2>. QED
    BY <1>1, <1>2, <1>5, <2>1 DEF Advances
<1>7. Types'
  BY <1>2, <1>5 DEF Inv, World, Types
<1>8. Landings'
  <2>1. ASSUME NEW j \in 1 .. Len(txs'), txs'[j].state = "landed" PROVE Effect(txs[j])'
    <3>1. CASE j = i
      BY <1>3, <1>5, <2>1, <3>1
    <3>2. CASE j # i
      <4>1. txs'[j] = txs[j] /\ Effect(txs[j])
        BY <1>5, <2>1, <3>2 DEF Inv, World, Landings
      <4>. QED
        BY <4>1 DEF Effect
    <3>. QED
      BY <3>1, <3>2
  <2>. QED
    BY <2>1 DEF Landings
<1>. QED
  BY <1>6, <1>7, <1>8, ChainKeeps

\* What a deposit and a withdrawal do to the lists of the pool.
LEMMA DepositAppends ==
  ASSUME Inv, NEW from, NEW n \in Notes, NEW previous, NEW new, NEW amount,
         Pool!Deposit(from, n, previous, new, amount)
  PROVE  /\ commitments' \in Seq(Notes) /\ Range(commitments') = Range(commitments) \cup {n}
         /\ root' \in RootValues /\ UNCHANGED nullifiers
<1>1. commitments' = Append(commitments, n) /\ root' = Pool!MerkleRoot(Append(commitments, n))
      /\ UNCHANGED nullifiers
  BY DEF Pool!Deposit, Pool!AppendLeaf
<1>2. commitments \in Seq(Notes)
  BY DEF Inv, World, Types
<1>3. commitments' \in Seq(Notes)
  BY <1>1, <1>2
<1>4. root' \in RootValues
  BY <1>1, <1>3 DEF RootValues, Pool!RootValues, Pool!MerkleRoot
<1>. QED
  BY <1>1, <1>2, <1>3, <1>4, RangeAppend

LEMMA WithdrawAppends ==
  ASSUME Inv, NEW to, NEW p, NEW n \in Notes, Pool!Withdraw(to, p, n)
  PROVE  /\ nullifiers' \in Seq(Notes) /\ Range(nullifiers') = Range(nullifiers) \cup {n}
         /\ UNCHANGED <<root, commitments>>
<1>1. nullifiers' = Append(nullifiers, n) /\ UNCHANGED <<root, commitments>>
  BY DEF Pool!Withdraw, Pool!SpendNote
<1>2. nullifiers \in Seq(Notes)
  BY DEF Inv, World, Types
<1>. QED
  BY <1>1, <1>2, RangeAppend

LEMMA LandKeeps ==
  ASSUME Inv, NEW i \in 1 .. Len(txs), Land(i)
  PROVE  Inv'
<1>. SUFFICES ASSUME NEW tx, tx = txs[i], NEW a \in States, a = "landed",
                     NEW new, new = Settled(tx, a)
     PROVE Inv'
  BY DEF States
<1>1. tx.state = "pending" /\ txs' = [txs EXCEPT ![i].state = a]
  BY DEF Land
<1>2. txs' = [txs EXCEPT ![i] = new] /\ UNCHANGED <<database, request>>
  BY <1>1 DEF Land, Settled
<1>3. /\ tx \in Txs /\ txs \in Seq(Txs) /\ Len(txs) \in Nat
      /\ commitments \in Seq(Notes) /\ nullifiers \in Seq(Notes) /\ root \in RootValues
  BY DEF Inv, World, Types
<1>4. /\ new.kind = tx.kind
      /\ tx.kind = "deposit" => new.note = tx.note
      /\ tx.kind = "withdraw" => new.proof = tx.proof
  BY <1>1, <1>3, SettledFollows DEF Follows
<1>5. CASE /\ tx.kind = "deposit"
           /\ Pool!Deposit(tx.from, tx.note, tx.previous, tx.new, Value[tx.note])
  <2>1. tx.note \in Notes
    BY <1>3, <1>5 DEF Txs, Deposits, Withdrawals, Own
  <2>2. /\ commitments' \in Seq(Notes) /\ Range(commitments') = Range(commitments) \cup {tx.note}
        /\ root' \in RootValues /\ UNCHANGED nullifiers
    BY <1>5, <2>1, DepositAppends
  <2>3. Effect(new)'
    BY <1>4, <1>5, <2>2 DEF Effect
  <2>4. /\ Range(commitments) \subseteq Range(commitments')
        /\ nullifiers' \in Seq(Notes) /\ Range(nullifiers) \subseteq Range(nullifiers')
    BY <1>3, <2>2
  <2>. QED
    BY <1>1, <1>2, <2>2, <2>3, <2>4, SettleKeeps
<1>6. CASE tx.kind = "withdraw" /\ Pool!Withdraw(tx.to, tx.proof, tx.proof.note)
  <2>1. tx.proof.note \in Notes
    BY <1>3, <1>6 DEF Txs, Deposits, Withdrawals, Proofs, Own
  <2>2. /\ nullifiers' \in Seq(Notes)
        /\ Range(nullifiers') = Range(nullifiers) \cup {tx.proof.note}
        /\ UNCHANGED <<root, commitments>>
    BY <1>6, <2>1, WithdrawAppends
  <2>3. Effect(new)'
    BY <1>4, <1>6, <2>2 DEF Effect
  <2>4. /\ Range(nullifiers) \subseteq Range(nullifiers')
        /\ commitments' \in Seq(Notes) /\ Range(commitments) \subseteq Range(commitments')
        /\ root' \in RootValues
    BY <1>3, <2>2
  <2>. QED
    BY <1>1, <1>2, <2>2, <2>3, <2>4, SettleKeeps
<1>. QED
  BY <1>5, <1>6 DEF Land

LEMMA RejectKeeps ==
  ASSUME Inv, NEW i \in 1 .. Len(txs), Reject(i)
  PROVE  Inv'
<1>. SUFFICES ASSUME NEW a \in States, a = "dead", NEW new, new = Settled(txs[i], a)
     PROVE Inv'
  BY DEF States
<1>1. txs[i].state = "pending" /\ txs' = [txs EXCEPT ![i].state = a]
  BY DEF Reject
<1>2. /\ txs' = [txs EXCEPT ![i] = new]
      /\ UNCHANGED <<database, request>> /\ UNCHANGED <<commitments, nullifiers, root>>
  BY <1>1 DEF Reject, Settled, pool
<1>3. commitments \in Seq(Notes) /\ nullifiers \in Seq(Notes) /\ root \in RootValues
  BY DEF Inv, World, Types
<1>4. /\ commitments' \in Seq(Notes) /\ Range(commitments) \subseteq Range(commitments')
      /\ nullifiers' \in Seq(Notes) /\ Range(nullifiers) \subseteq Range(nullifiers')
      /\ root' \in RootValues
  BY <1>2, <1>3
<1>5. a # "landed"
  OBVIOUS
<1>. QED
  BY <1>1, <1>2, <1>4, <1>5, SettleKeeps

LEMMA OthersKeep ==
  ASSUME Inv, NEW u, NEW n \in Foreign, OthersDeposit(u, n) \/ OthersWithdraw(u, n)
  PROVE  Inv'
<1>1. n \in Notes
  BY WalletAssumption
<1>2. UNCHANGED <<database, request, txs>>
  BY DEF OthersDeposit, OthersWithdraw
<1>3. UNCHANGED <<wallet, pending>>
  BY <1>2 DEF database
<1>4. /\ commitments \in Seq(Notes) /\ nullifiers \in Seq(Notes) /\ root \in RootValues
      /\ Len(txs) \in Nat /\ Len(pending) \in Nat
  BY DEF Inv, World, Types
<1>5. /\ commitments' \in Seq(Notes) /\ Range(commitments) \subseteq Range(commitments')
      /\ nullifiers' \in Seq(Notes) /\ Range(nullifiers) \subseteq Range(nullifiers')
      /\ root' \in RootValues
  <2>1. CASE OthersDeposit(u, n)
    BY <1>1, <1>4, <2>1, DepositAppends DEF OthersDeposit
  <2>2. CASE OthersWithdraw(u, n)
    BY <1>1, <1>4, <2>2, WithdrawAppends DEF OthersWithdraw
  <2>. QED
    BY <2>1, <2>2
<1>6. Advances
  BY <1>2, <1>3, <1>4, <1>5 DEF Advances, Follows
<1>7. Types'
  BY <1>2, <1>3, <1>5 DEF Inv, World, Types
<1>8. Landings'
  BY <1>2, <1>5 DEF Inv, World, Landings, Effect
<1>. QED
  BY <1>2, <1>6, <1>7, <1>8, ChainKeeps

-----------------------------------------------------------------------------
(* Nothing is forgotten                                                     *)

\* What a transaction did is in the database.
Written(tx) ==
  /\ tx.kind = "deposit" => tx.note \in Stored
  /\ tx.kind = "withdraw" => tx.proof.note \in marked \cup Sent

Waits(k) == \E s \in Slots : request[s].at \in {"wait", "done"} /\ request[s].tx = k
Marking(n) == \E s \in Slots : request[s].at = "mark" /\ request[s].note = n

\* While nothing fails, somebody is there for every transaction that may still have to be
\* written down, and for every note that was handed over and is not marked yet.
Attended ==
  /\ \A k \in 1 .. Len(txs) : txs[k].state # "dead" => Written(txs[k]) \/ Waits(k)
  /\ \A n \in Sent : n \in marked \/ Marking(n)

\* What became of the clients' notes in the pool became so by a transaction of theirs.
DepositOf(n) ==
  \E k \in 1 .. Len(txs) :
    txs[k].kind = "deposit" /\ txs[k].state = "landed" /\ txs[k].note = n
WithdrawalOf(n) ==
  \E k \in 1 .. Len(txs) :
    txs[k].kind = "withdraw" /\ txs[k].state = "landed" /\ txs[k].proof.note = n

Backed ==
  /\ \A n \in Range(commitments) \cap Own : DepositOf(n)
  /\ \A n \in Range(nullifiers) \cap Own : WithdrawalOf(n)

NoFault == budget.faults = MaxFaults

Accounted ==
  /\ created \subseteq Own
  /\ "faults" \in DOMAIN budget /\ budget.faults \in Nat /\ budget.faults <= MaxFaults
  /\ Backed
  /\ NoFault => Attended

\* Whatever is not dead stays backed.
LEMMA BackedStays ==
  ASSUME Backed, UNCHANGED <<commitments, nullifiers>>,
         \A k \in 1 .. Len(txs) : k \in 1 .. Len(txs') /\ Follows(txs'[k], txs[k])
  PROVE  Backed'
<1>1. \A k \in 1 .. Len(txs) : k \in 1 .. Len(txs') /\ Follows(txs'[k], txs[k])
  OBVIOUS
<1>2. ASSUME NEW n, DepositOf(n) PROVE DepositOf(n)'
  BY <1>1, <1>2 DEF DepositOf, Follows
<1>3. ASSUME NEW n, WithdrawalOf(n) PROVE WithdrawalOf(n)'
  BY <1>1, <1>3 DEF WithdrawalOf, Follows
<1>. QED
  BY <1>2, <1>3 DEF Backed

\* A handler moves on, and with it the database: what is left to attend is attended.
LEMMA AttendedStays ==
  ASSUME Attended, DOMAIN request = Slots, NEW s \in Slots, NEW q, NEW t, q = request[s],
         request' = [request EXCEPT ![s] = t],
         \A k \in 1 .. Len(txs') :
           \/ k \in 1 .. Len(txs) /\ txs'[k] = txs[k]
           \/ t.at = "wait" /\ t.tx = k,
         Stored \subseteq Stored', marked \subseteq marked', Sent \subseteq Sent',
         \A n \in Sent' : n \in Sent \/ (t.at = "mark" /\ t.note = n),
         q.at \in {"wait", "done"} =>
           \/ t.at \in {"wait", "done"} /\ t.tx = q.tx
           \/ txs[q.tx].state = "dead"
           \/ Written(txs[q.tx])',
         q.at = "mark" => q.note \in marked'
  PROVE  Attended'
<1>1. request'[s] = t /\ \A r \in Slots : r # s => request'[r] = request[r]
  OBVIOUS
<1>2. ASSUME NEW k \in 1 .. Len(txs'), txs'[k].state # "dead"
      PROVE  Written(txs[k])' \/ Waits(k)'
  <2>1. CASE t.at = "wait" /\ t.tx = k
    BY <1>1, <2>1 DEF Waits
  <2>2. CASE k \in 1 .. Len(txs) /\ txs'[k] = txs[k]
    <3>1. CASE Written(txs[k])
      BY <2>2, <3>1 DEF Written
    <3>2. CASE Waits(k)
      <4>1. PICK r \in Slots : request[r].at \in {"wait", "done"} /\ request[r].tx = k
        BY <3>2 DEF Waits
      <4>2. CASE r # s
        BY <1>1, <4>1, <4>2 DEF Waits
      <4>3. CASE r = s
        <5>1. q.at \in {"wait", "done"} /\ q.tx = k /\ txs[q.tx].state # "dead"
          BY <1>2, <2>2, <4>1, <4>3
        <5>2. CASE t.at \in {"wait", "done"} /\ t.tx = q.tx
          BY <1>1, <5>1, <5>2 DEF Waits
        <5>3. CASE Written(txs[q.tx])'
          BY <5>1, <5>3 DEF Written
        <5>. QED
          BY <5>1, <5>2, <5>3
      <4>. QED
        BY <4>2, <4>3
    <3>. QED
      BY <1>2, <2>2, <3>1, <3>2 DEF Attended
  <2>. QED
    BY <2>1, <2>2
<1>3. ASSUME NEW n \in Sent' PROVE n \in marked' \/ Marking(n)'
  <2>1. CASE t.at = "mark" /\ t.note = n
    BY <1>1, <2>1 DEF Marking
  <2>2. CASE n \in marked
    BY <2>2
  <2>3. CASE n \in Sent /\ Marking(n)
    <3>1. PICK r \in Slots : request[r].at = "mark" /\ request[r].note = n
      BY <2>3 DEF Marking
    <3>2. CASE r = s
      BY <3>1, <3>2
    <3>3. CASE r # s
      BY <1>1, <3>1, <3>3 DEF Marking
    <3>. QED
      BY <3>2, <3>3
  <2>. QED
    BY <2>1, <2>2, <2>3 DEF Attended
<1>. QED
  BY <1>2, <1>3 DEF Attended

\* No fault in this step.
BudgetKept == "faults" \in DOMAIN budget' /\ budget'.faults = budget.faults

LEMMA BudgetStays ==
  ASSUME Accounted, UNCHANGED budget \/ \E x : budget' = [budget EXCEPT !.requests = x]
  PROVE  BudgetKept
BY DEF Accounted, BudgetKept

\* A handler does something of a request that changes nothing in the pool.
LEMMA HandlerAccounts ==
  ASSUME Inv, Accounted, NEW s \in Slots, NEW q, NEW t, q = request[s],
         request' = [request EXCEPT ![s] = t],
         UNCHANGED <<commitments, nullifiers>>, created' \subseteq Own, BudgetKept,
         \A k \in 1 .. Len(txs) : k \in 1 .. Len(txs') /\ txs'[k] = txs[k],
         \A k \in 1 .. Len(txs') : k \in 1 .. Len(txs) \/ (t.at = "wait" /\ t.tx = k),
         Stored \subseteq Stored', marked \subseteq marked', Sent \subseteq Sent',
         \A n \in Sent' : n \in Sent \/ (t.at = "mark" /\ t.note = n),
         q.at \in {"wait", "done"} =>
           \/ t.at \in {"wait", "done"} /\ t.tx = q.tx
           \/ txs[q.tx].state = "dead"
           \/ Written(txs[q.tx])',
         q.at = "mark" => q.note \in marked'
  PROVE  Accounted'
<1>1. Backed'
  <2>1. \A k \in 1 .. Len(txs) : k \in 1 .. Len(txs') /\ Follows(txs'[k], txs[k])
    BY DEF Follows
  <2>. QED
    BY <2>1, BackedStays DEF Accounted
<1>2. ASSUME NoFault' PROVE Attended'
  <2>1. Attended
    BY <1>2 DEF NoFault, Accounted, BudgetKept
  <2>2. DOMAIN request = Slots
    BY DEF Inv
  <2>3. \A k \in 1 .. Len(txs') :
          \/ k \in 1 .. Len(txs) /\ txs'[k] = txs[k]
          \/ t.at = "wait" /\ t.tx = k
    OBVIOUS
  <2>4. q.at \in {"wait", "done"} =>
          \/ t.at \in {"wait", "done"} /\ t.tx = q.tx
          \/ txs[q.tx].state = "dead"
          \/ Written(txs[q.tx])'
    OBVIOUS
  <2>5. \A n \in Sent' : n \in Sent \/ (t.at = "mark" /\ t.note = n)
    OBVIOUS
  <2>6. q.at = "mark" => q.note \in marked'
    OBVIOUS
  <2>7. q = request[s] /\ request' = [request EXCEPT ![s] = t]
    OBVIOUS
  <2>8. Stored \subseteq Stored' /\ marked \subseteq marked' /\ Sent \subseteq Sent'
    OBVIOUS
  <2>. QED
    BY <2>1, <2>2, <2>3, <2>4, <2>5, <2>6, <2>7, <2>8, AttendedStays, Zenon
<1>. QED
  BY <1>1, <1>2 DEF Accounted, BudgetKept

\* It only looks.
LEMMA LookAccounts ==
  ASSUME Inv, Accounted, NEW s \in Slots, NEW q, NEW t, q = request[s],
         request' = [request EXCEPT ![s] = t],
         UNCHANGED <<pool, database, txs>>, created' \subseteq Own, BudgetKept,
         q.at \in {"wait", "done"} =>
           \/ t.at \in {"wait", "done"} /\ t.tx = q.tx
           \/ txs[q.tx].state = "dead",
         q.at # "mark"
  PROVE  Accounted'
<1>1. UNCHANGED <<commitments, nullifiers, wallet, marked, pending, txs>>
  BY DEF pool, database
<1>2. Stored' = Stored /\ Sent' = Sent /\ marked' = marked
  BY <1>1 DEF Stored, Sent
<1>3. \A k \in 1 .. Len(txs) : k \in 1 .. Len(txs') /\ txs'[k] = txs[k]
  BY <1>1
<1>4. \A k \in 1 .. Len(txs') : k \in 1 .. Len(txs) \/ (t.at = "wait" /\ t.tx = k)
  BY <1>1
<1>. QED
  BY <1>1, <1>2, <1>3, <1>4, HandlerAccounts

LEMMA ArriveAccounts ==
  ASSUME Inv, Accounted, NEW s \in Slots, NEW u \in Clients, Arrive(s, u)
  PROVE  Accounted'
<1>. SUFFICES ASSUME NEW q, q = request[s] PROVE Accounted'
  OBVIOUS
<1>1. /\ UNCHANGED <<pool, database, txs>> /\ created' \subseteq Own
      /\ q = Idle /\ \E t : request' = [request EXCEPT ![s] = t]
      /\ \E x : budget' = [budget EXCEPT !.requests = x]
  BY DEF Arrive, DepositBegin, PickNote, ProcessBegin, Begin, Accounted, Own
<1>2. q.at \notin {"wait", "done", "mark"}
  BY <1>1 DEF Idle
<1>. QED
  BY <1>1, <1>2, BudgetStays, LookAccounts

LEMMA LookingAccounts ==
  ASSUME Inv, Accounted, NEW s \in Slots, ReadRoot(s) \/ ReadLeaves(s) \/ Outcome(s)
  PROVE  Accounted'
<1>. SUFFICES ASSUME NEW q, q = request[s] PROVE Accounted'
  OBVIOUS
<1>1. /\ UNCHANGED <<pool, database, txs>> /\ created' = created /\ UNCHANGED budget
      /\ q.at \in {"root", "leaves", "wait"}
  BY DEF ReadRoot, ReadLeaves, Outcome, Goto, Continue
<1>2. created' \subseteq Own /\ BudgetKept
  BY <1>1, BudgetStays DEF Accounted
<1>3. CASE q.at \in {"root", "leaves"}
  <2>1. \E t : request' = [request EXCEPT ![s] = t]
    BY DEF ReadRoot, ReadLeaves, Outcome, Goto, Continue
  <2>. QED
    BY <1>1, <1>2, <1>3, <2>1, LookAccounts
<1>4. CASE q.at = "wait"
  <2>1. \/ /\ txs[q.tx].state = "dead" /\ request' = [request EXCEPT ![s] = NextItem(q)]
        \/ request' = [request EXCEPT ![s] = At(q, "done")]
    BY <1>4 DEF ReadRoot, ReadLeaves, Outcome, Goto, Continue, At
  <2>2. At(q, "done").at = "done" /\ At(q, "done").tx = q.tx
    <3>1. q \in Handlers
      BY <1>4, BusyAt DEF Places, Busy
    <3>. QED
      BY <3>1, AtFacts DEF Places
  <2>. QED
    BY <1>1, <1>2, <1>4, <2>1, <2>2, LookAccounts
<1>. QED
  BY <1>1, <1>3, <1>4

LEMMA FaultAccounts ==
  ASSUME Inv, Accounted, NEW s \in Slots, GiveUp(s) \/ Crash(s)
  PROVE  Accounted'
<1>1. /\ UNCHANGED <<pool, txs, created>>
      /\ budget.faults > 0 /\ budget' = [budget EXCEPT !.faults = @ - 1]
  BY DEF GiveUp, Crash
<1>2. /\ "faults" \in DOMAIN budget' /\ budget'.faults = budget.faults - 1
      /\ budget.faults \in Nat /\ budget.faults <= MaxFaults /\ MaxFaults \in Nat
  BY <1>1, WalletAssumption DEF Accounted
<1>3. budget'.faults \in Nat /\ budget'.faults <= MaxFaults /\ ~ NoFault'
  BY <1>1, <1>2 DEF NoFault
<1>4. \A k \in 1 .. Len(txs) : k \in 1 .. Len(txs') /\ Follows(txs'[k], txs[k])
  BY <1>1 DEF Follows
<1>5. Backed'
  BY <1>1, <1>4, BackedStays DEF Accounted, pool
<1>. QED
  BY <1>1, <1>2, <1>3, <1>5 DEF Accounted

LEMMA SendAccounts ==
  ASSUME Inv, Accounted, NEW s \in Slots, Send(s)
  PROVE  Accounted'
<1>. SUFFICES ASSUME NEW q, q = request[s], NEW tx, tx = TxOf(q), NEW n, n = Len(txs)
     PROVE Accounted'
  OBVIOUS
<1>1. /\ q.at = "send" /\ Busy(q) /\ q \in Handlers
  BY BusyAt DEF Send, Places, Busy
<1>2. /\ UNCHANGED <<pool, database>> /\ created' \subseteq Own /\ BudgetKept
  BY BudgetStays DEF Send, Goto, Continue, Accounted
<1>3. tx \in Txs
  BY <1>1, TxOfOK
<1>4. \/ txs' = Append(txs, tx) /\ request' = [request EXCEPT ![s] = Waiting(q, n + 1)]
      \/ UNCHANGED txs /\ \E t : request' = [request EXCEPT ![s] = t]
  BY DEF Send, Goto, Continue, Waiting
<1>5. CASE txs' = Append(txs, tx) /\ request' = [request EXCEPT ![s] = Waiting(q, n + 1)]
  <2>1. /\ n \in Nat /\ Len(txs') = n + 1 /\ \A i \in 1 .. n : txs'[i] = txs[i]
    BY <1>3, <1>5 DEF Inv, World, Types
  <2>. DEFINE t == Moved(q, "wait", q.root, q.todo, n + 1)
  <2>2. request' = [request EXCEPT ![s] = t]
    BY <1>1, <1>5, MovedTo
  <2>3. t.at = "wait" /\ t.tx = n + 1
    BY DEF Moved
  <2>. HIDE DEF t
  <2>4. \A k \in 1 .. Len(txs) : k \in 1 .. Len(txs') /\ txs'[k] = txs[k]
    BY <2>1
  <2>5. \A k \in 1 .. Len(txs') : k \in 1 .. Len(txs) \/ (t.at = "wait" /\ t.tx = k)
    BY <2>1, <2>3
  <2>6. UNCHANGED <<commitments, nullifiers, wallet, marked, pending>>
    BY <1>2 DEF pool, database
  <2>7. Stored' = Stored /\ Sent' = Sent /\ marked' = marked
    BY <2>6 DEF Stored, Sent
  <2>8. q.at \notin {"wait", "done", "mark"}
    BY <1>1
  <2>. QED
    BY <1>2, <2>2, <2>4, <2>5, <2>6, <2>7, <2>8, HandlerAccounts
<1>6. CASE UNCHANGED txs /\ \E t : request' = [request EXCEPT ![s] = t]
  BY <1>1, <1>2, <1>6, LookAccounts
<1>. QED
  BY <1>4, <1>5, <1>6

\* The note of a deposit is in its wallet, so its transaction needs nobody any more.
LEMMA StoreNoteAccounts ==
  ASSUME Inv, Accounted, NEW s \in Slots, StoreNote(s)
  PROVE  Accounted'
<1>. SUFFICES ASSUME NEW q, q = request[s], NEW t, t = Idle PROVE Accounted'
  OBVIOUS
<1>1. /\ q.at = "done" /\ q.job = "deposit" /\ Busy(q) /\ q.user \in Clients
      /\ txs[q.tx].kind = "deposit" /\ txs[q.tx].note = q.note
  BY BusyAt DEF StoreNote, Places, Busy, Handlers, Sends
<1>2. /\ UNCHANGED <<commitments, nullifiers, marked, pending, txs>> /\ created' = created
      /\ UNCHANGED budget /\ request' = [request EXCEPT ![s] = t]
      /\ wallet' = [wallet EXCEPT ![q.user] = @ \cup {q.note}]
  BY DEF StoreNote, Continue, pool
<1>3. wallet \in [Clients -> SUBSET Own]
  BY DEF Inv, World, Types
<1>4. Stored \subseteq Stored' /\ q.note \in Stored'
  <2>1. \A u \in Clients : wallet[u] \subseteq wallet'[u]
    BY <1>1, <1>2, <1>3
  <2>2. q.note \in wallet'[q.user]
    BY <1>1, <1>2, <1>3
  <2>. QED
    BY <1>1, <2>1, <2>2 DEF Stored
<1>5. Written(txs[q.tx])'
  BY <1>1, <1>2, <1>4 DEF Written
<1>6. marked \subseteq marked' /\ Sent \subseteq Sent' /\ created' \subseteq Own /\ BudgetKept
  BY <1>2, BudgetStays DEF Accounted, Sent
<1>7. \A k \in 1 .. Len(txs) : k \in 1 .. Len(txs') /\ txs'[k] = txs[k]
  BY <1>2
<1>8. \A k \in 1 .. Len(txs') : k \in 1 .. Len(txs) \/ (t.at = "wait" /\ t.tx = k)
  BY <1>2
<1>9. \A n \in Sent' : n \in Sent \/ (t.at = "mark" /\ t.note = n)
  BY <1>2 DEF Sent
<1>10. q.at # "mark"
  BY <1>1
<1>. QED
  BY <1>2, <1>4, <1>5, <1>6, <1>7, <1>8, <1>9, <1>10, HandlerAccounts

\* A proof is handed over, and its handler is about to mark the note.
LEMMA CreatePendingAccounts ==
  ASSUME Inv, Accounted, NEW s \in Slots, CreatePending(s)
  PROVE  Accounted'
<1>. SUFFICES ASSUME NEW q, q = request[s] PROVE Accounted'
  OBVIOUS
<1>. DEFINE t == At(q, "mark")
<1>. DEFINE n == Len(pending)
<1>. DEFINE p == [to |-> q.recipient, proof |-> ProofOf(q), processed |-> FALSE]
<1>1. q.at = "create" /\ Busy(q) /\ q \in Handlers
  BY BusyAt DEF CreatePending, Places, Busy
<1>2. t.at = "mark" /\ t.note = q.note
  BY <1>1, AtFacts DEF Places
<1>3. /\ UNCHANGED <<commitments, nullifiers, wallet, marked, txs>> /\ created' = created
      /\ UNCHANGED budget /\ request' = [request EXCEPT ![s] = t]
      /\ pending' = Append(pending, p)
  BY DEF CreatePending, Goto, Continue, At, pool
<1>4. p.proof.note = q.note
  BY DEF ProofOf, Pool!Proof
<1>. HIDE DEF t, p
<1>5. /\ n \in Nat /\ Len(pending') = n + 1 /\ pending'[n + 1] = p
      /\ \A i \in 1 .. n : pending'[i] = pending[i]
  BY <1>3 DEF Inv, World, Types
<1>6. Sent \subseteq Sent' /\ \A m \in Sent' : m \in Sent \/ m = q.note
  <2>1. ASSUME NEW i \in 1 .. n PROVE i \in 1 .. Len(pending')
    BY <1>5
  <2>2. ASSUME NEW i \in 1 .. Len(pending') PROVE i \in 1 .. n \/ i = n + 1
    BY <1>5
  <2>. QED
    BY <1>4, <1>5, <2>1, <2>2 DEF Sent
<1>. HIDE DEF n
<1>7. Stored \subseteq Stored' /\ marked \subseteq marked' /\ created' \subseteq Own /\ BudgetKept
  BY <1>3, BudgetStays DEF Accounted, Stored
<1>8. \A k \in 1 .. Len(txs) : k \in 1 .. Len(txs') /\ txs'[k] = txs[k]
  BY <1>3
<1>9. \A k \in 1 .. Len(txs') : k \in 1 .. Len(txs) \/ (t.at = "wait" /\ t.tx = k)
  BY <1>3
<1>10. \A m \in Sent' : m \in Sent \/ (t.at = "mark" /\ t.note = m)
  BY <1>2, <1>6
<1>11. q.at \in {"wait", "done"} =>
         \/ t.at \in {"wait", "done"} /\ t.tx = q.tx
         \/ txs[q.tx].state = "dead"
         \/ Written(txs[q.tx])'
  BY <1>1
<1>12. q.at = "mark" => q.note \in marked'
  BY <1>1
<1>13. UNCHANGED <<commitments, nullifiers>>
  BY <1>3
<1>. QED
  BY <1>3, <1>6, <1>7, <1>8, <1>9, <1>10, <1>11, <1>12, <1>13, HandlerAccounts, Zenon

\* A note is marked: it was handed over, or it is that of the withdrawal that landed.
LEMMA MarkNoteSpentAccounts ==
  ASSUME Inv, Accounted, NEW s \in Slots, MarkNoteSpent(s)
  PROVE  Accounted'
<1>. SUFFICES ASSUME NEW q, q = request[s], NEW t, t = Idle PROVE Accounted'
  OBVIOUS
<1>1. Busy(q) /\ (q.at = "mark" \/ (q.at = "done" /\ q.job = "withdrawSelf"))
  BY BusyAt DEF MarkNoteSpent, Places
<1>2. /\ UNCHANGED <<commitments, nullifiers, wallet, pending, txs>> /\ created' = created
      /\ UNCHANGED budget /\ request' = [request EXCEPT ![s] = t]
      /\ marked' = marked \cup {q.note}
  BY DEF MarkNoteSpent, Continue, pool
<1>3. /\ Stored \subseteq Stored' /\ Sent' = Sent /\ marked \subseteq marked'
      /\ q.note \in marked' /\ created' \subseteq Own /\ BudgetKept
  BY <1>2, BudgetStays DEF Accounted, Sent, Stored
<1>4. q.at \in {"wait", "done"} => Written(txs[q.tx])'
  <2>. SUFFICES ASSUME q.at = "done", q.job = "withdrawSelf" PROVE Written(txs[q.tx])'
    BY <1>1
  <2>1. txs[q.tx].kind = "withdraw" /\ txs[q.tx].proof.note = q.note
    BY <1>1 DEF Busy, Sends
  <2>. QED
    BY <1>2, <1>3, <2>1 DEF Written
<1>5. \A k \in 1 .. Len(txs) : k \in 1 .. Len(txs') /\ txs'[k] = txs[k]
  BY <1>2
<1>6. \A k \in 1 .. Len(txs') : k \in 1 .. Len(txs) \/ (t.at = "wait" /\ t.tx = k)
  BY <1>2
<1>7. Sent \subseteq Sent' /\ \A n \in Sent' : n \in Sent \/ (t.at = "mark" /\ t.note = n)
  BY <1>3
<1>8. q.at \in {"wait", "done"} =>
        \/ t.at \in {"wait", "done"} /\ t.tx = q.tx
        \/ txs[q.tx].state = "dead"
        \/ Written(txs[q.tx])'
  BY <1>4
<1>9. q.at = "mark" => q.note \in marked'
  BY <1>3
<1>10. UNCHANGED <<commitments, nullifiers>>
  BY <1>2
<1>. QED
  BY <1>2, <1>3, <1>5, <1>6, <1>7, <1>8, <1>9, <1>10, HandlerAccounts

\* A payment reads processed: its note has been handed over, and is still.
LEMMA MarkProcessedAccounts ==
  ASSUME Inv, Accounted, NEW s \in Slots, MarkProcessed(s)
  PROVE  Accounted'
<1>. SUFFICES ASSUME NEW q, q = request[s], NEW t, t = NextItem(q), NEW h, h = q.todo[1]
     PROVE Accounted'
  OBVIOUS
<1>1. q.at = "done" /\ q.job = "process" /\ Busy(q) /\ ListOf(q) /\ q.todo \in Seq(Nat)
  BY BusyAt DEF MarkProcessed, Places, Busy, Handlers
<1>2. Head(q.todo) = h /\ h \in 1 .. Len(pending)
  <2>1. q.todo # <<>>
    BY <1>1 DEF ListOf
  <2>2. Head(q.todo) = h /\ 1 \in 1 .. Len(q.todo)
    BY <1>1, <2>1
  <2>. QED
    BY <1>1, <2>2 DEF ListOf
<1>3. txs[q.tx].kind = "withdraw" /\ txs[q.tx].proof = pending[h].proof
  BY <1>1 DEF Busy, Sends
<1>4. /\ UNCHANGED <<commitments, nullifiers, wallet, marked, txs>> /\ created' = created
      /\ UNCHANGED budget /\ request' = [request EXCEPT ![s] = t]
      /\ pending' = [pending EXCEPT ![h].processed = TRUE]
  BY <1>2 DEF MarkProcessed, Continue, pool
<1>5. Sent' = Sent
  <2>1. pending \in Seq(Payments) /\ Len(pending) \in Nat /\ pending[h] \in Payments
    BY <1>2 DEF Inv, World, Types
  <2>. DEFINE p == [pending[h] EXCEPT !.processed = TRUE]
  <2>2. p \in Payments /\ p.proof = pending[h].proof
    BY <2>1 DEF Payments
  <2>3. pending' = [pending EXCEPT ![h] = p]
    BY <1>4
  <2>. HIDE DEF p
  <2>4. /\ Len(pending') = Len(pending)
        /\ \A i \in 1 .. Len(pending) : pending'[i] = IF i = h THEN p ELSE pending[i]
    BY <1>2, <2>1, <2>2, <2>3, ExceptSeq
  <2>5. \A i \in 1 .. Len(pending) : pending'[i].proof = pending[i].proof
    BY <2>2, <2>4
  <2>. QED
    BY <2>4, <2>5 DEF Sent
<1>6. Written(txs[q.tx])'
  <2>1. txs[q.tx].proof.note \in Sent
    BY <1>2, <1>3 DEF Sent
  <2>. QED
    BY <1>3, <1>4, <1>5, <2>1 DEF Written
<1>7. Stored \subseteq Stored' /\ marked \subseteq marked' /\ created' \subseteq Own /\ BudgetKept
  BY <1>4, BudgetStays DEF Accounted, Stored
<1>8. \A k \in 1 .. Len(txs) : k \in 1 .. Len(txs') /\ txs'[k] = txs[k]
  BY <1>4
<1>9. \A k \in 1 .. Len(txs') : k \in 1 .. Len(txs) \/ (t.at = "wait" /\ t.tx = k)
  BY <1>4
<1>10. Sent \subseteq Sent' /\ \A n \in Sent' : n \in Sent \/ (t.at = "mark" /\ t.note = n)
  BY <1>5
<1>11. q.at \in {"wait", "done"} =>
         \/ t.at \in {"wait", "done"} /\ t.tx = q.tx
         \/ txs[q.tx].state = "dead"
         \/ Written(txs[q.tx])'
  BY <1>6
<1>12. q.at = "mark" => q.note \in marked'
  BY <1>1
<1>13. UNCHANGED <<commitments, nullifiers>>
  BY <1>4
<1>14. request' = [request EXCEPT ![s] = t]
  BY <1>4
<1>15. Stored \subseteq Stored' /\ marked \subseteq marked' /\ Sent \subseteq Sent'
  BY <1>5, <1>7
<1>16. \A n \in Sent' : n \in Sent \/ (t.at = "mark" /\ t.note = n)
  BY <1>10
<1>17. created' \subseteq Own /\ BudgetKept
  BY <1>7
<1>. QED
  BY <1>8, <1>9, <1>11, <1>12, <1>13, <1>14, <1>15, <1>16, <1>17, HandlerAccounts, ZenonT(40)

\* Nothing happens but on the chain: what is new there is the effect of a transaction, or
\* of an outsider.
LEMMA ChainAccounts ==
  ASSUME Accounted, UNCHANGED <<database, request, budget, created>>, Len(txs') = Len(txs),
         \A k \in 1 .. Len(txs) :
           Follows(txs'[k], txs[k]) /\ (txs'[k].state # "dead" => txs[k].state # "dead"),
         \A n \in Range(commitments') \cap Own : n \in Range(commitments) \/ DepositOf(n)',
         \A n \in Range(nullifiers') \cap Own : n \in Range(nullifiers) \/ WithdrawalOf(n)'
  PROVE  Accounted'
<1>1. \A k \in 1 .. Len(txs) : k \in 1 .. Len(txs') /\ Follows(txs'[k], txs[k])
  OBVIOUS
<1>2. UNCHANGED <<wallet, marked, pending>> /\ Stored' = Stored /\ Sent' = Sent
  BY DEF database, Stored, Sent
<1>3. ASSUME NEW n, DepositOf(n) PROVE DepositOf(n)'
  BY <1>1, <1>3 DEF DepositOf, Follows
<1>4. ASSUME NEW n, WithdrawalOf(n) PROVE WithdrawalOf(n)'
  BY <1>1, <1>4 DEF WithdrawalOf, Follows
<1>5. Backed'
  BY <1>3, <1>4 DEF Accounted, Backed
<1>6. ASSUME Attended PROVE Attended'
  <2>1. ASSUME NEW k \in 1 .. Len(txs'), txs'[k].state # "dead"
        PROVE  Written(txs[k])' \/ Waits(k)'
    <3>1. k \in 1 .. Len(txs) /\ Follows(txs'[k], txs[k]) /\ txs[k].state # "dead"
      BY <2>1
    <3>2. CASE Written(txs[k])
      BY <1>2, <3>1, <3>2 DEF Written, Follows
    <3>3. CASE Waits(k)
      BY <3>3 DEF Waits
    <3>. QED
      BY <1>6, <3>1, <3>2, <3>3 DEF Attended
  <2>2. ASSUME NEW n \in Sent' PROVE n \in marked' \/ Marking(n)'
    BY <1>2, <1>6, <2>2 DEF Attended, Marking
  <2>. QED
    BY <2>1, <2>2 DEF Attended
<1>. QED
  BY <1>5, <1>6 DEF Accounted, NoFault

\* A transaction takes effect or dies.
LEMMA SettleAccounts ==
  ASSUME Inv, Accounted, NEW i \in 1 .. Len(txs), Land(i) \/ Reject(i)
  PROVE  Accounted'
<1>. SUFFICES ASSUME NEW tx, tx = txs[i], NEW a \in States,
                     txs' = [txs EXCEPT ![i].state = a], NEW new, new = Settled(tx, a),
                     a \in {"landed", "dead"}, a = "landed" \/ UNCHANGED pool
     PROVE Accounted'
  BY DEF Land, Reject, States
<1>1. /\ tx.state = "pending" /\ tx \in Txs /\ txs \in Seq(Txs) /\ Len(txs) \in Nat
      /\ UNCHANGED <<database, request, budget, created>> /\ txs' = [txs EXCEPT ![i] = new]
  BY DEF Inv, World, Types, Land, Reject, Settled
<1>2. new \in Txs /\ new.state = a /\ Follows(new, tx)
  BY <1>1, SettledFollows
<1>3. /\ Len(txs') = Len(txs) /\ txs'[i] = new
      /\ \A j \in 1 .. Len(txs) : j # i => txs'[j] = txs[j]
  BY <1>1, <1>2, ExceptSeq
<1>4. \A k \in 1 .. Len(txs) :
        Follows(txs'[k], txs[k]) /\ (txs'[k].state # "dead" => txs[k].state # "dead")
  <2>1. ASSUME NEW k \in 1 .. Len(txs), k # i PROVE Follows(txs'[k], txs[k])
    BY <1>3, <2>1 DEF Follows
  <2>. QED
    BY <1>1, <1>2, <1>3, <2>1
<1>5. /\ \A n \in Range(commitments') \cap Own : n \in Range(commitments) \/ DepositOf(n)'
      /\ \A n \in Range(nullifiers') \cap Own : n \in Range(nullifiers) \/ WithdrawalOf(n)'
  <2>1. CASE UNCHANGED pool
    BY <2>1 DEF pool
  <2>2. CASE a = "landed" /\ ~ UNCHANGED pool
    <3>1. \/ tx.kind = "deposit" /\ \E u, x, y, v : Pool!Deposit(u, tx.note, x, y, v)
          \/ tx.kind = "withdraw" /\ \E u, x : Pool!Withdraw(u, x, tx.proof.note)
      BY <2>2 DEF Land, Reject
    <3>2. i \in 1 .. Len(txs') /\ txs'[i].state = "landed"
      BY <1>2, <1>3, <2>2
    <3>3. CASE tx.kind = "deposit" /\ \E u, x, y, v : Pool!Deposit(u, tx.note, x, y, v)
      <4>1. tx.note \in Notes
        BY <1>1, <3>3 DEF Txs, Deposits, Withdrawals, Own
      <4>2. Range(commitments') = Range(commitments) \cup {tx.note} /\ UNCHANGED nullifiers
        BY <3>3, <4>1, DepositAppends
      <4>3. DepositOf(tx.note)'
        BY <1>2, <1>3, <3>2, <3>3 DEF DepositOf, Follows
      <4>. QED
        BY <4>2, <4>3
    <3>4. CASE tx.kind = "withdraw" /\ \E u, x : Pool!Withdraw(u, x, tx.proof.note)
      <4>1. tx.proof.note \in Notes
        BY <1>1, <3>4 DEF Txs, Deposits, Withdrawals, Proofs, Own
      <4>2. /\ Range(nullifiers') = Range(nullifiers) \cup {tx.proof.note}
            /\ UNCHANGED commitments
        BY <3>4, <4>1, WithdrawAppends
      <4>3. WithdrawalOf(tx.proof.note)'
        BY <1>2, <1>3, <3>2, <3>4 DEF WithdrawalOf, Follows
      <4>. QED
        BY <4>2, <4>3
    <3>. QED
      BY <3>1, <3>3, <3>4
  <2>. QED
    BY <2>1, <2>2
<1>. QED
  BY <1>1, <1>3, <1>4, <1>5, ChainAccounts

\* Outsiders have notes of their own.
LEMMA OthersAccount ==
  ASSUME Inv, Accounted, NEW u, NEW n \in Foreign, OthersDeposit(u, n) \/ OthersWithdraw(u, n)
  PROVE  Accounted'
<1>1. n \in Notes /\ n \notin Own
  BY WalletAssumption DEF Own
<1>2. UNCHANGED <<database, request, budget, created>> /\ UNCHANGED txs
  BY DEF OthersDeposit, OthersWithdraw
<1>3. /\ Range(commitments') \subseteq Range(commitments) \cup {n}
      /\ Range(nullifiers') \subseteq Range(nullifiers) \cup {n}
  <2>1. CASE OthersDeposit(u, n)
    BY <1>1, <2>1, DepositAppends DEF OthersDeposit
  <2>2. CASE OthersWithdraw(u, n)
    BY <1>1, <2>2, WithdrawAppends DEF OthersWithdraw
  <2>. QED
    BY <2>1, <2>2
<1>4. \A k \in 1 .. Len(txs) :
        Follows(txs'[k], txs[k]) /\ (txs'[k].state # "dead" => txs[k].state # "dead")
  BY <1>2 DEF Follows
<1>5. /\ \A m \in Range(commitments') \cap Own : m \in Range(commitments) \/ DepositOf(m)'
      /\ \A m \in Range(nullifiers') \cap Own : m \in Range(nullifiers) \/ WithdrawalOf(m)'
  BY <1>1, <1>3
<1>. QED
  BY <1>2, <1>4, <1>5, ChainAccounts

LEMMA NextAccounts ==
  ASSUME Inv, Accounted, [Next]_vars
  PROVE  Accounted'
<1>1. ASSUME NEW s \in Slots, Step(s) PROVE Accounted'
  BY <1>1, LookingAccounts, FaultAccounts, SendAccounts, StoreNoteAccounts,
     CreatePendingAccounts, MarkNoteSpentAccounts, MarkProcessedAccounts DEF Step
<1>2. ASSUME NEW s \in Slots, NEW u \in Clients, Arrive(s, u) PROVE Accounted'
  BY <1>2, ArriveAccounts
<1>3. ASSUME NEW i \in 1 .. Len(txs), Land(i) \/ Reject(i) PROVE Accounted'
  BY <1>3, SettleAccounts
<1>4. ASSUME NEW u, NEW n \in Foreign, OthersDeposit(u, n) \/ OthersWithdraw(u, n)
      PROVE  Accounted'
  BY <1>4, OthersAccount
<1>5. CASE UNCHANGED vars
  <2>1. UNCHANGED <<database, request, budget, created>> /\ UNCHANGED <<txs, pool>>
    BY <1>5 DEF vars
  <2>2. \A k \in 1 .. Len(txs) :
          Follows(txs'[k], txs[k]) /\ (txs'[k].state # "dead" => txs[k].state # "dead")
    BY <2>1 DEF Follows
  <2>. QED
    BY <2>1, <2>2, ChainAccounts DEF pool
<1>. QED
  BY <1>1, <1>2, <1>3, <1>4, <1>5 DEF Next

\* When all is quiet nothing waits, so everything is written down.
LEMMA AccountedMeansAgreed ==
  ASSUME Inv, Accounted
  PROVE  QuietWalletsAgree
<1>. SUFFICES ASSUME Quiet, NoFault
     PROVE /\ Stored \ marked \subseteq Range(commitments) \ Range(nullifiers)
           /\ Range(commitments) \cap created \subseteq Stored
  BY DEF QuietWalletsAgree, NoFault
<1>1. ASSUME NEW k \in 1 .. Len(txs), txs[k].state = "landed" PROVE Written(txs[k])
  <2>1. ~ Waits(k)
    BY DEF Quiet, Waits, Idle
  <2>. QED
    BY <1>1, <2>1 DEF Accounted, Attended
<1>2. Sent \subseteq marked
  BY DEF Accounted, Attended, Marking, Quiet, Idle
<1>3. ASSUME NEW n \in Stored, n \in Range(nullifiers) PROVE n \in marked
  <2>1. n \in Own
    BY DEF Inv, World, Types, Stored
  <2>2. PICK k \in 1 .. Len(txs) :
          txs[k].kind = "withdraw" /\ txs[k].state = "landed" /\ txs[k].proof.note = n
    BY <1>3, <2>1 DEF Accounted, Backed, WithdrawalOf
  <2>. QED
    BY <1>1, <1>2, <2>2 DEF Written
<1>4. ASSUME NEW n \in Range(commitments), n \in created PROVE n \in Stored
  <2>1. n \in Own
    BY <1>4 DEF Accounted
  <2>2. PICK k \in 1 .. Len(txs) :
          txs[k].kind = "deposit" /\ txs[k].state = "landed" /\ txs[k].note = n
    BY <2>1 DEF Accounted, Backed, DepositOf
  <2>. QED
    BY <1>1, <2>2 DEF Written
<1>5. Stored \subseteq Range(commitments)
  BY DEF Inv, World, StoredNotesAreDeposited
<1>. QED
  BY <1>3, <1>4, <1>5

LEMMA InitiallyAccounted == Init => Accounted
<1>. SUFFICES ASSUME Init PROVE Accounted
  OBVIOUS
<1>1. created = {} /\ budget.faults = MaxFaults /\ "faults" \in DOMAIN budget
  BY DEF Init
<1>2. MaxFaults \in Nat /\ MaxFaults <= MaxFaults
  BY WalletAssumption
<1>3. Range(commitments) \cap Own = {} /\ Range(nullifiers) = {}
  <2>1. Range(Seed) \subseteq Foreign
    BY WalletAssumption DEF Range
  <2>2. commitments = Seed /\ nullifiers = <<>>
    BY DEF Init
  <2>. QED
    BY <2>1, <2>2 DEF Range, Own
<1>4. Len(txs) = 0 /\ Len(pending) = 0
  BY DEF Init
<1>5. Backed /\ Attended
  BY <1>3, <1>4 DEF Backed, Attended, Sent
<1>. QED
  BY <1>1, <1>2, <1>5 DEF Accounted

-----------------------------------------------------------------------------
(* Theorems *)

LEMMA Initially == Init => Inv
<1>. SUFFICES ASSUME Init PROVE Inv
  OBVIOUS
<1>1. Seed \in Seq(Notes)
  BY WalletAssumption, SeqMonotonic
<1>2. root \in RootValues
  <2>1. CASE Len(Seed) = 0
    BY <2>1 DEF Init, Pool!RootAfter, Pool!ZeroRoot, RootValues, Pool!RootValues
  <2>2. CASE Len(Seed) # 0
    <3>1. SubSeq(Seed, 1, Len(Seed)) \in Seq(Notes)
      BY <1>1
    <3>2. root = Pool!MerkleRoot(SubSeq(Seed, 1, Len(Seed)))
      BY <2>2 DEF Init, Pool!RootAfter
    <3>. QED
      BY <3>1, <3>2 DEF Pool!MerkleRoot, RootValues, Pool!RootValues
  <2>. QED
    BY <2>1, <2>2
<1>3. Types
  BY <1>1, <1>2 DEF Init, Types
<1>4. Landings /\ ProcessedMeansPaid /\ StoredNotesAreDeposited /\ MarkedMeansGone
  BY DEF Init, Landings, ProcessedMeansPaid, StoredNotesAreDeposited, Stored, MarkedMeansGone
<1>5. DOMAIN request = Slots /\ \A s \in Slots : RequestOK(request[s])
  BY DEF Init, RequestOK
<1>. QED
  BY <1>3, <1>4, <1>5 DEF Inv, World

LEMMA NextKeeps ==
  ASSUME Inv, [Next]_vars
  PROVE  Inv'
<1>1. ASSUME NEW s \in Slots, Step(s) PROVE Inv'
  BY <1>1, LookingKeeps, SendKeeps, StoreNoteKeeps, CreatePendingKeeps, MarkNoteSpentKeeps,
     MarkProcessedKeeps DEF Step
<1>2. ASSUME NEW s \in Slots, NEW u \in Clients, Arrive(s, u) PROVE Inv'
  BY <1>2, ArriveKeeps
<1>3. ASSUME NEW i \in 1 .. Len(txs), Land(i) \/ Reject(i) PROVE Inv'
  BY <1>3, LandKeeps, RejectKeeps
<1>4. ASSUME NEW u, NEW n \in Foreign, OthersDeposit(u, n) \/ OthersWithdraw(u, n) PROVE Inv'
  BY <1>4, OthersKeep
<1>5. CASE UNCHANGED vars
  <2>1. UNCHANGED <<commitments, nullifiers, root, database, request, txs>>
    BY <1>5 DEF vars, pool
  <2>2. UNCHANGED <<wallet, pending>>
    BY <2>1 DEF database
  <2>3. Advances
    <3>1. Len(txs) \in Nat /\ Len(pending) \in Nat
      BY DEF Inv, World, Types
    <3>. QED
      BY <2>1, <2>2, <3>1 DEF Advances, Follows
  <2>4. Types' /\ Landings'
    BY <2>1, <2>2 DEF Inv, World, Types, Landings, Effect
  <2>. QED
    BY <2>1, <2>3, <2>4, ChainKeeps
<1>. QED
  BY <1>1, <1>2, <1>3, <1>4, <1>5 DEF Next

\* In every reachable state the wallets are true to the chain, and every handler knows only
\* what cannot be undone: the handlers of deposit, withdrawSelf, sendPrivate and
\* processPendingWithdrawals taken together, with time-outs and crashes at every await.
THEOREM Invariant == Spec => []Inv
<1>1. Inv /\ [Next]_vars => Inv'
  BY NextKeeps
<1>. QED
  BY Initially, <1>1, PTL DEF Spec

\* No wallet shows a note that is not a leaf of the pool, although deposit stores the note
\* after polling for a transaction it may never hear of again.
THEOREM StoredAreDeposited == Spec => []StoredNotesAreDeposited
<1>1. Inv => StoredNotesAreDeposited
  BY DEF Inv, World
<1>. QED
  BY Invariant, <1>1, PTL

\* A note marked spent is spent on the chain or handed over: withdrawSelf marks after its
\* transaction landed or on NullifierUsed, sendPrivate after the proof was stored.
THEOREM MarkedAreGone == Spec => []MarkedMeansGone
<1>1. Inv => MarkedMeansGone
  BY DEF Inv, World
<1>. QED
  BY Invariant, <1>1, PTL

\* A payment that reads processed was paid to its recipient, with its own proof, whatever
\* the loop of processPendingWithdrawals went through before and after it.
THEOREM ProcessedArePaid == Spec => []ProcessedMeansPaid
<1>1. Inv => ProcessedMeansPaid
  BY DEF Inv, World
<1>. QED
  BY Invariant, <1>1, PTL

\* While no handler died or gave up, the wallets agree with the chain as soon as all requests
\* are answered: a note they still offer is unspent, and a note whose deposit landed is in its
\* wallet.  Every transaction that is not dead is written down or waited for, by the handler
\* that sent it; every note handed over is marked or about to be.
THEOREM WalletsAgree == Spec => []QuietWalletsAgree
<1>1. Init => Inv /\ Accounted
  BY Initially, InitiallyAccounted
<1>2. (Inv /\ Accounted) /\ [Next]_vars => (Inv /\ Accounted)'
  <2>1. Inv /\ [Next]_vars => Inv'
    BY NextKeeps
  <2>2. Inv /\ Accounted /\ [Next]_vars => Accounted'
    BY NextAccounts
  <2>. QED
    BY <2>1, <2>2
<1>3. Inv /\ Accounted => QuietWalletsAgree
  BY AccountedMeansAgreed
<1>. QED
  BY <1>1, <1>2, <1>3, PTL DEF Spec
=============================================================================
