---------------------------- MODULE UsersService ----------------------------
(***************************************************************************)
(* The custodial wallet of the API (apps/api/src/users/users.service.ts)   *)
(* over one shielded pool: deposit, withdrawSelf, sendPrivate and          *)
(* processPendingWithdrawals.  The wallet keeps what the chain does not    *)
(* know, the secrets of the notes, and must follow what the chain does     *)
(* know, which of them are spent; it does so across reads of the root and  *)
(* of the leaves that other transactions come between, time-outs of        *)
(* transactions that take effect later, and handlers that die.             *)
(*                                                                         *)
(* A note a client creates is fresh (its secrets are random), and values   *)
(* are exact: a request names an amount, and only a note of that value is  *)
(* used.  splitNote is a withdrawSelf followed by a deposit and keeps      *)
(* nothing of its own in between.  EncryptedNotes, which only feed the     *)
(* history, are left out.                                                  *)
(***************************************************************************)
EXTENDS Integers, Sequences, FiniteSets, Functions

CONSTANTS
  Notes, Value, Worth, Users, PoolAddress, NoAdmin, Admins, InitialTokens,
  MaxRoots, MaxLeaves, \* as in ShieldedPool
  Clients,     \* the users of the modelled wallets; the other users are outsiders
  Seed,        \* the leaves the pool has at first, notes of outsiders
  Foreign,     \* the notes of outsiders
  Slots,       \* request handlers that can run at the same time
  MaxRequests, \* bound: requests made in a behaviour
  MaxFaults    \* bound: handlers that die, or give up on a pending transaction

ASSUME WalletAssumption ==
  /\ Clients \subseteq Users
  /\ Foreign \subseteq Notes
  /\ Seed \in Seq(Foreign) /\ Len(Seed) < MaxRoots
  /\ MaxRequests \in Nat /\ MaxFaults \in Nat

VARIABLES
  admin, root, roots, commitments, nullifiers, tokens, \* as in ShieldedPool
  created,  \* the notes whose secrets clients have drawn
  wallet,   \* wallet[u]: the SpendableNotes of u
  marked,   \* SpendableNotes with spent = true
  pending,  \* the PendingWithdrawals, oldest first
  request,  \* request[s]: the handler running in slot s
  txs,      \* the transactions sent, in order
  budget    \* what is left of the bounds

pool == <<admin, root, roots, commitments, nullifiers, tokens>>
database == <<wallet, marked, pending>>
vars == <<pool, created, database, request, txs, budget>>

Pool == INSTANCE ShieldedPool

Idle == [at |-> "idle"]

Init ==
  /\ admin \in Admins
  /\ commitments = Seed
  /\ root = Pool!RootAfter(Seed, Len(Seed))
  /\ roots = [i \in 1 .. Len(Seed) + 1 |-> Pool!RootAfter(Seed, i - 1)]
  /\ nullifiers = <<>>
  /\ tokens = [a \in Users \cup {PoolAddress} |->
                 IF a = PoolAddress THEN Worth[Range(Seed)] ELSE InitialTokens[a]]
  /\ created = {}
  /\ wallet = [u \in Clients |-> {}] /\ marked = {} /\ pending = <<>>
  /\ request = [s \in Slots |-> Idle]
  /\ txs = <<>>
  /\ budget = [requests |-> MaxRequests, faults |-> MaxFaults]

-----------------------------------------------------------------------------
(* Handlers.  A handler is a record: the await it is at, and what it         *)
(* remembers.  Code between two awaits is one step.                          *)

Handler(job, u, n, recipient) ==
  [at |-> "root", job |-> job, user |-> u, note |-> n, recipient |-> recipient,
   root |-> Pool!ZeroRoot, todo |-> <<>>, tx |-> 0]

Begin(s, state) ==
  /\ request[s] = Idle
  /\ budget.requests > 0
  /\ budget' = [budget EXCEPT !.requests = @ - 1]
  /\ request' = [request EXCEPT ![s] = state]

Continue(s, state) == request' = [request EXCEPT ![s] = state] /\ UNCHANGED budget

Goto(s, at) == Continue(s, [request[s] EXCEPT !.at = at])

\* deposit: the secrets of a new note are drawn.
DepositBegin(s, u, n) ==
  /\ n \notin created
  /\ created' = created \cup {n}
  /\ Begin(s, Handler("deposit", u, n, u))
  /\ UNCHANGED <<pool, database, txs>>

\* withdrawSelf and sendPrivate: a note that is not marked spent is picked.
PickNote(s, job, u, n, recipient) ==
  /\ n \in wallet[u] \ marked
  /\ Begin(s, Handler(job, u, n, recipient))
  /\ UNCHANGED <<pool, created, database, txs>>

\* The first of the two reads of the pool; transactions may land before the second.
ReadRoot(s) ==
  /\ request[s].at = "root"
  /\ Continue(s, [request[s] EXCEPT !.at = "leaves", !.root = root])
  /\ UNCHANGED <<pool, created, database, txs>>

\* The root read first is that of the leaves read now.
Consistent(q) == q.root = Pool!MerkleRoot(commitments)

\* Without it deposit and sendPrivate end in an error, and withdrawSelf reads
\* again, up to 60 times.  The note must be among the leaves, too.
ReadLeaves(s) ==
  LET q == request[s]
      usable == Consistent(q) /\ (q.job = "deposit" \/ q.note \in Range(commitments))
  IN
  /\ q.at = "leaves"
  /\ \/ usable /\ Goto(s, IF q.job = "sendPrivate" THEN "create" ELSE "send")
     \/ ~usable /\ q.job = "withdrawSelf" /\ Goto(s, "root")
     \/ ~usable /\ Continue(s, Idle)
  /\ UNCHANGED <<pool, created, database, txs>>

-----------------------------------------------------------------------------
(* Transactions *)

\* The proof of the whole note, under the root that was read, for the recipient.
ProofOf(q) == Pool!Proof(q.note, q.root, Value[q.note], q.recipient)

TxOf(q) ==
  IF q.job = "deposit"
    THEN [kind |-> "deposit", state |-> "pending", from |-> q.user, note |-> q.note,
          previous |-> q.root,
          new |-> Pool!MerkleRoot(Append(q.root.leaves, q.note))]
    ELSE [kind |-> "withdraw", state |-> "pending", to |-> q.user,
          proof |-> IF q.job = "process" THEN pending[Head(q.todo)].proof ELSE ProofOf(q)]

\* What the simulation before sending answers.
Simulation(tx) ==
  IF tx.kind = "withdraw" THEN Pool!WithdrawResult(tx.to, tx.proof, tx.proof.note)
  ELSE IF Pool!IsCurrentTransition(tx.previous, tx.new) /\ tokens[tx.from] >= Value[tx.note]
    THEN "Ok" ELSE "Refused"

\* A transaction takes effect, however long after its handler gave up on it.
Land(i) ==
  LET tx == txs[i] IN
  /\ tx.state = "pending"
  /\ \/ /\ tx.kind = "deposit"
        /\ Pool!Deposit(tx.from, tx.note, tx.previous, tx.new, Value[tx.note])
     \/ /\ tx.kind = "withdraw"
        /\ Pool!Withdraw(tx.to, tx.proof, tx.proof.note)
  /\ txs' = [txs EXCEPT ![i].state = "landed"]
  /\ UNCHANGED <<created, database, request, budget>>

\* A transaction is refused, or its time bound passes.
Reject(i) ==
  /\ txs[i].state = "pending"
  /\ txs' = [txs EXCEPT ![i].state = "dead"]
  /\ UNCHANGED <<pool, created, database, request, budget>>

\* Where a handler goes when its transaction fails: the loop of
\* processPendingWithdrawals goes on to the next one, the others end.
NextItem(q) ==
  IF q.job = "process" /\ Len(q.todo) > 1
    THEN [q EXCEPT !.at = "send", !.todo = Tail(@)]
    ELSE Idle

\* Faulty variant: withdrawSelf takes any refusal for a spent note.
SendMarksIfRefused(s) ==
  LET q == request[s]
      answer == Simulation(TxOf(q))
  IN
  /\ q.at = "send"
  /\ \/ /\ answer = "Ok"
        /\ txs' = Append(txs, TxOf(q))
        /\ Continue(s, [q EXCEPT !.at = "wait", !.tx = Len(txs) + 1])
     \/ /\ answer # "Ok" /\ q.job = "withdrawSelf"
        /\ Goto(s, "mark")
        /\ UNCHANGED txs
     \/ /\ answer # "Ok" /\ q.job # "withdrawSelf"
        /\ Continue(s, NextItem(q))
        /\ UNCHANGED txs
  /\ UNCHANGED <<pool, created, database>>

\* The transaction is simulated and sent.  When the simulation says NullifierUsed,
\* withdrawSelf marks the note, which must have been spent before.
Send(s) ==
  LET q == request[s]
      answer == Simulation(TxOf(q))
  IN
  /\ q.at = "send"
  /\ \/ /\ answer = "Ok"
        /\ txs' = Append(txs, TxOf(q))
        /\ Continue(s, [q EXCEPT !.at = "wait", !.tx = Len(txs) + 1])
     \/ /\ answer = "NullifierUsed" /\ q.job = "withdrawSelf"
        /\ Goto(s, "mark")
        /\ UNCHANGED txs
     \/ /\ answer # "Ok" /\ ~(answer = "NullifierUsed" /\ q.job = "withdrawSelf")
        /\ Continue(s, NextItem(q))
        /\ UNCHANGED txs
  /\ UNCHANGED <<pool, created, database>>

\* Faulty variant: a transaction that was sent counts as done.
OutcomeAssumed(s) ==
  /\ request[s].at = "wait"
  /\ Goto(s, "done")
  /\ UNCHANGED <<pool, created, database, txs>>

\* The handler learns the outcome.
Outcome(s) ==
  LET q == request[s] IN
  /\ q.at = "wait"
  /\ \/ txs[q.tx].state = "landed" /\ Goto(s, "done")
     \/ txs[q.tx].state = "dead" /\ Continue(s, NextItem(q))
  /\ UNCHANGED <<pool, created, database, txs>>

\* The handler gives up; the transaction may still land.
GiveUp(s) ==
  LET q == request[s] IN
  /\ q.at = "wait"
  /\ txs[q.tx].state = "pending"
  /\ budget.faults > 0
  /\ budget' = [budget EXCEPT !.faults = @ - 1]
  /\ request' = [request EXCEPT ![s] = NextItem(q)]
  /\ UNCHANGED <<pool, created, database, txs>>

-----------------------------------------------------------------------------
(* What is written to the database afterwards *)

\* deposit stores the note, once its commitment is known to be on the chain.
StoreNote(s) ==
  LET q == request[s] IN
  /\ q.at = "done" /\ q.job = "deposit"
  /\ wallet' = [wallet EXCEPT ![q.user] = @ \cup {q.note}]
  /\ Continue(s, Idle)
  /\ UNCHANGED <<pool, created, marked, pending, txs>>

\* sendPrivate hands the proof over to the recipient, then marks the note.
CreatePending(s) ==
  LET q == request[s] IN
  /\ q.at = "create"
  /\ pending' = Append(pending, [to |-> q.recipient, proof |-> ProofOf(q), processed |-> FALSE])
  /\ Goto(s, "mark")
  /\ UNCHANGED <<pool, created, wallet, marked, txs>>

\* Faulty variant: a withdrawal that succeeded leaves the note unmarked.
MarkNoteSpentUnlessPaid(s) ==
  LET q == request[s] IN
  /\ q.at = "mark" \/ (q.at = "done" /\ q.job = "withdrawSelf")
  /\ marked' = IF q.at = "mark" THEN marked \cup {q.note} ELSE marked
  /\ Continue(s, Idle)
  /\ UNCHANGED <<pool, created, wallet, pending, txs>>

\* After the proof was handed over, the withdrawal landed, or the contract answered
\* NullifierUsed.
MarkNoteSpent(s) ==
  LET q == request[s] IN
  /\ q.at = "mark" \/ (q.at = "done" /\ q.job = "withdrawSelf")
  /\ marked' = marked \cup {q.note}
  /\ Continue(s, Idle)
  /\ UNCHANGED <<pool, created, wallet, pending, txs>>

\* The unprocessed withdrawals to u, as positions in pending.
Unprocessed(u) == {i \in 1 .. Len(pending) : pending[i].to = u /\ ~pending[i].processed}

\* processPendingWithdrawals: the unprocessed ones are loaded, and sent in order.
ProcessBegin(s, u) ==
  \E todo \in [1 .. Cardinality(Unprocessed(u)) -> Unprocessed(u)] :
    /\ todo # <<>>
    /\ \A i, j \in DOMAIN todo : i < j => todo[i] < todo[j]
    /\ Begin(s, [Handler("process", u, pending[Head(todo)].proof.note, u)
                   EXCEPT !.at = "send", !.todo = todo])
    /\ UNCHANGED <<pool, created, database, txs>>

\* Faulty variant: the whole list is marked when its first transaction lands.
MarkProcessedAll(s) ==
  LET q == request[s] IN
  /\ q.at = "done" /\ q.job = "process"
  /\ pending' = [i \in 1 .. Len(pending) |->
       IF i \in Range(q.todo) THEN [pending[i] EXCEPT !.processed = TRUE] ELSE pending[i]]
  /\ Continue(s, NextItem(q))
  /\ UNCHANGED <<pool, created, wallet, marked, txs>>

MarkProcessed(s) ==
  LET q == request[s] IN
  /\ q.at = "done" /\ q.job = "process"
  /\ pending' = [pending EXCEPT ![Head(q.todo)].processed = TRUE]
  /\ Continue(s, NextItem(q))
  /\ UNCHANGED <<pool, created, wallet, marked, txs>>

\* The process of a handler is stopped between two steps.
Crash(s) ==
  /\ request[s] # Idle
  /\ budget.faults > 0
  /\ budget' = [budget EXCEPT !.faults = @ - 1]
  /\ request' = [request EXCEPT ![s] = Idle]
  /\ UNCHANGED <<pool, created, database, txs>>

-----------------------------------------------------------------------------
(* Outsiders use the pool too, with notes of their own. *)

OthersDeposit(u, n) ==
  /\ n \notin Range(commitments)
  /\ Pool!Deposit(u, n, root, Pool!MerkleRoot(Append(commitments, n)), Value[n])
  /\ UNCHANGED <<created, database, request, txs, budget>>

OthersWithdraw(u, n) ==
  /\ Pool!Withdraw(u, Pool!Proof(n, root, Value[n], u), n)
  /\ UNCHANGED <<created, database, request, txs, budget>>

Arrive(s, u) ==
  \/ \E n \in Notes \ Foreign :
       \/ DepositBegin(s, u, n)
       \/ PickNote(s, "withdrawSelf", u, n, u)
       \/ \E recipient \in Clients : PickNote(s, "sendPrivate", u, n, recipient)
  \/ ProcessBegin(s, u)

Step(s) ==
  \/ ReadRoot(s) \/ ReadLeaves(s) \/ Send(s) \/ Outcome(s) \/ GiveUp(s)
  \/ StoreNote(s) \/ CreatePending(s) \/ MarkNoteSpent(s) \/ MarkProcessed(s)
  \/ Crash(s)

Next ==
  \/ \E s \in Slots : Step(s) \/ \E u \in Clients : Arrive(s, u)
  \/ \E i \in 1 .. Len(txs) : Land(i) \/ Reject(i)
  \/ \E u \in Users \ Clients, n \in Foreign : OthersDeposit(u, n) \/ OthersWithdraw(u, n)

Spec == Init /\ [][Next]_vars

-----------------------------------------------------------------------------
(* Properties *)

Stored == UNION {wallet[u] : u \in Clients}
Sent == {pending[i].proof.note : i \in 1 .. Len(pending)}

\* A wallet only shows notes that are leaves of the pool, although the handler
\* that stores one learns of the deposit by polling and may be told nothing.
StoredNotesAreDeposited == Stored \subseteq Range(commitments)

\* A note is not taken from a wallet for nothing: one that is marked spent is spent
\* on the chain, or its proof was handed to a recipient, whatever was refused,
\* timed out or died on the way.
MarkedMeansGone == marked \subseteq Range(nullifiers) \cup Sent

\* A pending withdrawal reads processed only when its recipient has been paid.
ProcessedMeansPaid ==
  \A i \in 1 .. Len(pending) :
    pending[i].processed =>
      \E k \in 1 .. Len(txs) :
        /\ txs[k].kind = "withdraw" /\ txs[k].state = "landed"
        /\ txs[k].to = pending[i].to /\ txs[k].proof = pending[i].proof

Quiet ==
  /\ \A s \in Slots : request[s] = Idle
  /\ \A i \in 1 .. Len(txs) : txs[i].state # "pending"

\* Without faults, once all requests are answered the wallets agree with the chain:
\* the notes they offer are live, and every note a client deposited is in a wallet.
QuietWalletsAgree ==
  (Quiet /\ budget.faults = MaxFaults) =>
    /\ Stored \ marked \subseteq Range(commitments) \ Range(nullifiers)
    /\ Range(commitments) \cap created \subseteq Stored

\* deposit is refused with "Pool root changed while preparing deposit" only when the
\* root did change since it was read.
RefusedOnlyIfRootChanged ==
  \A s \in Slots :
    (request[s] # Idle /\ request[s].at = "leaves" /\ request[s].job = "deposit"
       /\ request[s].root = root) => Consistent(request[s])

\* What getPrivateBalance counts as received and only to be claimed can be claimed.
ReceivedIsClaimable ==
  Quiet =>
    \A i \in 1 .. Len(pending) :
      ~pending[i].processed =>
        Pool!WithdrawResult(pending[i].to, pending[i].proof, pending[i].proof.note) = "Ok"

\* A note is "consumed when user sends privately": it is sent to one recipient once.
SentOnce ==
  \A i, j \in 1 .. Len(pending) :
    pending[i].proof.note = pending[j].proof.note => i = j
=============================================================================
