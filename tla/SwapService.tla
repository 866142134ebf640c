---------------------------- MODULE SwapService ----------------------------
(***************************************************************************)
(* One swap between Alice and Bob as the API runs it                       *)
(* (apps/api/src/swap/swap.service.ts), from the moment request() stored   *)
(* it.  Requests run concurrently: a handler loads the swap document,      *)
(* awaits other things, and saves the document later.  Mongoose writes     *)
(* only the fields the handler changed since it loaded the document, and   *)
(* checks no version, so each handler step here is the code between two    *)
(* awaits that other requests can observe.                                 *)
(*                                                                         *)
(* The chain is the part of ZkSwap and ShieldedPool that decides whether   *)
(* an execution is accepted: how many leaves each pool has, which notes    *)
(* are spent, and which transactions are under way.  Fields no guard reads *)
(* (executionStatus, dates, actors, errors) and the audit records are left *)
(* out, and so is the offer.                                               *)
(***************************************************************************)
EXTENDS Integers, Sequences, FiniteSets

CONSTANTS
  Slots,        \* request handlers that can run at the same time
  Notes,        \* Notes[r]: the notes of exactly the agreed amount that r owns
  MaxRequests,  \* bound: requests made in a behaviour
  MaxAppends,   \* bound: leaves that others append to the pools
  MaxFaults     \* bound: handlers that die between two steps, or on an audit record

Roles == {"alice", "bob"}

ASSUME SwapAssumption ==
  /\ DOMAIN Notes = Roles
  /\ Notes["alice"] \cap Notes["bob"] = {}
  /\ MaxRequests \in Nat /\ MaxAppends \in Nat /\ MaxFaults \in Nat

VARIABLES
  swap,       \* the document in the database
  request,    \* request[s]: the handler running in slot s
  saved,      \* output notes stored in the wallets (saveNote)
  marked,     \* input notes marked spent in the wallets (markNoteSpent)
  generated,  \* how many output notes generateNote has made
  txs,        \* the transactions sent, in order; a hash is a position here
  leaves,     \* leaves[r]: leaves in the pool of the asset r pays with
  spent,      \* notes whose nullifiers are on the chain
  sequence,   \* the sequence number of Bob's Stellar account
  budget      \* what is left of the bounds

wallets == <<saved, marked, generated>>
chain == <<txs, leaves, spent, sequence>>
vars == <<swap, request, wallets, chain, budget>>

Counterparty == [alice |-> "bob", bob |-> "alice"]
ProofOf == [alice |-> "aliceProof", bob |-> "bobProof"]
OutputOf == [alice |-> "aliceOutput", bob |-> "bobOutput"]

NoTx == 0
NoOutput == 0
NoProof == [note |-> "none", leaves |-> 0, binding |-> NoOutput]

Idle == [at |-> "idle"]

-----------------------------------------------------------------------------
(* The document *)

Init ==
  /\ swap = [status |-> "requested", proofStatus |-> "awaiting_acceptance",
             txHash |-> NoTx,
             aliceProof |-> NoProof, bobProof |-> NoProof,
             aliceOutput |-> NoOutput, bobOutput |-> NoOutput]
  /\ request = [s \in Slots |-> Idle]
  /\ saved = {} /\ marked = {} /\ generated = 0
  /\ txs = <<>> /\ leaves = [r \in Roles |-> 1] /\ spent = {} /\ sequence = 0
  /\ budget = [requests |-> MaxRequests, appends |-> MaxAppends, faults |-> MaxFaults]

\* swap.save() of a document loaded as old and changed to new.
Save(old, new) ==
  swap' = [f \in DOMAIN swap |-> IF new[f] # old[f] THEN new[f] ELSE swap[f]]

ComputeProofStatus(doc) ==
  IF doc.status = "requested" THEN "awaiting_acceptance"
  ELSE IF doc.aliceProof # NoProof /\ doc.bobProof # NoProof THEN "ready"
  ELSE IF doc.aliceProof # NoProof THEN "awaiting_bob"
  ELSE IF doc.bobProof # NoProof THEN "awaiting_alice"
  ELSE "awaiting_both"

IsProofCollectionState(doc) == doc.status \in {"proofs_pending", "proofs_ready"}

IsExecutionReady(doc) == doc.status = "proofs_ready" \/ doc.proofStatus = "ready"

\* A request arrives and its handler runs up to its first await.
Begin(s, state) ==
  /\ request[s] = Idle
  /\ budget.requests > 0
  /\ budget' = [budget EXCEPT !.requests = @ - 1]
  /\ request' = [request EXCEPT ![s] = state]

Continue(s, state) == request' = [request EXCEPT ![s] = state] /\ UNCHANGED budget

\* The handler in s goes no further, and nothing is tidied up.
Fault(s) ==
  /\ budget.faults > 0
  /\ budget' = [budget EXCEPT !.faults = @ - 1]
  /\ request' = [request EXCEPT ![s] = Idle]

-----------------------------------------------------------------------------
(* accept: nothing but the caller is checked, in whatever state the swap is. *)

AcceptLoad(s) ==
  /\ Begin(s, [at |-> "accept", doc |-> swap])
  /\ UNCHANGED <<swap, wallets, chain>>

AcceptSave(s) ==
  LET doc == request[s].doc IN
  /\ request[s].at = "accept"
  /\ Save(doc, [doc EXCEPT !.status = "proofs_pending", !.proofStatus = "awaiting_both"])
  /\ Continue(s, Idle)
  /\ UNCHANGED <<wallets, chain>>

-----------------------------------------------------------------------------
(* prepareMyProof and the submitSwapProof it ends in.  A client that submits  *)
(* a proof of its own is a handler that paused before SubmitLoad.             *)

PrepareLoad(s, r) ==
  /\ IsProofCollectionState(swap)
  /\ Begin(s, [at |-> "output", role |-> r, doc |-> swap])
  /\ UNCHANGED <<swap, wallets, chain>>

\* The counterparty's output note: the one in the loaded document, or a new one.
EnsureOutputNote(s) ==
  LET r == request[s].role
      doc == request[s].doc
      field == OutputOf[Counterparty[r]]
      output == IF doc[field] # NoOutput THEN doc[field] ELSE generated + 1
  IN
  /\ request[s].at = "output"
  /\ Save(doc, [doc EXCEPT ![field] = output])
  /\ generated' = IF doc[field] # NoOutput THEN generated ELSE generated + 1
  /\ Continue(s, [at |-> "prove", role |-> r, binding |-> output])
  /\ UNCHANGED <<saved, marked, chain>>

\* An unspent note of the exact amount, proven under the current root and bound
\* to the output note.  Without such a note, or when the root and the leaves read
\* do not agree after 20 tries, the request ends.
GenerateProof(s) ==
  LET r == request[s].role IN
  /\ request[s].at = "prove"
  /\ \/ \E n \in Notes[r] \ marked :
          Continue(s, [at |-> "submit", role |-> r,
                       proof |-> [note |-> n, leaves |-> leaves[r],
                                  binding |-> request[s].binding]])
     \/ Continue(s, Idle)
  /\ UNCHANGED <<swap, wallets, chain>>

SubmitLoad(s) ==
  LET r == request[s].role
      proof == request[s].proof
  IN
  /\ request[s].at = "submit"
  /\ IF IsProofCollectionState(swap) /\ proof.binding = swap[OutputOf[Counterparty[r]]]
       THEN Continue(s, [at |-> "store", role |-> r, proof |-> proof, doc |-> swap])
       ELSE Continue(s, Idle)
  /\ UNCHANGED <<swap, wallets, chain>>

WithProof(doc, r, proof) ==
  LET new == [doc EXCEPT ![ProofOf[r]] = proof]
      proofStatus == ComputeProofStatus(new)
  IN [new EXCEPT !.proofStatus = proofStatus,
                 !.status = IF proofStatus = "ready" THEN "proofs_ready" ELSE "proofs_pending"]

\* Faulty variant: one proof is enough to be ready.
SubmitSaveReadyAtOnce(s) ==
  LET q == request[s] IN
  /\ q.at = "store"
  /\ Save(q.doc, [q.doc EXCEPT ![ProofOf[q.role]] = q.proof,
                               !.proofStatus = "ready", !.status = "proofs_ready"])
  /\ Continue(s, Idle)
  /\ UNCHANGED <<wallets, chain>>

SubmitSave(s) ==
  LET q == request[s] IN
  /\ q.at = "store"
  /\ Save(q.doc, WithProof(q.doc, q.role, q.proof))
  /\ Continue(s, Idle)
  /\ UNCHANGED <<wallets, chain>>

-----------------------------------------------------------------------------
(* The chain.  A public settlement pays both legs in one transaction of     *)
(* Bob's account.  A private one is ZkSwap!Execute: each proof must be made *)
(* under the current root of its pool, spend an unspent note, and be bound  *)
(* to the output it is sent with.                                           *)

Accepted(tx) ==
  IF tx.kind = "public" THEN tx.sequence = sequence
  ELSE \A r \in Roles :
         /\ tx.proof[r].leaves = leaves[r]
         /\ tx.proof[r].note \notin spent
         /\ tx.proof[r].binding = tx.output[Counterparty[r]]

\* A transaction takes effect, however long after its handler gave up on it.
Land(i) ==
  /\ txs[i].state = "pending"
  /\ Accepted(txs[i])
  /\ txs' = [txs EXCEPT ![i].state = "landed"]
  /\ IF txs[i].kind = "public"
       THEN sequence' = sequence + 1 /\ UNCHANGED <<leaves, spent>>
       ELSE /\ leaves' = [r \in Roles |-> leaves[r] + 1]
            /\ spent' = spent \cup {txs[i].proof[r].note : r \in Roles}
            /\ UNCHANGED sequence
  /\ UNCHANGED <<swap, request, wallets, budget>>

\* A transaction is refused, or its time bound passes.
Reject(i) ==
  /\ txs[i].state = "pending"
  /\ txs' = [txs EXCEPT ![i].state = "dead"]
  /\ UNCHANGED <<swap, request, wallets, leaves, spent, sequence, budget>>

\* Another user's deposit or swap appends a leaf to a pool.
OthersAppend(r) ==
  /\ budget.appends > 0
  /\ budget' = [budget EXCEPT !.appends = @ - 1]
  /\ leaves' = [leaves EXCEPT ![r] = @ + 1]
  /\ UNCHANGED <<swap, request, wallets, txs, spent, sequence>>

-----------------------------------------------------------------------------
(* executeSwap and executeSwapPrivate *)

PublicLoad(s) ==
  /\ IsExecutionReady(swap)
  /\ Begin(s, [at |-> "execute", kind |-> "public", doc |-> swap])
  /\ UNCHANGED <<swap, wallets, chain>>

\* Proofs that a client may send along: made of one of the party's notes under the current
\* root, for the output note prepared for the other party.
ClientProofs(r) ==
  [note : Notes[r], leaves : {leaves[r]},
   binding : {swap[OutputOf[Counterparty[r]]]} \ {NoOutput}]

\* The controller takes the six fields of the two proofs from the request, or else from the
\* document if both are there; then the service loads the document again.
PrivateLoadProofs(s) ==
  /\ \/ \E a \in ClientProofs("alice"), b \in ClientProofs("bob") :
          Begin(s, [at |-> "claim", proof |-> [alice |-> a, bob |-> b]])
     \/ /\ \A r \in Roles : swap[ProofOf[r]] # NoProof
        /\ Begin(s, [at |-> "claim", proof |-> [r \in Roles |-> swap[ProofOf[r]]]])
  /\ UNCHANGED <<swap, wallets, chain>>

PrivateLoad(s) ==
  /\ request[s].at = "claim"
  /\ IF IsExecutionReady(swap)
       THEN Continue(s, [at |-> "execute", kind |-> "private", doc |-> swap,
                         proof |-> request[s].proof])
       ELSE Continue(s, Idle)
  /\ UNCHANGED <<swap, wallets, chain>>

\* The swap is saved as executing, before anything is looked up for the transaction.  The
\* audit record is written next, outside the try: if that fails the handler ends here.
MarkExecuting(s) ==
  LET q == request[s]
      executing == [q.doc EXCEPT !.status = "executing"]
  IN
  /\ q.at = "execute"
  /\ Save(q.doc, executing)
  /\ \/ Continue(s, [q EXCEPT !.at = "send", !.doc = executing])
     \/ Fault(s)
  /\ UNCHANGED <<wallets, chain>>

\* The payments, from Bob's account as it is now, or the call of the swap contract
\* with the proofs and the outputs that were loaded.
TxOf(q) ==
  IF q.kind = "public"
    THEN [kind |-> "public", state |-> "pending", sequence |-> sequence]
    ELSE [kind |-> "private", state |-> "pending", proof |-> q.proof,
          output |-> [r \in Roles |-> q.doc[OutputOf[r]]]]

\* Faulty variant: the input notes are marked spent before the outcome is known.
SendMarksInputs(s) ==
  LET q == request[s] IN
  /\ q.at = "send"
  /\ txs' = Append(txs, TxOf(q))
  /\ marked' = IF q.kind = "public" THEN marked
               ELSE marked \cup {q.proof[r].note : r \in Roles}
  /\ Continue(s, [at |-> "wait", hash |-> Len(txs) + 1, doc |-> q.doc])
  /\ UNCHANGED <<swap, saved, generated, leaves, spent, sequence>>

\* The transaction leaves.  One that the simulation refuses is one that is rejected.
Send(s) ==
  LET q == request[s] IN
  /\ q.at = "send"
  /\ txs' = Append(txs, TxOf(q))
  /\ Continue(s, [at |-> "wait", hash |-> Len(txs) + 1, doc |-> q.doc])
  /\ UNCHANGED <<swap, wallets, leaves, spent, sequence>>

\* Faulty variant: the handler waits for as long as it takes.
OutcomeWithoutTimeout(s) ==
  LET q == request[s]
      tx == txs[q.hash]
      next == IF tx.state # "landed" THEN "fail"
              ELSE IF tx.kind = "public" THEN "confirm" ELSE "credit"
  IN
  /\ q.at = "wait"
  /\ tx.state # "pending"
  /\ Continue(s, [q EXCEPT !.at = next])
  /\ UNCHANGED <<swap, wallets, chain>>

\* Faulty variant: a transaction that was sent counts as done.
OutcomeAssumed(s) ==
  LET q == request[s] IN
  /\ q.at = "wait"
  /\ Continue(s, [q EXCEPT !.at = IF txs[q.hash].kind = "public" THEN "confirm" ELSE "credit"])
  /\ UNCHANGED <<swap, wallets, chain>>

\* The handler learns the outcome, or gives up while the transaction is pending.
Outcome(s) ==
  LET q == request[s]
      tx == txs[q.hash]
      next == IF tx.state # "landed" THEN "fail"
              ELSE IF tx.kind = "public" THEN "confirm" ELSE "credit"
  IN
  /\ q.at = "wait"
  /\ Continue(s, [q EXCEPT !.at = next])
  /\ UNCHANGED <<swap, wallets, chain>>

\* Faulty variant: a failure to store a note is swallowed like one to mark it.
CreditSwallowing(s) ==
  LET q == request[s]
      output == txs[q.hash].output
  IN
  /\ q.at = "credit"
  /\ \E stored \in {{}, {output["alice"]}, {output[r] : r \in Roles}} :
       saved' = saved \cup stored
  /\ Continue(s, [q EXCEPT !.at = "confirm"])
  /\ UNCHANGED <<swap, marked, generated, chain>>

\* After a private swap the output notes are stored, Alice's first, and the offer is taken
\* down; a failure there fails the swap.  A failure to mark the input notes is swallowed.
Credit(s) ==
  LET q == request[s]
      output == txs[q.hash].output
      proof == txs[q.hash].proof
  IN
  /\ q.at = "credit"
  /\ \/ /\ saved' = saved \cup {output[r] : r \in Roles}
        /\ \E n \in {<<>>, <<"alice">>, <<"alice", "bob">>} :
             marked' = marked \cup {proof[n[i]].note : i \in 1 .. Len(n)}
        /\ Continue(s, [q EXCEPT !.at = "confirm"])
     \/ /\ \E stored \in {{}, {output["alice"]}, {output[r] : r \in Roles}} : saved' = saved \cup stored
        /\ Continue(s, [q EXCEPT !.at = "fail"])
        /\ UNCHANGED marked
  /\ UNCHANGED <<swap, generated, chain>>

\* The swap is saved as completed; if what follows fails, the catch block fails it.
Confirm(s) ==
  LET q == request[s]
      completed == [q.doc EXCEPT !.status = "completed", !.txHash = q.hash,
                      !.proofStatus = IF txs[q.hash].kind = "public"
                                      THEN ComputeProofStatus(q.doc) ELSE @]
  IN
  /\ q.at = "confirm"
  /\ Save(q.doc, completed)
  /\ \/ Continue(s, Idle)
     \/ Continue(s, [q EXCEPT !.at = "fail", !.doc = completed])
  /\ UNCHANGED <<wallets, chain>>

Fail(s) ==
  LET doc == request[s].doc IN
  /\ request[s].at = "fail"
  /\ Save(doc, [doc EXCEPT !.status = "failed"])
  /\ Continue(s, Idle)
  /\ UNCHANGED <<wallets, chain>>

-----------------------------------------------------------------------------
(* complete: a party reports the hash of a payment it found on the network. *)

\* verifyPublicSwapSettlement: the transaction succeeded and holds both payments.
Settles(i) == txs[i].state = "landed" /\ txs[i].kind = "public"

CompleteLoad(s, i) ==
  /\ swap.status \in {"executing", "proofs_ready"}
  /\ Settles(i)
  /\ Begin(s, [at |-> "complete", hash |-> i, doc |-> swap])
  /\ UNCHANGED <<swap, wallets, chain>>

CompleteSave(s) ==
  LET q == request[s] IN
  /\ q.at = "complete"
  /\ Save(q.doc, [q.doc EXCEPT !.status = "completed", !.txHash = q.hash])
  /\ Continue(s, Idle)
  /\ UNCHANGED <<wallets, chain>>

\* The process of a handler is stopped between two steps.
Crash(s) ==
  /\ request[s] # Idle
  /\ Fault(s)
  /\ UNCHANGED <<swap, wallets, chain>>

-----------------------------------------------------------------------------
Arrive(s) ==
  \/ AcceptLoad(s)
  \/ \E r \in Roles : PrepareLoad(s, r)
  \/ PublicLoad(s)
  \/ PrivateLoadProofs(s)
  \/ \E i \in 1 .. Len(txs) : CompleteLoad(s, i)

Step(s) ==
  \/ AcceptSave(s)
  \/ EnsureOutputNote(s) \/ GenerateProof(s) \/ SubmitLoad(s) \/ SubmitSave(s)
  \/ PrivateLoad(s) \/ MarkExecuting(s) \/ Send(s) \/ Outcome(s) \/ Credit(s) \/ Confirm(s) \/ Fail(s)
  \/ CompleteSave(s)

Next ==
  \/ \E s \in Slots : Arrive(s) \/ Step(s) \/ Crash(s)
  \/ \E i \in 1 .. Len(txs) : Land(i) \/ Reject(i)
  \/ \E r \in Roles : OthersAppend(r)

\* Every await of a handler ends: calls to the database return, and a wait for a
\* transaction has a timeout.  Nothing is assumed of clients or of the chain.
Spec == Init /\ [][Next]_vars /\ \A s \in Slots : WF_vars(Step(s))

-----------------------------------------------------------------------------
(* Properties *)

Landed(i) == txs[i].state = "landed"

\* A swap reads completed only when the transaction it names took effect, however
\* many executions and reports raced, and whatever handlers died on the way.
CompletedMeansSettled ==
  swap.status = "completed" => swap.txHash # NoTx /\ Landed(swap.txHash)

\* A swap completed by a private transaction has both output notes in the wallets
\* of the parties: nobody is told of a settlement whose proceeds he cannot spend.
CompletedMeansCredited ==
  (swap.status = "completed" /\ swap.txHash # NoTx) =>
    (txs[swap.txHash].kind = "private" =>
      {txs[swap.txHash].output[r] : r \in Roles} \subseteq saved)

\* A note that a wallet takes for spent is spent on the chain: an execution that
\* fails, times out or dies does not take a note away from its owner.
MarkedMeansSpent == marked \subseteq spent

\* A swap is not offered for execution before both proofs are stored, although
\* each party's handler decides it from the document it loaded earlier.
ReadyMeansBothProofs ==
  IsExecutionReady(swap) => \A r \in Roles : swap[ProofOf[r]] # NoProof

\* A swap does not read executing for ever, unless a handler died, or could not write the
\* audit record of its execution: then nothing in the code ends it.
ExecutingEnds ==
  swap.status = "executing" ~>
    (swap.status # "executing" \/ budget.faults < MaxFaults)

\* The claim of the action board on a swap with status proofs_ready: "The remaining
\* blocker is an actual private execution submission."
ReadyMeansExecutable ==
  swap.status = "proofs_ready" =>
    Accepted([kind |-> "private", proof |-> [r \in Roles |-> swap[ProofOf[r]]],
              output |-> [r \in Roles |-> swap[OutputOf[r]]]])

\* The rule complete() enforces with "Swap is already completed with a different
\* transaction": one transaction settles a swap.
SettledOnce == Cardinality({i \in 1 .. Len(txs) : Landed(i)}) <= 1
=============================================================================
