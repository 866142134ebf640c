-------------------------- MODULE SwapServiceProofs --------------------------
(***************************************************************************)
(* What a swap document says is so, for any number of handlers, requests,  *)
(* transactions and crashes.  Handlers save documents they loaded long     *)
(* ago, so the invariant does not say that a loaded document is current.   *)
(* It says what of it stays true: a hash or a proof that it has is not     *)
(* missing from the database (Knows), and what a handler knows of its      *)
(* transaction is settled on the chain, which never takes it back.         *)
(***************************************************************************)
EXTENDS SwapViews, SequenceTheorems, TLAPS

Statuses == {"requested", "proofs_pending", "proofs_ready", "executing", "completed", "failed"}
ProofStatuses == {"awaiting_acceptance", "awaiting_both", "awaiting_alice", "awaiting_bob", "ready"}
AllNotes == Notes["alice"] \cup Notes["bob"] \cup {"none"}
Proofs == [note : AllNotes, leaves : Nat, binding : Nat]
RealProofs == Proofs \ {NoProof}
States == {"pending", "landed", "dead"}

Docs == [status : Statuses, proofStatus : ProofStatuses, txHash : Nat,
         aliceProof : Proofs, bobProof : Proofs, aliceOutput : Nat, bobOutput : Nat]

Txs == [kind : {"public"}, state : States, sequence : Nat]
       \cup [kind : {"private"}, state : States, proof : [Roles -> Proofs], output : [Roles -> Nat]]

\* A transaction that took effect; a private one spent the notes it was sent with.
Took(i) == i \in 1 .. Len(txs) /\ txs[i].state = "landed"
Spends(i) == txs[i].kind = "private" => \A r \in Roles : txs[i].proof[r].note \in spent
Credited(i) == txs[i].kind = "private" => \A r \in Roles : txs[i].output[r] \in saved

\* What is known of a document that was loaded: what it has is not missing now.
Knows(d) ==
  /\ d \in Docs
  /\ d.txHash # NoTx => swap.txHash # NoTx
  /\ d.aliceProof # NoProof => swap.aliceProof # NoProof
  /\ d.bobProof # NoProof => swap.bobProof # NoProof

\* What is known in each step of a handler.
Collecting(q) ==
  \/ q \in [at : {"accept"}, doc : Docs] /\ Knows(q.doc)
  \/ q \in [at : {"output"}, role : Roles, doc : Docs] /\ Knows(q.doc)
  \/ q \in [at : {"prove"}, role : Roles, binding : Nat]
  \/ q \in [at : {"submit"}, role : Roles, proof : RealProofs]
  \/ q \in [at : {"store"}, role : Roles, proof : RealProofs, doc : Docs] /\ Knows(q.doc)

BothProofs(d) == d.aliceProof # NoProof /\ d.bobProof # NoProof

Launching(q) ==
  \/ q \in [at : {"claim"}, proof : [Roles -> Proofs]]
  \/ /\ q \in [at : {"execute", "send"}, kind : {"public"}, doc : Docs]
     /\ Knows(q.doc) /\ BothProofs(q.doc)
  \/ /\ q \in [at : {"execute", "send"}, kind : {"private"}, doc : Docs, proof : [Roles -> Proofs]]
     /\ Knows(q.doc) /\ BothProofs(q.doc)

Awaiting(q) ==
  /\ q \in [at : {"wait", "credit", "confirm", "fail"}, hash : 1 .. Len(txs), doc : Docs]
  /\ Knows(q.doc)
  /\ q.at \in {"credit", "confirm"} => Took(q.hash)
  /\ q.at = "credit" => txs[q.hash].kind = "private"
  /\ q.at = "confirm" => Credited(q.hash)

Reporting(q) ==
  /\ q \in [at : {"complete"}, hash : 1 .. Len(txs), doc : Docs]
  /\ Knows(q.doc)
  /\ Took(q.hash) /\ txs[q.hash].kind = "public"

RequestOK(q) == q = Idle \/ Collecting(q) \/ Launching(q) \/ Awaiting(q) \/ Reporting(q)

ChainOK ==
  /\ txs \in Seq(Txs) /\ leaves \in [Roles -> Nat \ {0}] /\ sequence \in Nat
  /\ \A i \in 1 .. Len(txs) : txs[i].state = "landed" => Spends(i)

\* The document: the hash it has is of a settlement that was credited, whatever its status,
\* and it was ready for execution, if it is or if it is being executed, with both proofs.
SwapOK ==
  /\ swap \in Docs
  /\ swap.txHash # NoTx => Took(swap.txHash) /\ Credited(swap.txHash)
  /\ swap.status = "completed" => swap.txHash # NoTx
  /\ swap.status \in {"proofs_ready", "executing"} \/ swap.proofStatus = "ready"
       => swap.aliceProof # NoProof /\ swap.bobProof # NoProof

Inv ==
  /\ ChainOK /\ SwapOK
  /\ marked \subseteq spent /\ generated \in Nat
  /\ DOMAIN request = Slots /\ \A s \in Slots : RequestOK(request[s])

-----------------------------------------------------------------------------
(* Saving a document *)

\* What save() leaves in the database: what the handler changed, and what was there otherwise.
LEMMA Saved ==
  ASSUME swap \in Docs, NEW old \in Docs, NEW new \in Docs, Save(old, new)
  PROVE  /\ swap' \in Docs
         /\ swap'.status = IF new.status # old.status THEN new.status ELSE swap.status
         /\ swap'.proofStatus = IF new.proofStatus # old.proofStatus
                                THEN new.proofStatus ELSE swap.proofStatus
         /\ swap'.txHash = IF new.txHash # old.txHash THEN new.txHash ELSE swap.txHash
         /\ swap'.aliceProof = IF new.aliceProof # old.aliceProof
                               THEN new.aliceProof ELSE swap.aliceProof
         /\ swap'.bobProof = IF new.bobProof # old.bobProof THEN new.bobProof ELSE swap.bobProof
<1>. DEFINE P(f) == IF new[f] # old[f] THEN new[f] ELSE swap[f]
<1>1. DOMAIN swap = {"status", "proofStatus", "txHash", "aliceProof", "bobProof",
                     "aliceOutput", "bobOutput"}
  BY DEF Docs
<1>2. swap' = [f \in DOMAIN swap |-> P(f)]
  BY DEF Save
<1>3. swap' = [status |-> P("status"), proofStatus |-> P("proofStatus"), txHash |-> P("txHash"),
               aliceProof |-> P("aliceProof"), bobProof |-> P("bobProof"),
               aliceOutput |-> P("aliceOutput"), bobOutput |-> P("bobOutput")]
  <2>. HIDE DEF P
  <2>. QED
    BY <1>1, <1>2
<1>. QED
  BY <1>3 DEF Docs

\* How the world moves: the chain takes nothing back, wallets keep their notes, and the
\* document loses neither its hash nor a proof.
Advances ==
  /\ swap.txHash # NoTx => swap'.txHash # NoTx
  /\ swap.aliceProof # NoProof => swap'.aliceProof # NoProof
  /\ swap.bobProof # NoProof => swap'.bobProof # NoProof
  /\ Len(txs) \in Nat /\ Len(txs') \in Nat /\ Len(txs) <= Len(txs')
  /\ \A i \in 1 .. Len(txs) :
       /\ txs'[i].kind = txs[i].kind
       /\ txs[i].state = "landed" => txs'[i].state = "landed"
       /\ txs[i].kind = "private" => txs'[i].proof = txs[i].proof /\ txs'[i].output = txs[i].output
  /\ saved \subseteq saved' /\ spent \subseteq spent'

\* What a handler knows stays true while others move.
LEMMA KnowledgeLasts ==
  ASSUME Advances, NEW q, RequestOK(q)
  PROVE  RequestOK(q)'
<1>1. \A d : Knows(d) => Knows(d)'
  BY DEF Knows, Advances
<1>2. \A i \in 1 .. Len(txs) : i \in 1 .. Len(txs')
  BY DEF Advances
<1>3. \A i \in 1 .. Len(txs) : Credited(i) => Credited(i)'
  BY DEF Credited, Advances
<1>4. \A i \in 1 .. Len(txs) : Took(i) => Took(i)'
  BY <1>2 DEF Took, Advances
<1>5. CASE Collecting(q)
  <2>1. Collecting(q)'
    BY <1>1, <1>5 DEF Collecting
  <2>. QED
    BY <2>1 DEF RequestOK
<1>6. CASE Launching(q)
  <2>1. Launching(q)'
    BY <1>1, <1>6 DEF Launching
  <2>. QED
    BY <2>1 DEF RequestOK
<1>7. CASE Awaiting(q)
  <2>1. q.hash \in 1 .. Len(txs)
    BY <1>7 DEF Awaiting
  <2>2. q \in [at : {"wait", "credit", "confirm", "fail"}, hash : 1 .. Len(txs'), doc : Docs]
    BY <1>2, <1>7 DEF Awaiting
  <2>3. txs'[q.hash].kind = txs[q.hash].kind
    BY <2>1 DEF Advances
  <2>4. Awaiting(q)'
    BY <1>1, <1>3, <1>4, <1>7, <2>1, <2>2, <2>3 DEF Awaiting
  <2>. QED
    BY <2>4 DEF RequestOK
<1>8. CASE Reporting(q)
  <2>1. q.hash \in 1 .. Len(txs)
    BY <1>8 DEF Reporting
  <2>2. q \in [at : {"complete"}, hash : 1 .. Len(txs'), doc : Docs]
    BY <1>2, <1>8 DEF Reporting
  <2>3. txs'[q.hash].kind = txs[q.hash].kind
    BY <2>1 DEF Advances
  <2>4. Reporting(q)'
    BY <1>1, <1>4, <1>8, <2>1, <2>2, <2>3 DEF Reporting
  <2>. QED
    BY <2>4 DEF RequestOK
<1>. QED
  BY <1>5, <1>6, <1>7, <1>8 DEF RequestOK

\* One handler moves.
LEMMA HandlerMoves ==
  ASSUME Inv, Advances, NEW s \in Slots, NEW q, request' = [request EXCEPT ![s] = q], RequestOK(q)',
         ChainOK', SwapOK', (marked \subseteq spent)', generated' \in Nat
  PROVE  Inv'
<1>1. \A t \in Slots : RequestOK(request[t])'
  <2>. SUFFICES ASSUME NEW t \in Slots PROVE RequestOK(request[t])'
    OBVIOUS
  <2>1. CASE t = s
    BY <2>1 DEF Inv
  <2>2. CASE t # s
    <3>1. ASSUME NEW p, p = request[t] PROVE RequestOK(p)'
      BY <3>1, KnowledgeLasts DEF Inv
    <3>2. request'[t] = request[t]
      BY <2>2 DEF Inv
    <3>. QED
      BY <3>1, <3>2
  <2>. QED
    BY <2>1, <2>2
<1>. QED
  BY <1>1 DEF Inv

\* A save keeps the document true, if what it adds is: a hash of a settlement that was
\* credited, completed with a hash, ready with two proofs. What it does not change of the
\* document it loaded is not written, but what that had is not missing.
LEMMA SaveKeeps ==
  ASSUME Inv, NEW old, Knows(old), NEW new \in Docs, Save(old, new),
         UNCHANGED <<txs, saved, spent>>,
         new.txHash # old.txHash => new.txHash # NoTx /\ Took(new.txHash) /\ Credited(new.txHash),
         new.aliceProof # old.aliceProof => new.aliceProof # NoProof,
         new.bobProof # old.bobProof => new.bobProof # NoProof,
         new.status # old.status /\ new.status = "completed" => new.txHash # NoTx,
         (\/ new.status # old.status /\ new.status \in {"proofs_ready", "executing"}
          \/ new.proofStatus # old.proofStatus /\ new.proofStatus = "ready")
           => new.aliceProof # NoProof /\ new.bobProof # NoProof
  PROVE  Advances /\ SwapOK' /\ Knows(new)'
<1>1. old \in Docs /\ swap \in Docs
  BY DEF Knows, Inv, SwapOK
<1>2. /\ swap' \in Docs
      /\ swap'.status = IF new.status # old.status THEN new.status ELSE swap.status
      /\ swap'.proofStatus = IF new.proofStatus # old.proofStatus
                             THEN new.proofStatus ELSE swap.proofStatus
      /\ swap'.txHash = IF new.txHash # old.txHash THEN new.txHash ELSE swap.txHash
      /\ swap'.aliceProof = IF new.aliceProof # old.aliceProof
                            THEN new.aliceProof ELSE swap.aliceProof
      /\ swap'.bobProof = IF new.bobProof # old.bobProof THEN new.bobProof ELSE swap.bobProof
  BY <1>1, Saved
<1>3. /\ old.txHash # NoTx => swap.txHash # NoTx
      /\ old.aliceProof # NoProof => swap.aliceProof # NoProof
      /\ old.bobProof # NoProof => swap.bobProof # NoProof
  BY DEF Knows
<1>4. /\ swap.txHash # NoTx => swap'.txHash # NoTx
      /\ swap.aliceProof # NoProof => swap'.aliceProof # NoProof
      /\ swap.bobProof # NoProof => swap'.bobProof # NoProof
      /\ new.txHash # NoTx => swap'.txHash # NoTx
      /\ new.aliceProof # NoProof => swap'.aliceProof # NoProof
      /\ new.bobProof # NoProof => swap'.bobProof # NoProof
  BY <1>2, <1>3
<1>5. Len(txs) \in Nat
  BY DEF Inv, ChainOK
<1>6. Advances
  BY <1>4, <1>5 DEF Advances
<1>7. Knows(new)'
  BY <1>4 DEF Knows
<1>8. swap'.txHash # NoTx => Took(swap'.txHash) /\ Credited(swap'.txHash)
  <2>1. swap.txHash # NoTx => Took(swap.txHash) /\ Credited(swap.txHash)
    BY DEF Inv, SwapOK
  <2>. QED
    BY <1>2, <2>1
<1>9. swap'.txHash # NoTx => Took(swap.txHash)' /\ Credited(swap.txHash)'
  BY <1>8 DEF Took, Credited
<1>10. swap'.status = "completed" => swap'.txHash # NoTx
  BY <1>2, <1>4 DEF Inv, SwapOK
<1>11. swap'.status \in {"proofs_ready", "executing"} \/ swap'.proofStatus = "ready"
         => swap'.aliceProof # NoProof /\ swap'.bobProof # NoProof
  <2>1. swap.status \in {"proofs_ready", "executing"} \/ swap.proofStatus = "ready"
          => swap.aliceProof # NoProof /\ swap.bobProof # NoProof
    BY DEF Inv, SwapOK
  <2>2. CASE \/ new.status # old.status /\ new.status \in {"proofs_ready", "executing"}
             \/ new.proofStatus # old.proofStatus /\ new.proofStatus = "ready"
    BY <1>4, <2>2
  <2>3. CASE ~ \/ new.status # old.status /\ new.status \in {"proofs_ready", "executing"}
               \/ new.proofStatus # old.proofStatus /\ new.proofStatus = "ready"
    <3>1. swap'.status \in {"proofs_ready", "executing"} \/ swap'.proofStatus = "ready"
            => swap.status \in {"proofs_ready", "executing"} \/ swap.proofStatus = "ready"
      BY <1>2, <2>3
    <3>. QED
      BY <1>4, <2>1, <3>1
  <2>. QED
    BY <2>2, <2>3
<1>12. SwapOK'
  BY <1>2, <1>9, <1>10, <1>11 DEF SwapOK
<1>. QED
  BY <1>6, <1>7, <1>12

\* Steps that only look.
LEMMA LookKeeps ==
  ASSUME Inv, NEW s \in Slots, NEW q, request' = [request EXCEPT ![s] = q], RequestOK(q),
         UNCHANGED <<swap, wallets, chain>>
  PROVE  Inv'
<1>1. UNCHANGED <<swap, txs, leaves, spent, sequence, saved, marked, generated>>
  BY DEF wallets, chain
<1>2. Len(txs) \in Nat
  BY DEF Inv, ChainOK
<1>3. Advances
  BY <1>1, <1>2 DEF Advances
<1>4. ChainOK'
  BY <1>1 DEF Inv, ChainOK, Spends
<1>5. SwapOK'
  BY <1>1 DEF Inv, SwapOK, Took, Credited
<1>. QED
  BY <1>1, <1>3, <1>4, <1>5, KnowledgeLasts, HandlerMoves DEF Inv

\* Steps that save the document and nothing else.
LEMMA SavingKeeps ==
  ASSUME Inv, NEW s \in Slots, NEW q, request' = [request EXCEPT ![s] = q], RequestOK(q)',
         Advances, SwapOK', UNCHANGED <<marked, chain>>, generated' \in Nat
  PROVE  Inv'
<1>1. UNCHANGED <<txs, leaves, spent, sequence, marked>>
  BY DEF chain
<1>2. ChainOK'
  BY <1>1 DEF Inv, ChainOK, Spends
<1>. QED
  BY <1>1, <1>2, HandlerMoves DEF Inv

\* A document with these fields for the three that handlers change.
With(d, a, b, h) ==
  [status |-> a, proofStatus |-> b, txHash |-> h, aliceProof |-> d.aliceProof,
   bobProof |-> d.bobProof, aliceOutput |-> d.aliceOutput, bobOutput |-> d.bobOutput]

\* Changing the two statuses of a document that was loaded.
LEMMA DocWithStatuses ==
  ASSUME NEW d \in Docs, NEW a, NEW b
  PROVE  [d EXCEPT !.status = a, !.proofStatus = b] = With(d, a, b, d.txHash)
<1>. DEFINE d1 == [d EXCEPT !.status = a]
<1>1. d1 = With(d, a, d.proofStatus, d.txHash)
  BY DEF Docs, With
<1>. HIDE DEF d1
<1>2. [d1 EXCEPT !.proofStatus = b] = With(d, a, b, d.txHash)
  BY <1>1 DEF With
<1>. QED
  BY <1>2 DEF d1

\* Recording a settlement in a document that was loaded, with its status and without.
LEMMA DocWithHash ==
  ASSUME NEW d \in Docs, NEW a, NEW h
  PROVE  [d EXCEPT !.status = a, !.txHash = h] = With(d, a, d.proofStatus, h)
<1>. DEFINE d1 == [d EXCEPT !.status = a]
<1>1. d1 = With(d, a, d.proofStatus, d.txHash)
  BY DEF Docs, With
<1>. HIDE DEF d1
<1>2. [d1 EXCEPT !.txHash = h] = With(d, a, d.proofStatus, h)
  BY <1>1 DEF With
<1>. QED
  BY <1>2 DEF d1

\* The document that a handler saves when it has the hash h of a settlement.
Reported(d, h) == [d EXCEPT !.status = "completed", !.txHash = h]
Confirmed(d, h, b) == [d EXCEPT !.status = "completed", !.txHash = h, !.proofStatus = b]

LEMMA RecordingDocs ==
  ASSUME NEW d \in Docs, NEW b \in ProofStatuses, NEW h \in Nat
  PROVE  /\ Reported(d, h) = With(d, "completed", d.proofStatus, h)
         /\ Confirmed(d, h, b) = With(d, "completed", b, h)
<1>1. ASSUME NEW a, a = "completed" PROVE Reported(d, h) = With(d, "completed", d.proofStatus, h)
  <2>1. Reported(d, h) = [d EXCEPT !.status = a, !.txHash = h]
    BY <1>1 DEF Reported
  <2>. QED
    BY <1>1, <2>1, DocWithHash
<1>2. Reported(d, h) = With(d, "completed", d.proofStatus, h)
  BY <1>1
<1>. DEFINE r == Reported(d, h)
<1>3. Confirmed(d, h, b) = [r EXCEPT !.proofStatus = b]
  BY DEF Confirmed, Reported
<1>. HIDE DEF r
<1>4. [r EXCEPT !.proofStatus = b] = With(d, "completed", b, h)
  <2>1. r = With(d, "completed", d.proofStatus, h)
    BY <1>2 DEF r
  <2>. QED
    BY <2>1 DEF With
<1>. QED
  BY <1>2, <1>3, <1>4

\* Changing a document that was loaded.
LEMMA DocWith ==
  ASSUME NEW d \in Docs, NEW a \in Statuses, NEW b \in ProofStatuses, NEW h \in Nat
  PROVE  /\ With(d, a, b, h) \in Docs
         /\ [d EXCEPT !.status = a] = With(d, a, d.proofStatus, d.txHash)
         /\ [d EXCEPT !.status = a, !.proofStatus = b] = With(d, a, b, d.txHash)
         /\ [d EXCEPT !.status = a, !.txHash = h] = With(d, a, d.proofStatus, h)
         /\ [d EXCEPT !.status = a, !.txHash = h, !.proofStatus = b] = With(d, a, b, h)
<1>. DEFINE d1 == [d EXCEPT !.status = a]
<1>1. d1 = With(d, a, d.proofStatus, d.txHash)
  BY DEF Docs, With
<1>. HIDE DEF d1
<1>2. [d1 EXCEPT !.proofStatus = b] = With(d, a, b, d.txHash)
  BY <1>1 DEF With
<1>. DEFINE d2 == [d1 EXCEPT !.txHash = h]
<1>3. d2 = With(d, a, d.proofStatus, h)
  BY <1>1 DEF With
<1>. HIDE DEF d2
<1>4. [d2 EXCEPT !.proofStatus = b] = With(d, a, b, h)
  BY <1>3 DEF With
<1>5. With(d, a, b, h) \in Docs
  BY DEF Docs, With
<1>6. [d EXCEPT !.status = a, !.proofStatus = b] = [d1 EXCEPT !.proofStatus = b]
  BY DEF d1
<1>7. [d EXCEPT !.status = a, !.txHash = h] = d2
  BY DEF d1, d2
<1>8. [d EXCEPT !.status = a, !.txHash = h, !.proofStatus = b] = [d2 EXCEPT !.proofStatus = b]
  BY DEF d1, d2
<1>. QED
  BY <1>1, <1>2, <1>3, <1>4, <1>5, <1>6, <1>7, <1>8 DEF d1

-----------------------------------------------------------------------------
(* The steps *)

\* A swap that was just requested has neither a hash nor a proof.
LEMMA Initially == Init => Inv
<1>. SUFFICES ASSUME Init PROVE Inv
  OBVIOUS
<1>1. ChainOK
  BY DEF Init, ChainOK
<1>2. NoProof \in Proofs
  BY DEF NoProof, Proofs, AllNotes, NoOutput
<1>3. SwapOK
  BY <1>2 DEF Init, SwapOK, Docs, Statuses, ProofStatuses, NoTx, NoOutput
<1>4. marked \subseteq spent /\ generated \in Nat
  BY DEF Init
<1>5. DOMAIN request = Slots /\ \A s \in Slots : RequestOK(request[s])
  BY DEF Init, RequestOK
<1>. QED
  BY <1>1, <1>3, <1>4, <1>5 DEF Inv

\* What a request does before its first await: it loads the document as it is.
LEMMA ArriveKeeps ==
  ASSUME Inv, NEW s \in Slots, Arrive(s)
  PROVE  Inv'
<1>1. Knows(swap)
  BY DEF Inv, SwapOK, Knows
<1>2. swap \in Docs
  BY DEF Knows, Inv, SwapOK
<1>3. CASE AcceptLoad(s)
  <2>. DEFINE q == [at |-> "accept", doc |-> swap]
  <2>1. RequestOK(q)
    BY <1>1, <1>2 DEF RequestOK, Collecting
  <2>. HIDE DEF q
  <2>. QED
    BY <1>3, <2>1, LookKeeps DEF AcceptLoad, Begin, q
<1>4. ASSUME NEW r \in Roles, PrepareLoad(s, r)
      PROVE  Inv'
  <2>. DEFINE q == [at |-> "output", role |-> r, doc |-> swap]
  <2>1. RequestOK(q)
    BY <1>1, <1>2 DEF RequestOK, Collecting
  <2>. HIDE DEF q
  <2>. QED
    BY <1>4, <2>1, LookKeeps DEF PrepareLoad, Begin, q
<1>5. CASE PublicLoad(s)
  <2>. DEFINE q == [at |-> "execute", kind |-> "public", doc |-> swap]
  <2>1. BothProofs(swap)
    BY <1>5 DEF PublicLoad, IsExecutionReady, Inv, SwapOK, BothProofs
  <2>2. RequestOK(q)
    BY <1>1, <1>2, <2>1 DEF RequestOK, Launching
  <2>. HIDE DEF q
  <2>. QED
    BY <1>5, <2>2, LookKeeps DEF PublicLoad, Begin, q
<1>6. CASE PrivateLoadProofs(s)
  <2>1. ASSUME NEW p \in [Roles -> Proofs], Begin(s, [at |-> "claim", proof |-> p])
        PROVE  Inv'
    <3>. DEFINE q == [at |-> "claim", proof |-> p]
    <3>1. RequestOK(q)
      BY DEF RequestOK, Launching
    <3>. HIDE DEF q
    <3>. QED
      BY <1>6, <2>1, <3>1, LookKeeps DEF PrivateLoadProofs, Begin, q
  <2>2. [r \in Roles |-> swap[ProofOf[r]]] \in [Roles -> Proofs]
    <3>1. swap[ProofOf["alice"]] \in Proofs /\ swap[ProofOf["bob"]] \in Proofs
      BY <1>2 DEF ProofOf, Docs
    <3>. QED
      BY <3>1 DEF Roles
  <2>3. ASSUME NEW a \in ClientProofs("alice"), NEW b \in ClientProofs("bob")
        PROVE  [alice |-> a, bob |-> b] \in [Roles -> Proofs]
    <3>1. ASSUME NEW r \in Roles PROVE ClientProofs(r) \subseteq Proofs
      <4>1. Notes[r] \subseteq AllNotes
        BY DEF AllNotes, Roles
      <4>2. leaves[r] \in Nat
        BY DEF Inv, ChainOK
      <4>3. swap[OutputOf[Counterparty[r]]] \in Nat
        BY <1>2 DEF OutputOf, Counterparty, Docs, Roles
      <4>. QED
        BY <4>1, <4>2, <4>3 DEF ClientProofs, Proofs
    <3>2. a \in Proofs /\ b \in Proofs
      BY <2>3, <3>1 DEF Roles
    <3>. QED
      BY <3>2 DEF Roles
  <2>4. \/ \E a \in ClientProofs("alice"), b \in ClientProofs("bob") :
             Begin(s, [at |-> "claim", proof |-> [alice |-> a, bob |-> b]])
        \/ Begin(s, [at |-> "claim", proof |-> [r \in Roles |-> swap[ProofOf[r]]]])
    BY <1>6 DEF PrivateLoadProofs
  <2>5. ASSUME NEW a \in ClientProofs("alice"), NEW b \in ClientProofs("bob"),
               Begin(s, [at |-> "claim", proof |-> [alice |-> a, bob |-> b]])
        PROVE  Inv'
    <3>. DEFINE p == [alice |-> a, bob |-> b]
    <3>1. p \in [Roles -> Proofs] /\ Begin(s, [at |-> "claim", proof |-> p])
      BY <2>3, <2>5
    <3>. HIDE DEF p
    <3>. QED
      BY <2>1, <3>1
  <2>6. ASSUME Begin(s, [at |-> "claim", proof |-> [r \in Roles |-> swap[ProofOf[r]]]])
        PROVE  Inv'
    <3>. DEFINE p == [r \in Roles |-> swap[ProofOf[r]]]
    <3>1. p \in [Roles -> Proofs] /\ Begin(s, [at |-> "claim", proof |-> p])
      BY <2>2, <2>6
    <3>. HIDE DEF p
    <3>. QED
      BY <2>1, <3>1
  <2>. QED
    BY <2>4, <2>5, <2>6
<1>7. ASSUME NEW i \in 1 .. Len(txs), CompleteLoad(s, i)
      PROVE  Inv'
  <2>. DEFINE q == [at |-> "complete", hash |-> i, doc |-> swap]
  <2>1. txs[i].state = "landed" /\ txs[i].kind = "public"
    BY <1>7 DEF CompleteLoad, Settles
  <2>2. Reporting(q)
    BY <1>1, <1>2, <2>1 DEF Reporting, Took
  <2>3. RequestOK(q)
    BY <2>2 DEF RequestOK
  <2>. HIDE DEF q
  <2>. QED
    BY <1>7, <2>3, LookKeeps DEF CompleteLoad, Begin, q
<1>. QED
  BY <1>3, <1>4, <1>5, <1>6, <1>7 DEF Arrive

\* What a handler holds, told by what it is at.
LEMMA HandlerKinds ==
  ASSUME Inv, NEW s \in Slots, NEW q, q = request[s]
  PROVE  /\ q.at = "accept" => q \in [at : {"accept"}, doc : Docs] /\ Knows(q.doc)
         /\ q.at = "output" => q \in [at : {"output"}, role : Roles, doc : Docs] /\ Knows(q.doc)
         /\ q.at = "prove" => q \in [at : {"prove"}, role : Roles, binding : Nat]
         /\ q.at = "submit" => q \in [at : {"submit"}, role : Roles, proof : RealProofs]
         /\ q.at = "store" => /\ q \in [at : {"store"}, role : Roles, proof : RealProofs, doc : Docs]
                              /\ Knows(q.doc)
         /\ q.at = "claim" => q \in [at : {"claim"}, proof : [Roles -> Proofs]]
         /\ q.at \in {"execute", "send"} => Launching(q) /\ Knows(q.doc)
         /\ q.at \in {"wait", "credit", "confirm", "fail"} => Awaiting(q)
         /\ q.at = "complete" => Reporting(q)
<1>1. RequestOK(q)
  BY DEF Inv
<1>2. q = Idle => q.at = "idle"
  BY DEF Idle
<1>3. Collecting(q) => q.at \in {"accept", "output", "prove", "submit", "store"}
  BY DEF Collecting
<1>4. Launching(q) => q.at \in {"claim", "execute", "send"}
  BY DEF Launching
<1>5. Awaiting(q) => q.at \in {"wait", "credit", "confirm", "fail"}
  BY DEF Awaiting
<1>6. Reporting(q) => q.at = "complete"
  BY DEF Reporting
<1>7. q.at \in {"accept", "output", "prove", "submit", "store"} => Collecting(q)
  BY <1>1, <1>2, <1>3, <1>4, <1>5, <1>6 DEF RequestOK
<1>8. q.at \in {"claim", "execute", "send"} => Launching(q)
  BY <1>1, <1>2, <1>3, <1>4, <1>5, <1>6 DEF RequestOK
<1>9. q.at \in {"wait", "credit", "confirm", "fail"} => Awaiting(q)
  BY <1>1, <1>2, <1>3, <1>4, <1>5, <1>6 DEF RequestOK
<1>10. q.at = "complete" => Reporting(q)
  BY <1>1, <1>2, <1>3, <1>4, <1>5, <1>6 DEF RequestOK
<1>11. Collecting(q) =>
         /\ q.at = "accept" => q \in [at : {"accept"}, doc : Docs] /\ Knows(q.doc)
         /\ q.at = "output" => q \in [at : {"output"}, role : Roles, doc : Docs] /\ Knows(q.doc)
         /\ q.at = "prove" => q \in [at : {"prove"}, role : Roles, binding : Nat]
         /\ q.at = "submit" => q \in [at : {"submit"}, role : Roles, proof : RealProofs]
         /\ q.at = "store" => /\ q \in [at : {"store"}, role : Roles, proof : RealProofs, doc : Docs]
                              /\ Knows(q.doc)
  BY DEF Collecting
<1>12. Launching(q) =>
         /\ q.at = "claim" => q \in [at : {"claim"}, proof : [Roles -> Proofs]]
         /\ q.at \in {"execute", "send"} => Knows(q.doc)
  BY DEF Launching
<1>. QED
  BY <1>7, <1>8, <1>9, <1>10, <1>11, <1>12

\* Steps of a handler that only look: its proof, the document again, the outcome, its end.
LEMMA LookingKeeps ==
  ASSUME Inv, NEW s \in Slots,
         GenerateProof(s) \/ SubmitLoad(s) \/ PrivateLoad(s) \/ Outcome(s) \/ Crash(s)
  PROVE  Inv'
<1>. SUFFICES ASSUME NEW q, q = request[s] PROVE Inv'
  OBVIOUS
<1>1. UNCHANGED <<swap, wallets, chain>>
  BY DEF GenerateProof, SubmitLoad, PrivateLoad, Outcome, Crash, Fault
<1>2. RequestOK(Idle)
  BY DEF RequestOK
<1>3. ASSUME request' = [request EXCEPT ![s] = Idle] PROVE Inv'
  BY <1>1, <1>2, <1>3, LookKeeps
<1>4. Knows(swap) /\ swap \in Docs
  BY DEF Inv, SwapOK, Knows
<1>5. CASE GenerateProof(s)
  <2>1. q \in [at : {"prove"}, role : Roles, binding : Nat]
    BY <1>5, HandlerKinds DEF GenerateProof
  <2>2. ASSUME NEW n \in Notes[q.role] \ marked,
               request' = [request EXCEPT ![s] =
                 [at |-> "submit", role |-> q.role,
                  proof |-> [note |-> n, leaves |-> leaves[q.role], binding |-> q.binding]]]
        PROVE  Inv'
    <3>. DEFINE p == [note |-> n, leaves |-> leaves[q.role], binding |-> q.binding]
    <3>. DEFINE t == [at |-> "submit", role |-> q.role, proof |-> p]
    <3>1. n \in AllNotes
      BY <2>1 DEF AllNotes, Roles
    <3>2. leaves[q.role] \in Nat \ {0}
      BY <2>1 DEF Inv, ChainOK
    <3>3. p \in Proofs
      BY <2>1, <3>1, <3>2 DEF Proofs
    <3>4. p # NoProof
      BY <3>2 DEF NoProof
    <3>. HIDE DEF p
    <3>5. RequestOK(t)
      BY <2>1, <3>3, <3>4 DEF RequestOK, Collecting, RealProofs
    <3>. HIDE DEF t
    <3>. QED
      BY <1>1, <2>2, <3>5, LookKeeps DEF t, p
  <2>. QED
    BY <1>3, <1>5, <2>2 DEF GenerateProof, Continue
<1>6. CASE SubmitLoad(s)
  <2>. DEFINE t == [at |-> "store", role |-> q.role, proof |-> q.proof, doc |-> swap]
  <2>1. q \in [at : {"submit"}, role : Roles, proof : RealProofs]
    BY <1>6, HandlerKinds DEF SubmitLoad
  <2>2. RequestOK(t)
    BY <1>4, <2>1 DEF RequestOK, Collecting
  <2>3. request' = [request EXCEPT ![s] = t] \/ request' = [request EXCEPT ![s] = Idle]
    BY <1>6 DEF SubmitLoad, Continue
  <2>. HIDE DEF t
  <2>. QED
    BY <1>1, <1>3, <2>2, <2>3, LookKeeps
<1>7. CASE PrivateLoad(s)
  <2>. DEFINE t == [at |-> "execute", kind |-> "private", doc |-> swap, proof |-> q.proof]
  <2>1. q \in [at : {"claim"}, proof : [Roles -> Proofs]]
    BY <1>7, HandlerKinds DEF PrivateLoad
  <2>2. IsExecutionReady(swap) => RequestOK(t)
    <3>1. IsExecutionReady(swap) => BothProofs(swap)
      BY DEF IsExecutionReady, Inv, SwapOK, BothProofs
    <3>. QED
      BY <1>4, <2>1, <3>1 DEF RequestOK, Launching
  <2>3. \/ IsExecutionReady(swap) /\ request' = [request EXCEPT ![s] = t]
        \/ request' = [request EXCEPT ![s] = Idle]
    BY <1>7 DEF PrivateLoad, Continue
  <2>. HIDE DEF t
  <2>. QED
    BY <1>1, <1>3, <2>2, <2>3, LookKeeps
<1>8. CASE Outcome(s)
  <2>1. Awaiting(q) /\ q.at = "wait"
    BY <1>8, HandlerKinds DEF Outcome
  <2>2. PICK next \in {"fail", "confirm", "credit"} :
          /\ request' = [request EXCEPT ![s] = [q EXCEPT !.at = next]]
          /\ next # "fail" => txs[q.hash].state = "landed"
          /\ next = "confirm" <=> next # "fail" /\ txs[q.hash].kind = "public"
    BY <1>8 DEF Outcome, Continue
  <2>. DEFINE t == [q EXCEPT !.at = next]
  <2>3. /\ t \in [at : {"wait", "credit", "confirm", "fail"}, hash : 1 .. Len(txs), doc : Docs]
        /\ t.at = next /\ t.hash = q.hash /\ t.doc = q.doc /\ q.hash \in 1 .. Len(txs)
    BY <2>1 DEF Awaiting
  <2>. HIDE DEF t
  <2>4. txs[q.hash].kind \in {"public", "private"}
    BY <2>3 DEF Inv, ChainOK, Txs
  <2>5. next = "confirm" => Credited(q.hash)
    BY <2>2 DEF Credited
  <2>6. Awaiting(t)
    BY <2>1, <2>2, <2>3, <2>4, <2>5 DEF Awaiting, Took
  <2>7. RequestOK(t)
    BY <2>6 DEF RequestOK
  <2>. QED
    BY <1>1, <2>2, <2>7, LookKeeps DEF t
<1>9. CASE Crash(s)
  BY <1>3, <1>9 DEF Crash, Fault
<1>. QED
  BY <1>5, <1>6, <1>7, <1>8, <1>9

\* accept, and the catch block: only the status is written, and it is neither of the two
\* that promise something.
LEMMA StatusSavesKeep ==
  ASSUME Inv, NEW s \in Slots, AcceptSave(s) \/ Fail(s)
  PROVE  Inv'
<1>. SUFFICES ASSUME NEW q, q = request[s], NEW d, d = q.doc PROVE Inv'
  OBVIOUS
<1>1. Knows(d) /\ d \in Docs
  BY HandlerKinds DEF AcceptSave, Fail, Awaiting, Knows
<1>2. PICK new \in Docs :
        /\ Save(d, new) /\ new.txHash = d.txHash
        /\ new.aliceProof = d.aliceProof /\ new.bobProof = d.bobProof
        /\ new.status \in {"proofs_pending", "failed"}
        /\ new.proofStatus \in {"awaiting_both", d.proofStatus}
  <2>1. CASE AcceptSave(s)
    <3>1. PICK a \in Statuses, b \in ProofStatuses : a = "proofs_pending" /\ b = "awaiting_both"
      BY DEF Statuses, ProofStatuses
    <3>. DEFINE n == With(d, a, b, d.txHash)
    <3>2. d.txHash \in Nat
      BY <1>1 DEF Docs
    <3>3. n = [d EXCEPT !.status = a, !.proofStatus = b] /\ n \in Docs
      <4>1. n \in Docs
        BY <1>1, <3>2, DocWith
      <4>2. [d EXCEPT !.status = a, !.proofStatus = b] = n
        BY <1>1, DocWithStatuses
      <4>. QED
        BY <4>1, <4>2
    <3>4. Save(d, n)
      BY <2>1, <3>1, <3>3 DEF AcceptSave
    <3>. QED
      BY <3>1, <3>3, <3>4 DEF With
  <2>2. CASE Fail(s)
    <3>. DEFINE n == With(d, "failed", d.proofStatus, d.txHash)
    <3>1. n = [d EXCEPT !.status = "failed"] /\ n \in Docs
      <4>1. "failed" \in Statuses /\ d.proofStatus \in ProofStatuses /\ d.txHash \in Nat
        BY <1>1 DEF Statuses, Docs
      <4>. QED
        BY <1>1, <4>1, DocWith, Zenon
    <3>2. Save(d, n)
      BY <2>2, <3>1 DEF Fail
    <3>. QED
      BY <3>1, <3>2 DEF With
  <2>. QED
    BY <2>1, <2>2
<1>3. UNCHANGED <<txs, saved, spent, marked, generated, chain>>
  BY DEF AcceptSave, Fail, wallets, chain
<1>4. Advances /\ SwapOK'
  BY <1>1, <1>2, <1>3, SaveKeeps
<1>5. request' = [request EXCEPT ![s] = Idle]
  BY DEF AcceptSave, Fail, Continue
<1>6. RequestOK(Idle)' /\ generated' \in Nat
  BY <1>3 DEF RequestOK, Inv
<1>. QED
  BY <1>3, <1>4, <1>5, <1>6, SavingKeeps

\* The output note: a field that promises nothing.
LEMMA EnsureOutputNoteKeeps ==
  ASSUME Inv, NEW s \in Slots, EnsureOutputNote(s)
  PROVE  Inv'
<1>. SUFFICES ASSUME NEW q, q = request[s], NEW d, d = q.doc, NEW r, r = q.role PROVE Inv'
  OBVIOUS
<1>1. Knows(d) /\ d \in Docs /\ r \in Roles
  <2>1. q.at = "output"
    BY DEF EnsureOutputNote
  <2>2. q \in [at : {"output"}, role : Roles, doc : Docs] /\ Knows(q.doc)
    BY <2>1, HandlerKinds
  <2>. QED
    BY <2>2
<1>. DEFINE field == OutputOf[Counterparty[r]]
<1>2. field \in {"aliceOutput", "bobOutput"} /\ d[field] \in Nat
  <2>1. CASE r = "alice"
    BY <1>1, <2>1 DEF Docs, OutputOf, Counterparty
  <2>2. CASE r = "bob"
    BY <1>1, <2>2 DEF Docs, OutputOf, Counterparty
  <2>. QED
    BY <1>1, <2>1, <2>2 DEF Roles
<1>3. PICK o \in Nat : o = IF d[field] # NoOutput THEN d[field] ELSE generated + 1
  BY <1>2 DEF Inv
<1>4. Save(d, [d EXCEPT ![field] = o]) /\ generated' \in {generated, generated + 1}
  BY <1>3 DEF EnsureOutputNote
<1>. HIDE DEF field
<1>5. PICK new \in Docs :
        /\ Save(d, new) /\ new.txHash = d.txHash
        /\ new.aliceProof = d.aliceProof /\ new.bobProof = d.bobProof
        /\ new.status = d.status /\ new.proofStatus = d.proofStatus
  <2>1. CASE field = "aliceOutput"
    BY <1>1, <1>3, <1>4, <2>1 DEF Docs
  <2>2. CASE field = "bobOutput"
    BY <1>1, <1>3, <1>4, <2>2 DEF Docs
  <2>. QED
    BY <1>2, <2>1, <2>2
<1>6. UNCHANGED <<txs, saved, spent, marked, chain>>
  BY DEF EnsureOutputNote, chain
<1>7. Advances /\ SwapOK'
  BY <1>1, <1>5, <1>6, SaveKeeps
<1>. DEFINE t == [at |-> "prove", role |-> r, binding |-> o]
<1>8. request' = [request EXCEPT ![s] = t]
  BY <1>3 DEF EnsureOutputNote, Continue, field
<1>9. RequestOK(t)'
  BY <1>1, <1>3 DEF RequestOK, Collecting
<1>10. generated' \in Nat
  BY <1>4 DEF Inv
<1>. HIDE DEF t
<1>. QED
  BY <1>6, <1>7, <1>8, <1>9, <1>10, SavingKeeps

\* A proof is stored: the status it is stored with is ready only if the loaded document had
\* the other one, which has not gone missing since.
LEMMA SubmitSaveKeeps ==
  ASSUME Inv, NEW s \in Slots, SubmitSave(s)
  PROVE  Inv'
<1>. SUFFICES ASSUME NEW q, q = request[s], NEW d, d = q.doc, NEW r, r = q.role,
                     NEW p, p = q.proof
     PROVE Inv'
  OBVIOUS
<1>1. Knows(d) /\ d \in Docs /\ r \in Roles /\ p \in Proofs /\ p # NoProof
  BY HandlerKinds DEF SubmitSave, RealProofs
<1>. DEFINE n == [d EXCEPT ![ProofOf[r]] = p]
<1>2. /\ n \in Docs /\ n.txHash = d.txHash /\ n.status = d.status /\ n.proofStatus = d.proofStatus
      /\ n.aliceProof \in {d.aliceProof, p} /\ n.bobProof \in {d.bobProof, p}
  <2>1. CASE r = "alice"
    <3>1. n = [d EXCEPT !.aliceProof = p]
      BY <2>1 DEF ProofOf
    <3>. HIDE DEF n
    <3>. QED
      BY <1>1, <3>1 DEF Docs
  <2>2. CASE r = "bob"
    <3>1. n = [d EXCEPT !.bobProof = p]
      BY <2>2 DEF ProofOf
    <3>. HIDE DEF n
    <3>. QED
      BY <1>1, <3>1 DEF Docs
  <2>. QED
    BY <1>1, <2>1, <2>2 DEF Roles
<1>. DEFINE b == ComputeProofStatus(n)
<1>. DEFINE a == IF b = "ready" THEN "proofs_ready" ELSE "proofs_pending"
<1>3. Save(d, [n EXCEPT !.proofStatus = b, !.status = a])
  BY DEF SubmitSave, WithProof
<1>4. b \in ProofStatuses /\ (b = "ready" => n.aliceProof # NoProof /\ n.bobProof # NoProof)
  <2>. HIDE DEF n
  <2>. QED
    BY DEF ComputeProofStatus, ProofStatuses
<1>5. a \in Statuses /\ (a = "proofs_ready" => b = "ready")
  <2>. HIDE DEF b
  <2>. QED
    BY DEF Statuses
<1>. HIDE DEF n, a, b
<1>6. PICK new \in Docs :
        /\ Save(d, new) /\ new.txHash = d.txHash
        /\ new.aliceProof = n.aliceProof /\ new.bobProof = n.bobProof
        /\ new.status = a /\ new.proofStatus = b
  <2>. DEFINE w == With(n, a, b, n.txHash)
  <2>0. n.txHash \in Nat
    BY <1>2 DEF Docs
  <2>1. [n EXCEPT !.proofStatus = b, !.status = a] = [n EXCEPT !.status = a, !.proofStatus = b]
    BY <1>2 DEF Docs
  <2>2. w = [n EXCEPT !.status = a, !.proofStatus = b] /\ w \in Docs
    BY <1>2, <1>4, <1>5, <2>0, DocWith
  <2>3. w.txHash = d.txHash /\ w.aliceProof = n.aliceProof /\ w.bobProof = n.bobProof
        /\ w.status = a /\ w.proofStatus = b
    BY <1>2 DEF With
  <2>. HIDE DEF w
  <2>. QED
    BY <1>3, <2>1, <2>2, <2>3
<1>7. UNCHANGED <<txs, saved, spent, marked, generated, chain>>
  BY DEF SubmitSave, wallets, chain
<1>8. a \notin {"completed", "executing"}
  BY DEF a
<1>9. Advances /\ SwapOK'
  <2>1. new.aliceProof # d.aliceProof => new.aliceProof # NoProof
    BY <1>1, <1>2, <1>6
  <2>2. new.bobProof # d.bobProof => new.bobProof # NoProof
    BY <1>1, <1>2, <1>6
  <2>3. new.status = "proofs_ready" \/ new.proofStatus = "ready"
          => new.aliceProof # NoProof /\ new.bobProof # NoProof
    BY <1>4, <1>5, <1>6
  <2>. QED
    BY <1>1, <1>6, <1>7, <1>8, <2>1, <2>2, <2>3, SaveKeeps
<1>10. request' = [request EXCEPT ![s] = Idle]
  BY DEF SubmitSave, Continue
<1>11. RequestOK(Idle)' /\ generated' \in Nat
  BY <1>7 DEF RequestOK, Inv
<1>. QED
  BY <1>7, <1>9, <1>10, <1>11, SavingKeeps

\* The swap reads executing before anything is sent; the handler keeps the document it saved.
LEMMA MarkExecutingKeeps ==
  ASSUME Inv, NEW s \in Slots, MarkExecuting(s)
  PROVE  Inv'
<1>. SUFFICES ASSUME NEW q, q = request[s], NEW d, d = q.doc PROVE Inv'
  OBVIOUS
<1>1. q.at = "execute" /\ Launching(q) /\ Knows(d) /\ d \in Docs
  BY HandlerKinds DEF MarkExecuting, Knows
<1>0. d.aliceProof # NoProof /\ d.bobProof # NoProof
  BY <1>1 DEF Launching, BothProofs
<1>. DEFINE new == With(d, "executing", d.proofStatus, d.txHash)
<1>2. /\ new = [d EXCEPT !.status = "executing"] /\ new \in Docs
      /\ new.txHash = d.txHash
      /\ new.aliceProof = d.aliceProof /\ new.bobProof = d.bobProof
      /\ new.status = "executing" /\ new.proofStatus = d.proofStatus
  <2>1. "executing" \in Statuses /\ d.proofStatus \in ProofStatuses /\ d.txHash \in Nat
    BY <1>1 DEF Statuses, Docs
  <2>2. new = [d EXCEPT !.status = "executing"] /\ new \in Docs
    BY <1>1, <2>1, DocWith, Zenon
  <2>. QED
    BY <2>2 DEF With
<1>. HIDE DEF new
<1>3. Save(d, new)
  BY <1>2 DEF MarkExecuting
<1>4. UNCHANGED <<txs, saved, spent, marked, generated, chain>>
  BY DEF MarkExecuting, wallets, chain
<1>5. Advances /\ SwapOK' /\ Knows(new)' /\ BothProofs(new)
  BY <1>0, <1>1, <1>2, <1>3, <1>4, SaveKeeps DEF BothProofs
<1>. DEFINE q1 == [q EXCEPT !.at = "send"]
<1>. DEFINE t == [q1 EXCEPT !.doc = new]
<1>6. \/ request' = [request EXCEPT ![s] = t]
      \/ request' = [request EXCEPT ![s] = Idle]
  BY <1>2 DEF MarkExecuting, Continue, Fault
<1>7. RequestOK(t)'
  <2>1. CASE q \in [at : {"execute", "send"}, kind : {"public"}, doc : Docs]
    <3>1. q1 \in [at : {"execute", "send"}, kind : {"public"}, doc : Docs]
      BY <2>1
    <3>. HIDE DEF q1
    <3>2. t \in [at : {"execute", "send"}, kind : {"public"}, doc : Docs] /\ t.doc = new
      BY <1>2, <3>1
    <3>. HIDE DEF t
    <3>. QED
      BY <1>5, <3>2 DEF RequestOK, Launching
  <2>2. CASE q \in [at : {"execute", "send"}, kind : {"private"}, doc : Docs,
                    proof : [Roles -> Proofs]]
    <3>1. q1 \in [at : {"execute", "send"}, kind : {"private"}, doc : Docs,
                  proof : [Roles -> Proofs]]
      BY <2>2
    <3>. HIDE DEF q1
    <3>2. /\ t \in [at : {"execute", "send"}, kind : {"private"}, doc : Docs,
                    proof : [Roles -> Proofs]]
          /\ t.doc = new
      BY <1>2, <3>1
    <3>. HIDE DEF t
    <3>. QED
      BY <1>5, <3>2 DEF RequestOK, Launching
  <2>. QED
    BY <1>1, <2>1, <2>2 DEF Launching
<1>8. generated' \in Nat
  BY <1>4 DEF Inv
<1>9. RequestOK(Idle)'
  BY DEF RequestOK
<1>. HIDE DEF t
<1>10. CASE request' = [request EXCEPT ![s] = t]
  BY <1>4, <1>5, <1>7, <1>8, <1>10, SavingKeeps
<1>11. CASE request' = [request EXCEPT ![s] = Idle]
  BY <1>4, <1>5, <1>8, <1>9, <1>11, SavingKeeps
<1>. QED
  BY <1>6, <1>10, <1>11

\* A settlement is recorded: by the handler that saw its transaction take effect and credited
\* it, or by a party who reports a payment that took effect.
LEMMA CompletingKeeps ==
  ASSUME Inv, NEW s \in Slots, Confirm(s) \/ CompleteSave(s)
  PROVE  Inv'
<1>. SUFFICES ASSUME NEW q, q = request[s], NEW d, d = q.doc, NEW h, h = q.hash PROVE Inv'
  OBVIOUS
<1>1. /\ Knows(d) /\ d \in Docs /\ h \in 1 .. Len(txs) /\ h \in Nat /\ h # NoTx
      /\ Took(h) /\ Credited(h)
  <2>1. CASE Confirm(s)
    <3>1. q.at = "confirm" /\ Awaiting(q)
      BY <2>1, HandlerKinds DEF Confirm
    <3>. QED
      BY <3>1 DEF Awaiting, Knows, NoTx
  <2>2. CASE CompleteSave(s)
    <3>1. Reporting(q)
      BY <2>2, HandlerKinds DEF CompleteSave
    <3>. QED
      BY <3>1 DEF Reporting, Knows, NoTx, Credited
  <2>. QED
    BY <2>1, <2>2
<1>2. PICK b \in ProofStatuses :
        /\ Save(d, With(d, "completed", b, h))
        /\ b = d.proofStatus \/ b = ComputeProofStatus(d)
        /\ \/ request' = [request EXCEPT ![s] = Idle]
           \/ /\ q.at = "confirm"
              /\ request' = [request EXCEPT ![s] =
                              [q EXCEPT !.at = "fail", !.doc = With(d, "completed", b, h)]]
  <2>1. ComputeProofStatus(d) \in ProofStatuses /\ d.proofStatus \in ProofStatuses
    BY <1>1 DEF ComputeProofStatus, ProofStatuses, Docs
  <2>3. CASE Confirm(s)
    <3>1. PICK b \in ProofStatuses : b = IF txs[h].kind = "public" THEN ComputeProofStatus(d)
                                         ELSE d.proofStatus
      BY <2>1
    <3>. DEFINE n == Confirmed(d, h, b)
    <3>2. /\ Save(d, n)
          /\ \/ request' = [request EXCEPT ![s] = Idle]
             \/ /\ q.at = "confirm"
                /\ request' = [request EXCEPT ![s] = [q EXCEPT !.at = "fail", !.doc = n]]
      BY <2>3, <3>1 DEF Confirm, Continue, Confirmed
    <3>3. n = With(d, "completed", b, h)
      BY <1>1, RecordingDocs
    <3>. HIDE DEF n
    <3>. QED
      BY <3>1, <3>2, <3>3
  <2>4. CASE CompleteSave(s)
    <3>. DEFINE n == Reported(d, h)
    <3>1. Save(d, n) /\ request' = [request EXCEPT ![s] = Idle]
      BY <2>4 DEF CompleteSave, Continue, Reported
    <3>2. n = With(d, "completed", d.proofStatus, h)
      BY <1>1, <2>1, RecordingDocs
    <3>. HIDE DEF n
    <3>. QED
      BY <2>1, <3>1, <3>2
  <2>. QED
    BY <2>3, <2>4
<1>. DEFINE new == With(d, "completed", b, h)
<1>3. /\ new \in Docs /\ new.txHash = h /\ new.aliceProof = d.aliceProof /\ new.bobProof = d.bobProof
      /\ new.status = "completed" /\ new.proofStatus = b
  BY <1>1 DEF With, Docs, Statuses
<1>4. UNCHANGED <<txs, saved, spent, marked, generated, chain>>
  BY DEF Confirm, CompleteSave, wallets, chain
<1>5. b # d.proofStatus /\ b = "ready" => d.aliceProof # NoProof /\ d.bobProof # NoProof
  BY <1>2 DEF ComputeProofStatus
<1>. HIDE DEF new
<1>6. Advances /\ SwapOK' /\ Knows(new)'
  BY <1>1, <1>2, <1>3, <1>4, <1>5, SaveKeeps DEF new
<1>7. generated' \in Nat /\ RequestOK(Idle)'
  BY <1>4 DEF Inv, RequestOK
<1>8. CASE request' = [request EXCEPT ![s] = Idle]
  BY <1>4, <1>6, <1>7, <1>8, SavingKeeps
<1>9. CASE q.at = "confirm" /\ request' = [request EXCEPT ![s] = [q EXCEPT !.at = "fail", !.doc = new]]
  <2>. DEFINE q1 == [q EXCEPT !.at = "fail"]
  <2>. DEFINE t == [q1 EXCEPT !.doc = new]
  <2>0. q \in [at : {"wait", "credit", "confirm", "fail"}, hash : 1 .. Len(txs), doc : Docs]
    BY <1>9, HandlerKinds DEF Awaiting
  <2>1. q1 \in [at : {"wait", "credit", "confirm", "fail"}, hash : 1 .. Len(txs), doc : Docs]
        /\ q1.at = "fail"
    BY <2>0
  <2>. HIDE DEF q1
  <2>2. t \in [at : {"wait", "credit", "confirm", "fail"}, hash : 1 .. Len(txs), doc : Docs]
        /\ t.at = "fail" /\ t.doc = new
    BY <1>3, <2>1
  <2>3. request' = [request EXCEPT ![s] = t]
    BY <1>9 DEF q1
  <2>. HIDE DEF t
  <2>4. Awaiting(t)'
    <3>1. txs' = txs
      BY <1>4
    <3>. QED
      BY <1>6, <2>2, <3>1 DEF Awaiting
  <2>5. RequestOK(t)'
    BY <2>4 DEF RequestOK
  <2>. QED
    BY <1>4, <1>6, <1>7, <2>3, <2>5, SavingKeeps
<1>. QED
  BY <1>2, <1>8, <1>9 DEF new

\* The document stays true when the chain and the wallets move on.
LEMMA SwapStands ==
  ASSUME SwapOK, Advances, UNCHANGED swap
  PROVE  SwapOK'
<1>1. ASSUME NEW h, Took(h), Credited(h) PROVE Took(h)' /\ Credited(h)'
  <2>1. h \in 1 .. Len(txs) /\ h \in 1 .. Len(txs')
    BY <1>1 DEF Took, Advances
  <2>2. txs'[h].state = "landed" /\ txs'[h].kind = txs[h].kind
    BY <1>1, <2>1 DEF Took, Advances
  <2>3. txs[h].kind = "private" => txs'[h].output = txs[h].output
    BY <2>1 DEF Advances
  <2>. QED
    BY <1>1, <2>1, <2>2, <2>3 DEF Took, Credited, Advances
<1>2. swap.txHash # NoTx => Took(swap.txHash)' /\ Credited(swap.txHash)'
  <2>1. ASSUME NEW h, h = swap.txHash, h # NoTx PROVE Took(h)' /\ Credited(h)'
    BY <1>1, <2>1 DEF SwapOK
  <2>2. ASSUME NEW h, h = swap.txHash, h # NoTx
        PROVE  Took(swap.txHash)' /\ Credited(swap.txHash)'
    BY <2>1, <2>2 DEF Took, Credited
  <2>. QED
    BY <2>2
<1>. QED
  BY <1>2 DEF SwapOK

\* A transaction is sent: it is the last one, and it has not taken effect.
LEMMA SendKeeps ==
  ASSUME Inv, NEW s \in Slots, Send(s)
  PROVE  Inv'
<1>. SUFFICES ASSUME NEW q, q = request[s], NEW d, d = q.doc, NEW tx, tx = TxOf(q),
                     NEW n, n = Len(txs)
     PROVE Inv'
  OBVIOUS
<1>1. q.at = "send" /\ Launching(q) /\ Knows(d) /\ d \in Docs
  BY HandlerKinds DEF Send, Knows
<1>2. tx \in Txs /\ tx.state = "pending"
  <2>1. CASE q \in [at : {"execute", "send"}, kind : {"public"}, doc : Docs]
    <3>1. sequence \in Nat
      BY DEF Inv, ChainOK
    <3>. QED
      BY <2>1, <3>1 DEF TxOf, Txs, States
  <2>2. CASE q \in [at : {"execute", "send"}, kind : {"private"}, doc : Docs,
                    proof : [Roles -> Proofs]]
    <3>1. d[OutputOf["alice"]] \in Nat /\ d[OutputOf["bob"]] \in Nat
      BY <1>1 DEF Docs, OutputOf
    <3>2. [r \in Roles |-> d[OutputOf[r]]] \in [Roles -> Nat]
      BY <3>1 DEF Roles
    <3>. QED
      BY <2>2, <3>2 DEF TxOf, Txs, States
  <2>. QED
    BY <1>1, <2>1, <2>2 DEF Launching
<1>3. /\ txs \in Seq(Txs) /\ n \in Nat /\ txs' = Append(txs, tx)
      /\ txs' \in Seq(Txs) /\ Len(txs') = n + 1
      /\ \A i \in 1 .. n : txs'[i] = txs[i]
      /\ txs'[n + 1] = tx
  BY <1>2 DEF Inv, ChainOK, Send
<1>4. UNCHANGED <<swap, leaves, spent, sequence, saved, marked, generated>>
  BY DEF Send, wallets
<1>5. Advances
  BY <1>3, <1>4 DEF Advances
<1>6. SwapOK'
  BY <1>4, <1>5, SwapStands DEF Inv
<1>7. ChainOK'
  <2>1. ASSUME NEW i \in 1 .. Len(txs'), txs'[i].state = "landed" PROVE Spends(i)'
    <3>1. i # n + 1
      BY <1>2, <1>3, <2>1
    <3>2. i \in 1 .. n /\ txs'[i] = txs[i]
      BY <1>3, <3>1
    <3>. QED
      BY <1>4, <2>1, <3>2 DEF Inv, ChainOK, Spends
  <2>. QED
    BY <1>3, <1>4, <2>1 DEF Inv, ChainOK
<1>. DEFINE t == [at |-> "wait", hash |-> n + 1, doc |-> d]
<1>8. request' = [request EXCEPT ![s] = t]
  BY DEF Send, Continue
<1>9. RequestOK(t)'
  <2>1. n + 1 \in 1 .. Len(txs')
    BY <1>3
  <2>2. Knows(d)'
    BY <1>1, <1>4 DEF Knows
  <2>3. Awaiting(t)'
    BY <1>1, <2>1, <2>2 DEF Awaiting
  <2>. QED
    BY <2>3 DEF RequestOK
<1>10. (marked \subseteq spent)' /\ generated' \in Nat
  BY <1>4 DEF Inv
<1>. HIDE DEF t
<1>. QED
  BY <1>5, <1>6, <1>7, <1>8, <1>9, <1>10, HandlerMoves

\* The notes of a private swap are stored, and the notes that it spent are marked.
LEMMA CreditKeeps ==
  ASSUME Inv, NEW s \in Slots, Credit(s)
  PROVE  Inv'
<1>. SUFFICES ASSUME NEW q, q = request[s], NEW h, h = q.hash PROVE Inv'
  OBVIOUS
<1>1. /\ q \in [at : {"wait", "credit", "confirm", "fail"}, hash : 1 .. Len(txs), doc : Docs]
      /\ q.at = "credit" /\ Knows(q.doc) /\ Took(h) /\ txs[h].kind = "private"
  BY HandlerKinds DEF Credit, Awaiting
<1>2. Spends(h)
  BY <1>1 DEF Inv, ChainOK, Took
<1>3. UNCHANGED <<swap, generated, txs, leaves, spent, sequence>>
  BY DEF Credit, chain
<1>4. saved \subseteq saved'
  BY DEF Credit
<1>5. marked' \subseteq spent'
  <2>1. \A r \in Roles : txs[h].proof[r].note \in spent
    BY <1>1, <1>2 DEF Spends
  <2>2. marked' = marked
        \/ \E n \in {<<>>, <<"alice">>, <<"alice", "bob">>} :
             marked' = marked \cup {txs[request[s].hash].proof[n[i]].note : i \in 1 .. Len(n)}
    BY Zenon DEF Credit
  <2>3. ASSUME NEW n \in {<<>>, <<"alice">>, <<"alice", "bob">>}, NEW i \in 1 .. Len(n)
        PROVE  n[i] \in Roles
    BY <2>3 DEF Roles
  <2>. QED
    BY <1>3, <2>1, <2>2, <2>3 DEF Inv
<1>6. Advances
  <2>1. Len(txs) \in Nat
    BY DEF Inv, ChainOK
  <2>. QED
    BY <1>3, <1>4, <2>1 DEF Advances
<1>7. ChainOK'
  BY <1>3 DEF Inv, ChainOK, Spends
<1>8. SwapOK'
  BY <1>3, <1>6, SwapStands DEF Inv
<1>9. PICK at \in {"confirm", "fail"} :
        /\ request' = [request EXCEPT ![s] = [q EXCEPT !.at = at]]
        /\ at = "confirm" => saved' = saved \cup {txs[request[s].hash].output[r] : r \in Roles}
  <2>1. \/ /\ request' = [request EXCEPT ![s] = [request[s] EXCEPT !.at = "confirm"]]
           /\ saved' = saved \cup {txs[request[s].hash].output[r] : r \in Roles}
        \/ request' = [request EXCEPT ![s] = [request[s] EXCEPT !.at = "fail"]]
    BY Zenon DEF Credit, Continue
  <2>. QED
    BY <2>1
<1>. DEFINE t == [q EXCEPT !.at = at]
<1>10. /\ t \in [at : {"wait", "credit", "confirm", "fail"}, hash : 1 .. Len(txs), doc : Docs]
       /\ t.at = at /\ t.hash = h /\ t.doc = q.doc
  BY <1>1
<1>11. request' = [request EXCEPT ![s] = t]
  BY <1>9
<1>. HIDE DEF t
<1>12. at = "confirm" => Credited(h)'
  BY <1>3, <1>9 DEF Credited
<1>13. Took(h)' /\ Knows(q.doc)'
  BY <1>1, <1>3 DEF Took, Knows
<1>14. Awaiting(t)'
  BY <1>3, <1>9, <1>10, <1>12, <1>13 DEF Awaiting
<1>15. RequestOK(t)' /\ generated' \in Nat
  BY <1>3, <1>14 DEF RequestOK, Inv
<1>. QED
  BY <1>5, <1>6, <1>7, <1>8, <1>11, <1>15, HandlerMoves

\* Nobody's handler moves, and the chain goes on.
LEMMA ChainKeeps ==
  ASSUME Inv, Advances, ChainOK', UNCHANGED <<swap, request, wallets>>
  PROVE  Inv'
<1>1. SwapOK'
  BY SwapStands DEF Inv
<1>2. (marked \subseteq spent)' /\ generated' \in Nat
  BY DEF Inv, Advances, wallets
<1>3. ASSUME NEW s \in Slots PROVE RequestOK(request[s])'
  <2>1. ASSUME NEW q, q = request[s] PROVE RequestOK(q)'
    BY <2>1, KnowledgeLasts DEF Inv
  <2>2. request'[s] = request[s]
    OBVIOUS
  <2>. QED
    BY <2>1, <2>2
<1>. QED
  BY <1>1, <1>2, <1>3 DEF Inv

\* A transaction takes effect and spends what it was sent with; or it is dead, or others
\* append leaves.
LEMMA LandKeeps ==
  ASSUME Inv, NEW i \in 1 .. Len(txs), NEW a \in States, txs[i].state = "pending",
         txs' = [txs EXCEPT ![i].state = a], spent \subseteq spent',
         leaves' \in [Roles -> Nat \ {0}], sequence' \in Nat,
         a = "landed" => Spends(i)', UNCHANGED <<swap, request, wallets>>
  PROVE  Inv'
<1>1. txs \in Seq(Txs) /\ Len(txs) \in Nat /\ txs[i] \in Txs
  BY DEF Inv, ChainOK
<1>. DEFINE tx == [txs[i] EXCEPT !.state = a]
<1>2. /\ tx \in Txs /\ tx.state = a /\ tx.kind = txs[i].kind
      /\ tx.kind = "private" => tx.proof = txs[i].proof /\ tx.output = txs[i].output
  <2>1. ASSUME NEW x, x = txs[i] PROVE
          LET y == [x EXCEPT !.state = a] IN
            /\ y \in Txs /\ y.state = a /\ y.kind = x.kind
            /\ y.kind = "private" => y.proof = x.proof /\ y.output = x.output
    BY <1>1, <2>1 DEF Txs
  <2>. QED
    BY <2>1
<1>3. txs' = [txs EXCEPT ![i] = tx]
  OBVIOUS
<1>. HIDE DEF tx
<1>4. /\ txs' \in Seq(Txs) /\ Len(txs') = Len(txs)
      /\ txs'[i] = tx /\ \A j \in 1 .. Len(txs) : j # i => txs'[j] = txs[j]
  <2>1. ASSUME NEW new, new = [txs EXCEPT ![i] = tx]
        PROVE  /\ new \in Seq(Txs) /\ Len(new) = Len(txs)
               /\ new[i] = tx /\ \A j \in 1 .. Len(txs) : j # i => new[j] = txs[j]
    BY <1>1, <1>2, <2>1, ExceptSeq
  <2>. QED
    BY <1>3, <2>1
<1>5. saved' = saved
  BY DEF wallets
<1>6. Advances
  <2>1. \A j \in 1 .. Len(txs) :
          /\ txs'[j].kind = txs[j].kind
          /\ txs[j].state = "landed" => txs'[j].state = "landed"
          /\ txs[j].kind = "private" =>
               txs'[j].proof = txs[j].proof /\ txs'[j].output = txs[j].output
    BY <1>2, <1>4
  <2>. QED
    BY <1>1, <1>4, <1>5, <2>1 DEF Advances
<1>7. ChainOK'
  <2>1. ASSUME NEW j \in 1 .. Len(txs'), txs'[j].state = "landed" PROVE Spends(j)'
    <3>1. CASE j = i
      BY <1>2, <1>4, <2>1, <3>1
    <3>2. CASE j # i
      BY <1>4, <2>1, <3>2 DEF Inv, ChainOK, Spends
    <3>. QED
      BY <3>1, <3>2
  <2>. QED
    BY <1>4, <2>1 DEF ChainOK
<1>. QED
  BY <1>6, <1>7, ChainKeeps

LEMMA ChainMovesKeep ==
  ASSUME Inv,
         \/ \E i \in 1 .. Len(txs) : Land(i) \/ Reject(i)
         \/ \E r \in Roles : OthersAppend(r)
  PROVE  Inv'
<1>0. leaves \in [Roles -> Nat \ {0}] /\ sequence \in Nat /\ txs \in Seq(Txs) /\ Len(txs) \in Nat
  BY DEF Inv, ChainOK
<1>1. ASSUME NEW i \in 1 .. Len(txs), Land(i) PROVE Inv'
  <2>1. PICK a \in States : a = "landed"
    BY DEF States
  <2>2. txs[i].state = "pending" /\ txs' = [txs EXCEPT ![i].state = a]
    BY <1>1, <2>1 DEF Land
  <2>3. CASE txs[i].kind = "public"
    <3>1. sequence' = sequence + 1 /\ UNCHANGED <<leaves, spent, swap, request, wallets>>
      BY <1>1, <2>3 DEF Land
    <3>2. txs'[i].kind = "public"
      <4>1. txs'[i] = [txs[i] EXCEPT !.state = a] /\ txs[i] \in Txs
        BY <1>0, <2>2
      <4>2. ASSUME NEW x \in Txs, x.kind = "public"
            PROVE  LET y == [x EXCEPT !.state = a] IN y.kind = "public"
        BY <4>2 DEF Txs
      <4>. QED
        BY <2>3, <4>1, <4>2
    <3>3. Spends(i)'
      BY <3>2 DEF Spends
    <3>4. leaves' \in [Roles -> Nat \ {0}] /\ spent \subseteq spent' /\ sequence' \in Nat
      BY <1>0, <3>1
    <3>. QED
      BY <2>2, <3>1, <3>3, <3>4, LandKeeps
  <2>4. CASE txs[i].kind # "public"
    <3>1. /\ leaves' = [r \in Roles |-> leaves[r] + 1]
          /\ spent' = spent \cup {txs[i].proof[r].note : r \in Roles}
          /\ UNCHANGED <<sequence, swap, request, wallets>>
      BY <1>1, <2>4 DEF Land
    <3>2. txs'[i].proof = txs[i].proof
      <4>1. txs'[i] = [txs[i] EXCEPT !.state = a] /\ txs[i] \in Txs
        BY <1>0, <2>2
      <4>2. ASSUME NEW x \in Txs, x.kind # "public"
            PROVE  LET y == [x EXCEPT !.state = a] IN y.proof = x.proof
        BY <4>2 DEF Txs
      <4>. QED
        BY <2>4, <4>1, <4>2
    <3>3. Spends(i)'
      BY <3>1, <3>2 DEF Spends
    <3>4. leaves' \in [Roles -> Nat \ {0}] /\ spent \subseteq spent' /\ sequence' \in Nat
      BY <1>0, <3>1
    <3>. QED
      BY <2>2, <3>1, <3>3, <3>4, LandKeeps
  <2>. QED
    BY <2>3, <2>4
<1>2. ASSUME NEW i \in 1 .. Len(txs), Reject(i) PROVE Inv'
  <2>1. PICK a \in States : a = "dead"
    BY DEF States
  <2>2. /\ txs[i].state = "pending" /\ txs' = [txs EXCEPT ![i].state = a] /\ a # "landed"
        /\ UNCHANGED <<leaves, spent, sequence, swap, request, wallets>>
    BY <1>2, <2>1 DEF Reject
  <2>. QED
    BY <1>0, <2>2, LandKeeps
<1>3. ASSUME NEW r \in Roles, OthersAppend(r) PROVE Inv'
  <2>1. /\ leaves' = [leaves EXCEPT ![r] = @ + 1]
        /\ UNCHANGED <<txs, spent, sequence, swap, request, wallets>>
    BY <1>3 DEF OthersAppend
  <2>2. leaves' \in [Roles -> Nat \ {0}]
    BY <1>0, <2>1
  <2>3. saved' = saved
    BY <2>1 DEF wallets
  <2>4. Advances
    BY <1>0, <2>1, <2>3 DEF Advances
  <2>5. ChainOK'
    BY <2>1, <2>2 DEF Inv, ChainOK, Spends
  <2>. QED
    BY <2>1, <2>4, <2>5, ChainKeeps
<1>. QED
  BY <1>1, <1>2, <1>3

LEMMA Stuttering ==
  ASSUME Inv, UNCHANGED vars
  PROVE  Inv'
<1>1. UNCHANGED <<swap, request, wallets>> /\ UNCHANGED <<txs, leaves, spent, sequence, saved>>
  BY DEF vars, wallets, chain
<1>2. Len(txs) \in Nat
  BY DEF Inv, ChainOK
<1>3. Advances
  BY <1>1, <1>2 DEF Advances
<1>4. ChainOK'
  BY <1>1 DEF Inv, ChainOK, Spends
<1>. QED
  BY <1>1, <1>3, <1>4, ChainKeeps

-----------------------------------------------------------------------------
(* The boards *)

\* What the service takes from a party.
LEMMA PermittedActions ==
  ASSUME Inv, NEW r \in Roles
  PROVE  /\ r = "bob" => Permitted(r, "accept")
         /\ IsProofCollectionState(swap) => Permitted(r, "prepare_proof")
         /\ IsExecutionReady(swap) => Permitted(r, "execute_private")
         /\ \A a \in {"wait", "inspect", "deposit", "none"} : Permitted(r, a)
<1>1. IsExecutionReady(swap) => \A role \in Roles : swap[ProofOf[role]] # NoProof
  BY DEF Inv, SwapOK, IsExecutionReady, ProofOf, Roles
<1>2. r = "bob" => Permitted(r, "accept")
  BY DEF Permitted
<1>3. IsProofCollectionState(swap) => Permitted(r, "prepare_proof")
  BY DEF Permitted
<1>4. IsExecutionReady(swap) => Permitted(r, "execute_private")
  BY <1>1 DEF Permitted
<1>5. \A a \in {"wait", "inspect", "deposit", "none"} : Permitted(r, a)
  BY DEF Permitted
<1>. QED
  BY <1>2, <1>3, <1>4, <1>5

\* Which steps the workspace offers, by the status of the swap.
LEMMA OfferedSteps ==
  ASSUME NEW r, NEW funded \in BOOLEAN
  PROVE  /\ \A item \in ActionBoardSteps(r, funded) :
              \/ item.action = "accept" /\ swap.status = "requested" /\ r = "bob"
              \/ item.action \in {"prepare_proof", "deposit"} /\ swap.status = "proofs_pending"
              \/ item.action = "execute_private" /\ swap.status = "proofs_ready"
              \/ item.action = "wait" /\ swap.status = "executing"
         /\ (\/ swap.status = "requested" /\ r = "bob"
             \/ swap.status \in {"proofs_ready", "executing"})
              => ActionBoardSteps(r, funded) # {}
<1>. DEFINE s == Summary(r)
<1>. DEFINE offered ==
        [accept |-> s.status = "requested" /\ r = "bob",
         prepare_proof |-> s.status = "proofs_pending" /\ ~ s.myProofSubmitted /\ funded,
         deposit |-> s.status = "proofs_pending" /\ ~ s.myProofSubmitted /\ ~ funded,
         execute_private |-> s.status = "proofs_ready",
         wait |-> s.status = "executing"]
<1>1. s.status = swap.status
  BY DEF Summary
<1>2. ActionBoardSteps(r, funded) =
        {Item(a, IF a = "wait" THEN "info" ELSE "critical") : a \in {a \in DOMAIN offered : offered[a]}}
  BY DEF ActionBoardSteps
<1>3. /\ DOMAIN offered = {"accept", "prepare_proof", "deposit", "execute_private", "wait"}
      /\ offered["accept"] <=> swap.status = "requested" /\ r = "bob"
      /\ offered["prepare_proof"] => swap.status = "proofs_pending"
      /\ offered["deposit"] => swap.status = "proofs_pending"
      /\ offered["execute_private"] <=> swap.status = "proofs_ready"
      /\ offered["wait"] <=> swap.status = "executing"
  BY <1>1
<1>. HIDE DEF offered
<1>4. ASSUME NEW item \in ActionBoardSteps(r, funded)
      PROVE  item.action \in DOMAIN offered /\ offered[item.action]
  BY <1>2, <1>4 DEF Item
<1>5. ASSUME NEW a \in DOMAIN offered, offered[a] PROVE ActionBoardSteps(r, funded) # {}
  BY <1>2, <1>5
<1>6. ASSUME NEW item \in ActionBoardSteps(r, funded)
      PROVE  \/ item.action = "accept" /\ swap.status = "requested" /\ r = "bob"
             \/ item.action \in {"prepare_proof", "deposit"} /\ swap.status = "proofs_pending"
             \/ item.action = "execute_private" /\ swap.status = "proofs_ready"
             \/ item.action = "wait" /\ swap.status = "executing"
  BY <1>3, <1>4, <1>6
<1>7. ASSUME \/ swap.status = "requested" /\ r = "bob"
             \/ swap.status \in {"proofs_ready", "executing"}
      PROVE  ActionBoardSteps(r, funded) # {}
  BY <1>3, <1>5, <1>7
<1>. QED
  BY <1>6, <1>7

\* What a board may say: the action is one that is taken, if it is more than information,
\* and a swap that is over is left.
Welcome(r, item) ==
  /\ item.severity # "info" => Permitted(r, item.action)
  /\ swap.status \in Final => item.action \in {"wait", "inspect"}

\* The action board of the workspace. The public settlement is never on it: where the route
\* is public and the swap not over, there is another step.
LEMMA BoardWelcome ==
  ASSUME Inv, NEW r \in Roles, NEW funded \in BOOLEAN, NEW item \in ActionBoard(r, funded)
  PROVE  Welcome(r, item)
<1>1. swap.status \in Statuses
  BY DEF Inv, SwapOK, Docs
<1>2. CASE item \in ActionBoardSteps(r, funded)
  BY <1>2, OfferedSteps, PermittedActions DEF Welcome, IsProofCollectionState, IsExecutionReady, Final
<1>3. CASE swap.status = "failed" /\ item = Item("wait", "critical")
  BY <1>3, PermittedActions DEF Welcome, Item
<1>4. CASE /\ ActionBoardSteps(r, funded) = {} /\ r = "bob" /\ RouteMode(r) = "public"
           /\ swap.status \notin Final
  <2>1. Summary(r).status = swap.status
    BY DEF Summary
  <2>2. swap.status = "proofs_pending" => RouteMode(r) = "private"
    BY <2>1, Zenon DEF RouteMode
  <2>3. swap.status # "proofs_pending"
    BY <1>4, <2>2
  <2>4. \/ swap.status = "requested" /\ r = "bob"
        \/ swap.status \in {"proofs_ready", "executing"}
    BY <1>1, <1>4, <2>3 DEF Statuses, Final
  <2>5. ActionBoardSteps(r, funded) # {}
    BY <2>4, OfferedSteps
  <2>. QED
    BY <1>4, <2>5
<1>. QED
  BY <1>2, <1>3, <1>4 DEF ActionBoard

\* The action center's queue and the seller's actions.
LEMMA QueuesWelcome ==
  ASSUME Inv, NEW r \in Roles
  PROVE  /\ Welcome(r, QueueItem(r))
         /\ r = "bob" => \A item \in SellerActions : Welcome(r, item)
<1>1. Welcome(r, QueueItem(r))
  BY PermittedActions
     DEF Welcome, QueueItem, Item, IsProofCollectionState, IsExecutionReady, Final
<1>2. ASSUME r = "bob", NEW item \in SellerActions PROVE Welcome(r, item)
  BY <1>2, PermittedActions
     DEF Welcome, SellerActions, Item, IsProofCollectionState, IsExecutionReady, Final
<1>. QED
  BY <1>1, <1>2

\* The private button of the web page: what it asks for is missing, what it offers is ready.
LEMMA ButtonPermitted ==
  ASSUME Inv, NEW r \in Roles, swap.proofStatus = ComputeProofStatus(swap)
  PROVE  Permitted(r, DeskButton(r, TRUE))
<1>1. swap.status \in Statuses
  BY DEF Inv, SwapOK, Docs
<1>2. /\ StatusView(r).proofs = ComputeProofStatus(swap)
      /\ StatusView(r).swap.myProofSubmitted <=> swap[ProofOf[r]] # NoProof
  BY DEF StatusView, Summary
<1>3. CASE DeskList(r) = "to_accept"
  <2>1. r = "bob" /\ DeskButton(r, TRUE) = "accept"
    BY <1>3 DEF DeskList, DeskButton
  <2>. QED
    BY <2>1, PermittedActions
<1>4. CASE DeskList(r) # "to_accept" /\ (DeskList(r) # "active" \/ swap.status = "failed")
  <2>1. DeskButton(r, TRUE) = "none"
    BY <1>4 DEF DeskButton
  <2>. QED
    BY <2>1, PermittedActions
<1>5. CASE DeskList(r) = "active" /\ swap.status # "failed"
  <2>1. swap.status \in {"proofs_pending", "proofs_ready", "executing"}
    BY <1>1, <1>5 DEF DeskList, Statuses
  <2>2. CASE ComputeProofStatus(swap) = "ready"
    <3>1. DeskButton(r, TRUE) = "execute_private"
      BY <1>2, <1>5, <2>2 DEF DeskButton
    <3>2. IsExecutionReady(swap)
      BY <2>2 DEF IsExecutionReady
    <3>. QED
      BY <3>1, <3>2, PermittedActions
  <2>3. CASE ComputeProofStatus(swap) # "ready" /\ swap[ProofOf[r]] = NoProof
    <3>1. DeskButton(r, TRUE) = "prepare_proof"
      BY <1>2, <1>5, <2>3 DEF DeskButton
    <3>2. swap.status # "executing"
      BY <2>3 DEF Inv, SwapOK, ProofOf, Roles
    <3>3. IsProofCollectionState(swap)
      BY <2>1, <3>2 DEF IsProofCollectionState
    <3>. QED
      BY <3>1, <3>3, PermittedActions
  <2>4. CASE ComputeProofStatus(swap) # "ready" /\ swap[ProofOf[r]] # NoProof
    <3>1. DeskButton(r, TRUE) = "none"
      BY <1>2, <1>5, <2>4 DEF DeskButton
    <3>. QED
      BY <3>1, PermittedActions
  <2>. QED
    BY <2>2, <2>3, <2>4
<1>. QED
  BY <1>3, <1>4, <1>5

-----------------------------------------------------------------------------
(* The theorems *)

\* In every reachable state the document is true to the chain and to the wallets, and every
\* handler knows only what cannot be taken back (SwapService's handlers, taken together).
THEOREM Invariant == Spec => []Inv
<1>1. Init => Inv
  BY Initially
<1>2. Inv /\ [Next]_vars => Inv'
  <2>. SUFFICES ASSUME Inv, [Next]_vars PROVE Inv'
    OBVIOUS
  <2>1. ASSUME NEW s \in Slots, Arrive(s) \/ Step(s) \/ Crash(s) PROVE Inv'
    <3>1. CASE Arrive(s)
      BY <3>1, ArriveKeeps
    <3>2. CASE Step(s)
      BY <3>2, StatusSavesKeep, EnsureOutputNoteKeeps, LookingKeeps, SubmitSaveKeeps,
         MarkExecutingKeeps, SendKeeps, CreditKeeps, CompletingKeeps DEF Step
    <3>3. CASE Crash(s)
      BY <3>3, LookingKeeps
    <3>. QED
      BY <2>1, <3>1, <3>2, <3>3
  <2>2. CASE \/ \E i \in 1 .. Len(txs) : Land(i) \/ Reject(i)
             \/ \E r \in Roles : OthersAppend(r)
    BY <2>2, ChainMovesKeep
  <2>3. CASE UNCHANGED vars
    BY <2>3, Stuttering
  <2>. QED
    BY <2>1, <2>2, <2>3 DEF Next
<1>. QED
  BY <1>1, <1>2, PTL DEF Spec

\* A swap that reads completed (swap.status, set by executeSwap, executeSwapPrivate and
\* complete) names a transaction that took effect.
THEOREM CompletedIsSettled == Spec => []CompletedMeansSettled
<1>1. Inv => CompletedMeansSettled
  BY DEF Inv, SwapOK, CompletedMeansSettled, Took, Landed
<1>. QED
  BY <1>1, Invariant, PTL

\* A swap completed by a private transaction left its output notes in the wallets: saveNote
\* came before the status, in every handler that wrote the hash.
THEOREM CompletedIsCredited == Spec => []CompletedMeansCredited
<1>1. Inv => CompletedMeansCredited
  BY DEF Inv, SwapOK, CompletedMeansCredited, Credited
<1>. QED
  BY <1>1, Invariant, PTL

\* markNoteSpent marks only what the chain has spent, whatever failed or died meanwhile.
THEOREM MarkedIsSpent == Spec => []MarkedMeansSpent
<1>1. Inv => MarkedMeansSpent
  BY DEF Inv, MarkedMeansSpent
<1>. QED
  BY <1>1, Invariant, PTL

\* submitSwapProof says that a swap is ready only when both proofs are in the database,
\* although each handler decides it from the document that it loaded.
THEOREM ReadyHasBothProofs == Spec => []ReadyMeansBothProofs
<1>1. Inv => ReadyMeansBothProofs
  BY DEF Inv, SwapOK, ReadyMeansBothProofs, IsExecutionReady, ProofOf, Roles
<1>. QED
  BY <1>1, Invariant, PTL

\* No board offers a step that is refused: the workspace's action board, the action center's
\* queue and the seller's actions, and, where the stored status of the proofs is right, the
\* private buttons of the web page. It takes more than that a ready swap has both proofs: one
\* that executes has them still, so the page has none to ask for.
THEOREM OffersAccepted == Spec => []OffersAreAccepted
<1>1. Inv => OffersAreAccepted
  <2>. SUFFICES ASSUME Inv, NEW r \in Roles
       PROVE /\ \A item \in Offered(r) : Welcome(r, item)
             /\ swap.proofStatus = ComputeProofStatus(swap) => Permitted(r, DeskButton(r, TRUE))
    BY DEF OffersAreAccepted, Welcome
  <2>. QED
    BY BoardWelcome, QueuesWelcome, ButtonPermitted DEF Offered
<1>. QED
  BY Invariant, <1>1, PTL
=============================================================================
