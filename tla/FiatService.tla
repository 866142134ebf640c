---------------------------- MODULE FiatService ----------------------------
(***************************************************************************)
(* The on-ramp of the API (apps/api/src/fiat/fiat.service.ts).  A user     *)
(* pays rupees at Razorpay for an order; verifyPayment reserves the order, *)
(* pays XLM from the admin's Stellar account (processBuy) and records the  *)
(* outcome.  Handlers run concurrently and a user may send the same        *)
(* verification any number of times.                                       *)
(*                                                                         *)
(* Signatures, amounts, currencies and modes are checked against the order *)
(* and never stored again: a request that fails them changes nothing, so   *)
(* only requests that pass them are modelled.  A signature ties a payment  *)
(* to one order, which is OrderOf.                                         *)
(***************************************************************************)
EXTENDS Integers, Sequences, FiniteSets

CONSTANTS
  Orders,       \* Razorpay orders
  Payments,     \* Razorpay payments
  OrderOf,      \* OrderOf[p]: the order that Razorpay signed p for
  NoPayment,
  Slots,        \* request handlers that can run at the same time
  MaxRequests,  \* bound: verifications requested in a behaviour
  MaxOthers,    \* bound: other transactions of the admin's account
  MaxFaults     \* bound: handlers that die between two steps

ASSUME FiatAssumption ==
  /\ OrderOf \in [Payments -> Orders]
  /\ NoPayment \notin Payments
  /\ MaxRequests \in Nat /\ MaxOthers \in Nat /\ MaxFaults \in Nat

VARIABLES
  orders,    \* the FiatOrder documents
  captured,  \* the payments Razorpay has captured
  request,   \* request[s]: the handler running in slot s
  txs,       \* the payouts sent, in order; a hash is a position here
  sequence,  \* the sequence number of the admin's Stellar account
  budget     \* what is left of the bounds

vars == <<orders, captured, request, txs, sequence, budget>>

NoTx == 0
Idle == [at |-> "idle"]

Init ==
  /\ orders = [o \in Orders |-> [status |-> "none", payment |-> NoPayment, tx |-> NoTx]]
  /\ captured = {}
  /\ request = [s \in Slots |-> Idle]
  /\ txs = <<>>
  /\ sequence = 0
  /\ budget = [requests |-> MaxRequests, others |-> MaxOthers, faults |-> MaxFaults]

Goto(s, q) == request' = [request EXCEPT ![s] = q] /\ UNCHANGED budget

\* createOrder: the document is stored before the client learns of the order.
CreateOrder(o) ==
  /\ orders[o].status = "none"
  /\ orders' = [orders EXCEPT ![o].status = "created"]
  /\ UNCHANGED <<captured, request, txs, sequence, budget>>

\* Razorpay captures a payment: never two for one order.
Capture(p) ==
  /\ orders[OrderOf[p]].status # "none"
  /\ \A other \in captured : OrderOf[other] # OrderOf[p]
  /\ captured' = captured \cup {p}
  /\ UNCHANGED <<orders, request, txs, sequence, budget>>

-----------------------------------------------------------------------------
(* verifyPayment *)

\* The document is read and looked at.  A failed order gets through this far.
LoadOrder(s, p) ==
  LET order == orders[OrderOf[p]] IN
  /\ request[s] = Idle
  /\ budget.requests > 0
  /\ order.status \notin {"none", "fulfilled", "paid"}
  /\ order.payment \in {NoPayment, p}
  /\ budget' = [budget EXCEPT !.requests = @ - 1]
  /\ request' = [request EXCEPT ![s] = [at |-> "fetch", payment |-> p]]
  /\ UNCHANGED <<orders, captured, txs, sequence>>

\* Razorpay must have captured the payment.
FetchPayment(s) ==
  /\ request[s].at = "fetch"
  /\ Goto(s, IF request[s].payment \in captured
               THEN [request[s] EXCEPT !.at = "reserve"] ELSE Idle)
  /\ UNCHANGED <<orders, captured, txs, sequence>>

\* Faulty variants of Reserve: an order found reserved is none the less paid out, and a
\* failed order is reserved again.
ReserveFoundReserved(s) ==
  LET p == request[s].payment
      o == OrderOf[p]
  IN
  /\ request[s].at = "reserve"
  /\ orders' = [orders EXCEPT ![o].status = "paid", ![o].payment = p]
  /\ Goto(s, [request[s] EXCEPT !.at = "load"])
  /\ UNCHANGED <<captured, txs, sequence>>
ReserveFailedAgain(s) ==
  LET p == request[s].payment
      o == OrderOf[p]
      free == orders[o].status \in {"created", "failed"}
  IN
  /\ request[s].at = "reserve"
  /\ orders' = IF free THEN [orders EXCEPT ![o].status = "paid", ![o].payment = p] ELSE orders
  /\ Goto(s, IF free THEN [request[s] EXCEPT !.at = "load"] ELSE Idle)
  /\ UNCHANGED <<captured, txs, sequence>>

\* findOneAndUpdate: the order is found and marked in one step, so the look at the
\* document above may be out of date and does no harm.  A payment id is unique
\* among the orders.
Reserve(s) ==
  LET p == request[s].payment
      o == OrderOf[p]
      free == orders[o].status = "created" /\ \A other \in Orders : orders[other].payment # p
  IN
  /\ request[s].at = "reserve"
  /\ orders' = IF free THEN [orders EXCEPT ![o].status = "paid", ![o].payment = p] ELSE orders
  /\ Goto(s, IF free THEN [request[s] EXCEPT !.at = "load"] ELSE Idle)
  /\ UNCHANGED <<captured, txs, sequence>>

-----------------------------------------------------------------------------
(* processBuy *)

\* The admin's account is loaded, or cannot be.
LoadAccount(s) ==
  /\ request[s].at = "load"
  /\ \/ Goto(s, [at |-> "submit", payment |-> request[s].payment, sequence |-> sequence])
     \/ Goto(s, [request[s] EXCEPT !.at = "fail"])
  /\ UNCHANGED <<orders, captured, txs, sequence>>

SubmitTransaction(s) ==
  LET q == request[s] IN
  /\ q.at = "submit"
  /\ txs' = Append(txs, [order |-> OrderOf[q.payment], payment |-> q.payment,
                         sequence |-> q.sequence, state |-> "pending"])
  /\ Goto(s, [at |-> "wait", payment |-> q.payment, tx |-> Len(txs) + 1])
  /\ UNCHANGED <<orders, captured, sequence>>

\* The ledger takes a payout that has the account's next sequence number.
Land(i) ==
  /\ txs[i].state = "pending"
  /\ txs[i].sequence = sequence
  /\ txs' = [txs EXCEPT ![i].state = "landed"]
  /\ sequence' = sequence + 1
  /\ UNCHANGED <<orders, captured, request, budget>>

\* A payout is refused, or its 30 seconds pass.
Reject(i) ==
  /\ txs[i].state = "pending"
  /\ txs' = [txs EXCEPT ![i].state = "dead"]
  /\ UNCHANGED <<orders, captured, request, sequence, budget>>

\* Another service sends a transaction from the admin's account.
OthersUseAdmin ==
  /\ budget.others > 0
  /\ budget' = [budget EXCEPT !.others = @ - 1]
  /\ sequence' = sequence + 1
  /\ UNCHANGED <<orders, captured, request, txs>>

\* Faulty variant: a payout that was submitted counts as paid.
OutcomeAssumed(s) ==
  /\ request[s].at = "wait"
  /\ Goto(s, [request[s] EXCEPT !.at = "fulfil"])
  /\ UNCHANGED <<orders, captured, txs, sequence>>

\* Faulty variant: the handler waits for as long as it takes.
OutcomeWithoutTimeout(s) ==
  LET q == request[s] IN
  /\ q.at = "wait"
  /\ txs[q.tx].state # "pending"
  /\ Goto(s, [q EXCEPT !.at = IF txs[q.tx].state = "landed" THEN "fulfil" ELSE "fail"])
  /\ UNCHANGED <<orders, captured, txs, sequence>>

\* Horizon answers, or the client's time-out passes while the payout is pending.
Outcome(s) ==
  LET q == request[s] IN
  /\ q.at = "wait"
  /\ Goto(s, [q EXCEPT !.at = IF txs[q.tx].state = "landed" THEN "fulfil" ELSE "fail"])
  /\ UNCHANGED <<orders, captured, txs, sequence>>

-----------------------------------------------------------------------------
(* The end of verifyPayment.  Both updates name the order only by its id.   *)

Fulfil(s) ==
  LET q == request[s] IN
  /\ q.at = "fulfil"
  /\ orders' = [orders EXCEPT ![OrderOf[q.payment]].status = "fulfilled",
                              ![OrderOf[q.payment]].tx = q.tx]
  /\ Goto(s, Idle)
  /\ UNCHANGED <<captured, txs, sequence>>

Fail(s) ==
  LET o == OrderOf[request[s].payment] IN
  /\ request[s].at = "fail"
  /\ orders' = [orders EXCEPT ![o].status = "failed"]
  /\ Goto(s, Idle)
  /\ UNCHANGED <<captured, txs, sequence>>

\* The process of a handler is stopped between two steps.
Crash(s) ==
  /\ request[s] # Idle
  /\ budget.faults > 0
  /\ budget' = [budget EXCEPT !.faults = @ - 1]
  /\ request' = [request EXCEPT ![s] = Idle]
  /\ UNCHANGED <<orders, captured, txs, sequence>>

Step(s) ==
  \/ FetchPayment(s) \/ Reserve(s)
  \/ LoadAccount(s) \/ SubmitTransaction(s) \/ Outcome(s)
  \/ Fulfil(s) \/ Fail(s)

Next ==
  \/ \E o \in Orders : CreateOrder(o)
  \/ \E p \in Payments : Capture(p)
  \/ \E s \in Slots : Step(s) \/ Crash(s) \/ \E p \in Payments : LoadOrder(s, p)
  \/ \E i \in 1 .. Len(txs) : Land(i) \/ Reject(i)
  \/ OthersUseAdmin

\* The calls of a handler return, submitTransaction after a minute at the latest.
\* Nothing is assumed of users, of Razorpay or of the ledger.
Spec == Init /\ [][Next]_vars /\ \A s \in Slots : WF_vars(Step(s))

-----------------------------------------------------------------------------
(* Properties *)

\* The documents, the handlers and the payouts keep their types.
TypeOK ==
  /\ \A o \in Orders :
       /\ orders[o].status \in {"none", "created", "paid", "fulfilled", "failed"}
       /\ orders[o].payment \in Payments \cup {NoPayment}
       /\ orders[o].tx \in {NoTx} \cup 1 .. Len(txs)
  /\ captured \subseteq Payments
  /\ \A i \in 1 .. Len(txs) : txs[i].state \in {"pending", "landed", "dead"}
  /\ sequence \in Nat

\* At most one payout is ever sent for an order, however many verifications of it run
\* at the same time, repeat after a failure, or time out while a payout is under way.
PaidOutOnce == \A i, j \in 1 .. Len(txs) : txs[i].order = txs[j].order => i = j

\* No XLM leaves for an order before Razorpay captured the payment it names.
PayoutsArePaidFor == \A i \in 1 .. Len(txs) : txs[i].payment \in captured

\* Both: as verifyPayment finds a payment captured, reserves the order and pays out, each
\* captured payment buys one payout at most, and nothing else buys one.
EachPaymentPaysOnce == PaidOutOnce /\ PayoutsArePaidFor

\* An order reads fulfilled only when the payout it names reached the ledger, for it.
FulfilledMeansPaidOut ==
  \A o \in Orders :
    orders[o].status = "fulfilled" =>
      /\ orders[o].tx # NoTx
      /\ txs[orders[o].tx].order = o /\ txs[orders[o].tx].state = "landed"

\* An order that was fulfilled or failed stays so, whatever handlers are still at
\* work on it: a failed order whose payout may yet land is not opened again.
OutcomesAreFinal ==
  [][\A o \in Orders :
       orders[o].status \in {"fulfilled", "failed"} =>
         orders'[o].status = orders[o].status]_vars

\* An order does not read paid for ever, unless its handler died.
ReservationsEnd ==
  \A o \in Orders :
    orders[o].status = "paid" ~>
      (orders[o].status # "paid" \/ budget.faults < MaxFaults)
=============================================================================
