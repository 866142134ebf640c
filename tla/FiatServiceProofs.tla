------------------------- MODULE FiatServiceProofs -------------------------
(***************************************************************************)
(* What FiatService keeps for any number of orders, payments, concurrent   *)
(* handlers, repeated requests, crashes and other uses of the admin's      *)
(* account: an order is paid out once at most, for a captured payment, and *)
(* what is recorded of it is true and final.                               *)
(***************************************************************************)
EXTENDS FiatService, SequenceTheorems, TLAPS

-----------------------------------------------------------------------------
(* The inductive invariant *)

Statuses == {"none", "created", "paid", "fulfilled", "failed"}

FiatOrders == [status : Statuses, payment : Payments \cup {NoPayment}, tx : Nat]

Payouts == [order : Orders, payment : Payments, sequence : Nat,
            state : {"pending", "landed", "dead"}]

Handlers ==
  {Idle}
    \cup [at : {"fetch", "reserve", "load", "fail"}, payment : Payments]
    \cup [at : {"submit"}, payment : Payments, sequence : Nat]
    \cup [at : {"wait", "fulfil", "fail"}, payment : Payments, tx : Nat]

StateTypes ==
  /\ orders \in [Orders -> FiatOrders]
  /\ captured \subseteq Payments
  /\ request \in [Slots -> Handlers]
  /\ txs \in Seq(Payouts)
  /\ sequence \in Nat

\* A handler that reserved its order and has not recorded an outcome yet.
Working(s) == request[s].at \in {"load", "submit", "wait", "fulfil", "fail"}

Fetched(s) == request[s].at = "reserve" \/ Working(s)

OrderAt(s) == OrderOf[request[s].payment]

SentFor(o) == \E i \in 1 .. Len(txs) : txs[i].order = o

\* What has been fetched from Razorpay stays captured.
FetchedIsCaptured == \A s \in Slots : Fetched(s) => request[s].payment \in captured

\* A reservation belongs to one handler.
ReservedByWorker == \A s \in Slots : Working(s) => orders[OrderAt(s)].status = "paid"
OneWorkerPerOrder ==
  \A s, t \in Slots : Working(s) /\ Working(t) /\ OrderAt(s) = OrderAt(t) => s = t

\* Nothing is sent for an order before it is reserved and its handler has submitted.
NothingSentYet ==
  /\ \A o \in Orders : orders[o].status \in {"none", "created"} => ~SentFor(o)
  /\ \A s \in Slots : request[s].at \in {"load", "submit"} => ~SentFor(OrderAt(s))

\* A handler watches a payout of its own order.
WatchesOwnPayout ==
  \A s \in Slots :
    /\ request[s].at \in {"wait", "fulfil"} =>
         request[s].tx \in 1 .. Len(txs) /\ txs[request[s].tx].order = OrderAt(s)
    /\ request[s].at = "fulfil" => txs[request[s].tx].state = "landed"

Inv ==
  /\ StateTypes
  /\ TypeOK
  /\ FetchedIsCaptured
  /\ ReservedByWorker
  /\ OneWorkerPerOrder
  /\ NothingSentYet
  /\ WatchesOwnPayout
  /\ PaidOutOnce
  /\ PayoutsArePaidFor
  /\ FulfilledMeansPaidOut

-----------------------------------------------------------------------------
(* Handlers and payouts *)

Parts == {"load", "submit", "wait", "fulfil", "fail"}

\* What a handler that is not idle remembers.
LEMMA HandlerShape ==
  ASSUME NEW q \in Handlers
  PROVE  /\ q.at \in {"idle", "fetch", "reserve"} \cup Parts
         /\ q.at # "idle" => q.payment \in Payments
         /\ q.at = "submit" => q.sequence \in Nat
         /\ q.at \in {"wait", "fulfil"} => q.tx \in Nat
         /\ q.at = "idle" => q = Idle
BY DEF Handlers, Idle, Parts

\* The handlers after one of them moved.
LEMMA OneMoves ==
  ASSUME StateTypes, NEW s \in Slots, NEW q \in Handlers,
         request' = [request EXCEPT ![s] = q]
  PROVE  /\ request' \in [Slots -> Handlers]
         /\ request'[s] = q
         /\ \A t \in Slots : t # s => request'[t] = request[t]
BY DEF StateTypes

\* A step of one handler that writes nothing keeps the invariant if the handler claims
\* no more than before: it starts no work, and finds a payout landed only if it is.
LEMMA MoveKeeps ==
  ASSUME Inv, NEW s \in Slots, NEW q \in Handlers,
         request' = [request EXCEPT ![s] = q],
         UNCHANGED <<orders, txs, sequence>>,
         captured' = captured,
         q.at \in Parts => Working(s) /\ q.payment = request[s].payment,
         q.at = "reserve" => q.payment \in captured,
         q.at \in {"load", "submit"} => request[s].at \in {"load", "submit"},
         q.at \in {"wait", "fulfil"} => request[s].at = "wait" /\ q.tx = request[s].tx,
         q.at = "fulfil" => txs[q.tx].state = "landed"
  PROVE  Inv'
<1>. USE DEF Parts
<1>1. /\ request' \in [Slots -> Handlers]
      /\ request'[s] = q
      /\ \A t \in Slots : t # s => request'[t] = request[t]
  BY OneMoves DEF Inv
<1>2. StateTypes'
  BY <1>1 DEF Inv, StateTypes
<1>3. /\ TypeOK'
      /\ PaidOutOnce'
      /\ PayoutsArePaidFor'
      /\ FulfilledMeansPaidOut'
  BY DEF Inv, TypeOK, PaidOutOnce, PayoutsArePaidFor, FulfilledMeansPaidOut
<1>4. \A t \in Slots : Working(t)' => Working(t) /\ OrderAt(t)' = OrderAt(t)
  BY <1>1 DEF Working, OrderAt
<1>5. \A o \in Orders : SentFor(o)' <=> SentFor(o)
  BY DEF SentFor
<1>6. FetchedIsCaptured'
  BY <1>1 DEF Inv, FetchedIsCaptured, Fetched, Working
<1>7. ReservedByWorker' /\ OneWorkerPerOrder'
  BY <1>4 DEF Inv, ReservedByWorker, OneWorkerPerOrder
<1>8. NothingSentYet'
  <2>1. ASSUME NEW t \in Slots, request'[t].at \in {"load", "submit"}
        PROVE  request[t].at \in {"load", "submit"} /\ OrderAt(t)' = OrderAt(t)
    BY <1>1, <1>4, <2>1 DEF Working
  <2>. QED
    BY <1>5, <2>1 DEF Inv, NothingSentYet, SentFor
<1>9. WatchesOwnPayout'
  <2>1. ASSUME NEW t \in Slots, request'[t].at \in {"wait", "fulfil"}
        PROVE  /\ request'[t].tx \in 1 .. Len(txs)
               /\ txs[request'[t].tx].order = OrderAt(t)'
               /\ request'[t].at = "fulfil" => txs[request'[t].tx].state = "landed"
    <3>1. CASE t = s
      BY <1>1, <1>4, <2>1, <3>1 DEF Inv, WatchesOwnPayout, Working
    <3>2. CASE t # s
      BY <1>1, <2>1, <3>2 DEF Inv, WatchesOwnPayout, OrderAt
    <3>. QED
      BY <3>1, <3>2
  <2>. QED
    BY <2>1 DEF WatchesOwnPayout
<1>. QED
  BY <1>2, <1>3, <1>6, <1>7, <1>8, <1>9 DEF Inv

\* The ledger decides a payout that was pending; nobody had taken it for landed.
LEMMA DecideKeeps ==
  ASSUME Inv, NEW i \in 1 .. Len(txs), txs[i].state = "pending",
         NEW state \in {"landed", "dead"},
         txs' = [txs EXCEPT ![i].state = state],
         UNCHANGED <<orders, request>>, captured' = captured, sequence' \in Nat
  PROVE  Inv'
<1>1. txs \in Seq(Payouts) /\ Len(txs) \in Nat /\ DOMAIN txs = 1 .. Len(txs)
  BY LenProperties DEF Inv, StateTypes
<1>2. \A k \in 1 .. Len(txs) : txs[k] \in Payouts
  BY <1>1, ElementOfSeq
<1>3. [txs[i] EXCEPT !.state = state] \in Payouts
  BY <1>2 DEF Payouts
<1>4. txs' = [txs EXCEPT ![i] = [txs[i] EXCEPT !.state = state]]
  BY <1>1
<1>5. txs' \in Seq(Payouts) /\ Len(txs') = Len(txs)
  BY <1>1, <1>3, <1>4, ExceptSeq
<1>6. \A k \in 1 .. Len(txs) :
        /\ txs'[k].order = txs[k].order
        /\ txs'[k].payment = txs[k].payment
        /\ txs'[k].state \in {"pending", "landed", "dead"}
        /\ txs[k].state = "landed" => txs'[k].state = "landed"
  BY <1>1, <1>2, <1>4 DEF Payouts
<1>7. StateTypes'
  BY <1>5 DEF Inv, StateTypes
<1>8. TypeOK'
  BY <1>5, <1>6 DEF Inv, TypeOK, NoTx
<1>9. PaidOutOnce' /\ PayoutsArePaidFor'
  BY <1>5, <1>6 DEF Inv, PaidOutOnce, PayoutsArePaidFor
<1>10. FulfilledMeansPaidOut'
  BY <1>5, <1>6 DEF Inv, FulfilledMeansPaidOut, TypeOK, NoTx
<1>11. \A o : SentFor(o)' <=> SentFor(o)
  BY <1>5, <1>6 DEF SentFor
<1>12. FetchedIsCaptured' /\ ReservedByWorker' /\ OneWorkerPerOrder'
  BY DEF Inv, FetchedIsCaptured, ReservedByWorker, OneWorkerPerOrder, Fetched, Working, OrderAt
<1>13. NothingSentYet'
  BY <1>11 DEF Inv, NothingSentYet, OrderAt
<1>14. WatchesOwnPayout'
  BY <1>5, <1>6 DEF Inv, WatchesOwnPayout, OrderAt
<1>. QED
  BY <1>7, <1>8, <1>9, <1>10, <1>12, <1>13, <1>14 DEF Inv

\* A handler records an outcome that is true, and is done.
LEMMA RecordKeeps ==
  ASSUME Inv, NEW s \in Slots, Working(s),
         NEW order \in FiatOrders,
         order.status \in {"fulfilled", "failed"},
         order.payment = orders[OrderAt(s)].payment,
         order.tx \in {NoTx} \cup 1 .. Len(txs),
         order.status = "fulfilled" =>
           order.tx # NoTx /\ txs[order.tx].order = OrderAt(s) /\ txs[order.tx].state = "landed",
         orders' = [orders EXCEPT ![OrderAt(s)] = order],
         request' = [request EXCEPT ![s] = Idle],
         UNCHANGED <<txs, sequence>>, captured' = captured
  PROVE  Inv'
<1>1. /\ request' \in [Slots -> Handlers]
      /\ request'[s] = Idle
      /\ \A t \in Slots : t # s => request'[t] = request[t]
  <2>. Idle \in Handlers
    BY DEF Handlers
  <2>. QED
    BY OneMoves DEF Inv
<1>2. OrderAt(s) \in Orders
  <2>1. request[s] \in Handlers /\ request[s].at # "idle"
    BY DEF Inv, StateTypes, Working
  <2>. QED
    BY <2>1, HandlerShape, FiatAssumption DEF OrderAt
<1>3. /\ orders' \in [Orders -> FiatOrders]
      /\ orders'[OrderAt(s)] = order
      /\ \A o \in Orders : o # OrderAt(s) => orders'[o] = orders[o]
  BY <1>2 DEF Inv, StateTypes
<1>4. \A t \in Slots :
        Working(t)' => Working(t) /\ t # s /\ OrderAt(t)' = OrderAt(t) /\ OrderAt(t) # OrderAt(s)
  BY <1>1 DEF Inv, OneWorkerPerOrder, Working, OrderAt, Idle
<1>5. \A o \in Orders : SentFor(o)' <=> SentFor(o)
  BY DEF SentFor
<1>6. StateTypes'
  BY <1>1, <1>3 DEF Inv, StateTypes
<1>7. TypeOK'
  BY <1>2, <1>3 DEF Inv, TypeOK, FiatOrders, Statuses
<1>8. FetchedIsCaptured'
  BY <1>1 DEF Inv, FetchedIsCaptured, Fetched, Working, Idle
<1>9. ReservedByWorker'
  <2>1. ASSUME NEW t \in Slots, Working(t)'
        PROVE  orders'[OrderAt(t)'].status = "paid"
    <3>1. OrderAt(t) \in Orders
      <4>1. request[t] \in Handlers /\ request[t].at # "idle"
        BY <1>4, <2>1 DEF Inv, StateTypes, Working
      <4>. QED
        BY <4>1, HandlerShape, FiatAssumption DEF OrderAt
    <3>. QED
      BY <1>3, <1>4, <2>1, <3>1 DEF Inv, ReservedByWorker
  <2>. QED
    BY <2>1 DEF ReservedByWorker
<1>10. OneWorkerPerOrder'
  BY <1>4 DEF Inv, OneWorkerPerOrder
<1>11. NothingSentYet'
  <2>1. \A o \in Orders : orders'[o].status \in {"none", "created"} => ~SentFor(o)
    BY <1>3 DEF Inv, NothingSentYet
  <2>2. \A t \in Slots : request'[t].at \in {"load", "submit"} => ~SentFor(OrderAt(t)')
    BY <1>1, <1>4 DEF Inv, NothingSentYet, Working, Idle
  <2>. QED
    BY <2>1, <2>2 DEF NothingSentYet, SentFor
<1>12. WatchesOwnPayout'
  BY <1>1, <1>4 DEF Inv, WatchesOwnPayout, Working, Idle
<1>13. PaidOutOnce' /\ PayoutsArePaidFor'
  BY DEF Inv, PaidOutOnce, PayoutsArePaidFor
<1>14. FulfilledMeansPaidOut'
  BY <1>2, <1>3 DEF Inv, FulfilledMeansPaidOut
<1>. QED
  BY <1>6, <1>7, <1>8, <1>9, <1>10, <1>11, <1>12, <1>13, <1>14 DEF Inv

-----------------------------------------------------------------------------
(* The actions *)

LEMMA InitInv == Init => Inv
BY FiatAssumption DEF Init, Inv, StateTypes, TypeOK, FiatOrders, Statuses, Handlers, Idle, NoTx,
  FetchedIsCaptured, Fetched, ReservedByWorker, OneWorkerPerOrder, Working, NothingSentYet,
  SentFor, WatchesOwnPayout, PaidOutOnce, PayoutsArePaidFor, FulfilledMeansPaidOut

\* A new document is for an order for which nothing was sent.
LEMMA CreateOrderKeeps ==
  ASSUME Inv, NEW o \in Orders, CreateOrder(o)
  PROVE  Inv'
<1>1. /\ orders' \in [Orders -> FiatOrders]
      /\ orders'[o].status = "created"
      /\ orders'[o].payment = orders[o].payment /\ orders'[o].tx = orders[o].tx
      /\ \A other \in Orders : other # o => orders'[other] = orders[other]
  BY DEF Inv, StateTypes, CreateOrder, FiatOrders, Statuses
<1>2. orders[o].status = "none" /\ UNCHANGED <<captured, request, txs, sequence>>
  BY DEF CreateOrder
<1>3. StateTypes'
  BY <1>1, <1>2 DEF Inv, StateTypes
<1>4. TypeOK'
  BY <1>1, <1>2 DEF Inv, StateTypes, FiatOrders, Statuses, TypeOK
<1>5. FetchedIsCaptured' /\ OneWorkerPerOrder' /\ WatchesOwnPayout'
  BY <1>2 DEF Inv, FetchedIsCaptured, OneWorkerPerOrder, WatchesOwnPayout, Fetched, Working, OrderAt
<1>6. ReservedByWorker'
  <2>1. ASSUME NEW t \in Slots, Working(t)
        PROVE  OrderAt(t) \in Orders /\ orders[OrderAt(t)].status = "paid"
    <3>1. request[t] \in Handlers /\ request[t].at # "idle"
      BY <2>1 DEF Inv, StateTypes, Working
    <3>. QED
      BY <2>1, <3>1, HandlerShape, FiatAssumption DEF Inv, ReservedByWorker, OrderAt
  <2>. QED
    BY <1>1, <1>2, <2>1 DEF ReservedByWorker, Working, OrderAt
<1>7. NothingSentYet'
  BY <1>1, <1>2 DEF Inv, NothingSentYet, SentFor, OrderAt
<1>8. PaidOutOnce' /\ PayoutsArePaidFor'
  BY <1>2 DEF Inv, PaidOutOnce, PayoutsArePaidFor
<1>9. FulfilledMeansPaidOut'
  BY <1>1, <1>2 DEF Inv, StateTypes, FiatOrders, FulfilledMeansPaidOut
<1>. QED
  BY <1>3, <1>4, <1>5, <1>6, <1>7, <1>8, <1>9 DEF Inv

LEMMA CaptureKeeps ==
  ASSUME Inv, NEW p \in Payments, Capture(p)
  PROVE  Inv'
BY DEF Capture, Inv, StateTypes, TypeOK, FetchedIsCaptured, Fetched, ReservedByWorker,
  OneWorkerPerOrder, Working, OrderAt, NothingSentYet, SentFor, WatchesOwnPayout, PaidOutOnce,
  PayoutsArePaidFor, FulfilledMeansPaidOut

LEMMA LoadOrderKeeps ==
  ASSUME Inv, NEW s \in Slots, NEW p \in Payments, LoadOrder(s, p)
  PROVE  Inv'
<1>1. [at |-> "fetch", payment |-> p] \in Handlers
  BY DEF Handlers
<1>. QED
  BY <1>1, MoveKeeps DEF LoadOrder, Parts

LEMMA FetchPaymentKeeps ==
  ASSUME Inv, NEW s \in Slots, FetchPayment(s)
  PROVE  Inv'
<1>1. request[s] \in Handlers /\ request[s].at = "fetch"
  BY DEF FetchPayment, Inv, StateTypes
<1>2. [request[s] EXCEPT !.at = "reserve"] \in Handlers /\ Idle \in Handlers
  BY <1>1 DEF Handlers, Idle
<1>3. CASE request[s].payment \in captured
  <2>. DEFINE q == [request[s] EXCEPT !.at = "reserve"]
  <2>1. q.at = "reserve" /\ q.payment = request[s].payment
    BY <1>1 DEF Handlers, Idle
  <2>2. request' = [request EXCEPT ![s] = q]
    BY <1>3 DEF FetchPayment, Goto
  <2>3. UNCHANGED <<orders, captured, txs, sequence>>
    BY DEF FetchPayment
  <2>. HIDE DEF q
  <2>. QED
    BY <1>2, <1>3, <2>1, <2>2, <2>3, MoveKeeps DEF q, Parts
<1>4. CASE request[s].payment \notin captured
  BY <1>2, <1>4, MoveKeeps DEF FetchPayment, Goto, Idle, Parts
<1>. QED
  BY <1>3, <1>4

\* The reservation found the order created: nothing was sent for it, and nobody works
\* on it.
LEMMA ReserveKeeps ==
  ASSUME Inv, NEW s \in Slots, Reserve(s)
  PROVE  Inv'
<1>. DEFINE p == request[s].payment
            o == OrderOf[p]
            q == [request[s] EXCEPT !.at = "load"]
            free == orders[o].status = "created" /\ \A other \in Orders : orders[other].payment # p
<1>1. request[s] \in Handlers /\ request[s].at = "reserve"
  BY DEF Reserve, Inv, StateTypes
<1>2. /\ p \in Payments /\ p \in captured /\ o \in Orders
      /\ q \in Handlers /\ q.at = "load" /\ q.payment = p
      /\ Idle \in Handlers
  BY <1>1, FiatAssumption DEF Handlers, Idle, Inv, FetchedIsCaptured, Fetched
<1>3. CASE ~free
  BY <1>2, <1>3, MoveKeeps DEF Reserve, Goto, Idle, Parts
<1>4. CASE free
  <2>1. /\ request' = [request EXCEPT ![s] = q]
        /\ orders' = [orders EXCEPT ![o].status = "paid", ![o].payment = p]
        /\ UNCHANGED <<captured, txs, sequence>>
    BY <1>4 DEF Reserve, Goto
  <2>2. /\ request' \in [Slots -> Handlers]
        /\ request'[s] = q
        /\ \A t \in Slots : t # s => request'[t] = request[t]
    BY <1>2, <2>1, OneMoves DEF Inv
  <2>3. /\ orders' \in [Orders -> FiatOrders]
        /\ orders'[o].status = "paid" /\ orders'[o].payment = p /\ orders'[o].tx = orders[o].tx
        /\ \A other \in Orders : other # o => orders'[other] = orders[other]
    BY <1>2, <2>1 DEF Inv, StateTypes, FiatOrders, Statuses
  <2>4. OrderAt(s)' = o /\ ~Working(s)
    BY <1>1, <1>2, <2>2 DEF OrderAt, Working
  <2>5. ASSUME NEW t \in Slots, Working(t)', t # s
        PROVE  /\ Working(t) /\ OrderAt(t)' = OrderAt(t) /\ OrderAt(t) \in Orders
               /\ orders[OrderAt(t)].status = "paid" /\ OrderAt(t) # o
    <3>1. Working(t) /\ OrderAt(t)' = OrderAt(t)
      BY <2>2, <2>5 DEF Working, OrderAt
    <3>2. orders[OrderAt(t)].status = "paid"
      BY <3>1 DEF Inv, ReservedByWorker
    <3>3. request[t] \in Handlers /\ request[t].at # "idle"
      BY <3>1 DEF Inv, StateTypes, Working
    <3>4. OrderAt(t) \in Orders
      BY <3>3, HandlerShape, FiatAssumption DEF OrderAt
    <3>. QED
      BY <1>4, <3>1, <3>2, <3>4
  <2>6. ~SentFor(o)
    BY <1>2, <1>4 DEF Inv, NothingSentYet
  <2>. HIDE DEF p, o, q, free
  <2>7. StateTypes'
    BY <2>1, <2>2, <2>3 DEF Inv, StateTypes
  <2>8. TypeOK'
    BY <1>2, <2>1, <2>3 DEF Inv, StateTypes, FiatOrders, Statuses, TypeOK
  <2>9. FetchedIsCaptured'
    BY <1>2, <2>1, <2>2 DEF Inv, FetchedIsCaptured, Fetched, Working
  <2>10. ReservedByWorker'
    BY <2>3, <2>4, <2>5 DEF ReservedByWorker
  <2>11. OneWorkerPerOrder'
    BY <2>4, <2>5 DEF Inv, OneWorkerPerOrder
  <2>12. NothingSentYet'
    <3>1. \A other \in Orders : orders'[other].status \in {"none", "created"} => ~SentFor(other)
      BY <2>3 DEF Inv, NothingSentYet
    <3>2. ASSUME NEW t \in Slots, request'[t].at \in {"load", "submit"}
          PROVE  ~SentFor(OrderAt(t)')
      BY <2>2, <2>4, <2>5, <2>6, <3>2 DEF Inv, NothingSentYet, Working
    <3>. QED
      BY <2>1, <3>1, <3>2 DEF NothingSentYet, SentFor
  <2>13. WatchesOwnPayout'
    BY <1>2, <2>1, <2>2 DEF Inv, WatchesOwnPayout, OrderAt
  <2>14. PaidOutOnce' /\ PayoutsArePaidFor'
    BY <2>1 DEF Inv, PaidOutOnce, PayoutsArePaidFor
  <2>15. FulfilledMeansPaidOut'
    BY <2>1, <2>3 DEF Inv, FulfilledMeansPaidOut
  <2>. QED
    BY <2>7, <2>8, <2>9, <2>10, <2>11, <2>12, <2>13, <2>14, <2>15 DEF Inv
<1>. QED
  BY <1>3, <1>4

LEMMA LoadAccountKeeps ==
  ASSUME Inv, NEW s \in Slots, LoadAccount(s)
  PROVE  Inv'
<1>. DEFINE submit == [at |-> "submit", payment |-> request[s].payment, sequence |-> sequence]
            fail == [request[s] EXCEPT !.at = "fail"]
<1>1. request[s] \in Handlers /\ request[s].at = "load"
  BY DEF LoadAccount, Inv, StateTypes
<1>2. /\ submit \in Handlers /\ submit.at = "submit" /\ submit.payment = request[s].payment
      /\ fail \in Handlers /\ fail.at = "fail" /\ fail.payment = request[s].payment
  BY <1>1 DEF Handlers, Idle, Inv, StateTypes
<1>3. /\ request' = [request EXCEPT ![s] = submit] \/ request' = [request EXCEPT ![s] = fail]
      /\ UNCHANGED <<orders, captured, txs, sequence>>
  BY DEF LoadAccount, Goto
<1>. HIDE DEF submit, fail
<1>. QED
  BY <1>1, <1>2, <1>3, MoveKeeps DEF Working, Parts

LEMMA OutcomeKeeps ==
  ASSUME Inv, NEW s \in Slots, Outcome(s)
  PROVE  Inv'
<1>. DEFINE at == IF txs[request[s].tx].state = "landed" THEN "fulfil" ELSE "fail"
            q == [request[s] EXCEPT !.at = at]
<1>1. request[s] \in Handlers /\ request[s].at = "wait"
  BY DEF Outcome, Inv, StateTypes
<1>2. /\ q \in Handlers /\ q.at = at
      /\ q.payment = request[s].payment /\ q.tx = request[s].tx
  BY <1>1 DEF Handlers, Idle
<1>3. /\ request' = [request EXCEPT ![s] = q]
      /\ UNCHANGED <<orders, captured, txs, sequence>>
  BY DEF Outcome, Goto
<1>4. /\ at \in {"fulfil", "fail"}
      /\ at = "fulfil" => txs[request[s].tx].state = "landed"
  OBVIOUS
<1>. HIDE DEF q, at
<1>. QED
  BY <1>1, <1>2, <1>3, <1>4, MoveKeeps DEF Working, Parts

LEMMA CrashKeeps ==
  ASSUME Inv, NEW s \in Slots, Crash(s)
  PROVE  Inv'
<1>1. Idle \in Handlers
  BY DEF Handlers
<1>. QED
  BY <1>1, MoveKeeps DEF Crash, Idle, Parts

\* Nothing was sent for the order before, so this payout is its first.
LEMMA SubmitTransactionKeeps ==
  ASSUME Inv, NEW s \in Slots, SubmitTransaction(s)
  PROVE  Inv'
<1>. DEFINE p == request[s].payment
            tx == [order |-> OrderOf[p], payment |-> p,
                   sequence |-> request[s].sequence, state |-> "pending"]
            q == [at |-> "wait", payment |-> p, tx |-> Len(txs) + 1]
<1>1. request[s] \in Handlers /\ request[s].at = "submit" /\ Working(s)
  BY DEF SubmitTransaction, Inv, StateTypes, Working
<1>2. /\ p \in Payments /\ p \in captured /\ OrderOf[p] \in Orders
      /\ request[s].sequence \in Nat
  BY <1>1, HandlerShape, FiatAssumption DEF Inv, FetchedIsCaptured, Fetched
<1>3. txs \in Seq(Payouts) /\ Len(txs) \in Nat /\ tx \in Payouts
  BY <1>2, LenProperties DEF Inv, StateTypes, Payouts
<1>4. q \in Handlers /\ q.at = "wait" /\ q.payment = p /\ q.tx = Len(txs) + 1
  BY <1>2, <1>3 DEF Handlers
<1>5. /\ txs' = Append(txs, tx)
      /\ request' = [request EXCEPT ![s] = q]
      /\ UNCHANGED <<orders, captured, sequence>>
  BY DEF SubmitTransaction, Goto
<1>6. /\ txs' \in Seq(Payouts) /\ Len(txs') = Len(txs) + 1
      /\ \A k \in 1 .. Len(txs) : txs'[k] = txs[k]
      /\ txs'[Len(txs) + 1] = tx
  BY <1>3, <1>5, AppendProperties
<1>7. /\ request' \in [Slots -> Handlers]
      /\ request'[s] = q
      /\ \A t \in Slots : t # s => request'[t] = request[t]
  BY <1>4, <1>5, OneMoves DEF Inv
<1>8. tx.order = OrderAt(s) /\ tx.payment \in captured /\ tx.state = "pending"
  BY <1>2 DEF OrderAt
<1>9. \A t \in Slots : Working(t)' => Working(t) /\ OrderAt(t)' = OrderAt(t)
  BY <1>1, <1>4, <1>7 DEF Working, OrderAt
<1>10. ~SentFor(OrderAt(s)) /\ orders[OrderAt(s)].status = "paid"
  BY <1>1 DEF Inv, NothingSentYet, ReservedByWorker
<1>. HIDE DEF p, tx, q
<1>11. StateTypes'
  BY <1>5, <1>6, <1>7 DEF Inv, StateTypes
<1>12. TypeOK'
  BY <1>3, <1>5, <1>6, <1>8 DEF Inv, TypeOK, NoTx
<1>13. FetchedIsCaptured'
  BY <1>1, <1>5, <1>7, <1>9, <1>4, <1>2 DEF Inv, FetchedIsCaptured, Fetched, Working
<1>14. ReservedByWorker' /\ OneWorkerPerOrder'
  BY <1>5, <1>9 DEF Inv, ReservedByWorker, OneWorkerPerOrder
<1>15. \A o : SentFor(o)' => SentFor(o) \/ o = OrderAt(s)
  <2>1. \A k \in 1 .. Len(txs') : k \in 1 .. Len(txs) \/ k = Len(txs) + 1
    BY <1>3, <1>6
  <2>. QED
    BY <1>6, <1>8, <2>1 DEF SentFor
<1>16. NothingSentYet'
  <2>1. \A o \in Orders : orders'[o].status \in {"none", "created"} => ~SentFor(o)'
    BY <1>5, <1>10, <1>15 DEF Inv, NothingSentYet
  <2>2. ASSUME NEW t \in Slots, request'[t].at \in {"load", "submit"}
        PROVE  ~SentFor(OrderAt(t))'
    <3>1. t # s /\ Working(t) /\ OrderAt(t)' = OrderAt(t)
      BY <1>4, <1>7, <1>9, <2>2 DEF Working
    <3>2. OrderAt(t) # OrderAt(s) /\ ~SentFor(OrderAt(t))
      BY <1>1, <1>7, <2>2, <3>1 DEF Inv, OneWorkerPerOrder, NothingSentYet
    <3>. QED
      BY <1>15, <3>1, <3>2 DEF SentFor
  <2>. QED
    BY <2>1, <2>2 DEF NothingSentYet
<1>17. WatchesOwnPayout'
  <2>1. ASSUME NEW t \in Slots, request'[t].at \in {"wait", "fulfil"}
        PROVE  /\ request'[t].tx \in 1 .. Len(txs')
               /\ txs'[request'[t].tx].order = OrderAt(t)'
               /\ request'[t].at = "fulfil" => txs'[request'[t].tx].state = "landed"
    <3>1. CASE t = s
      BY <1>1, <1>3, <1>4, <1>6, <1>7, <1>8, <1>9, <2>1, <3>1 DEF Working
    <3>2. CASE t # s
      BY <1>3, <1>6, <1>7, <2>1, <3>2 DEF Inv, WatchesOwnPayout, OrderAt
    <3>. QED
      BY <3>1, <3>2
  <2>. QED
    BY <2>1 DEF WatchesOwnPayout
<1>18. PaidOutOnce'
  <2>1. \A k \in 1 .. Len(txs) : txs[k].order # tx.order
    BY <1>8, <1>10 DEF SentFor
  <2>2. \A k \in 1 .. Len(txs') : k \in 1 .. Len(txs) \/ k = Len(txs) + 1
    BY <1>3, <1>6
  <2>. QED
    BY <1>6, <2>1, <2>2 DEF Inv, PaidOutOnce
<1>19. PayoutsArePaidFor'
  BY <1>3, <1>5, <1>6, <1>8 DEF Inv, PayoutsArePaidFor
<1>20. FulfilledMeansPaidOut'
  BY <1>3, <1>5, <1>6 DEF Inv, FulfilledMeansPaidOut, TypeOK, NoTx
<1>. QED
  BY <1>11, <1>12, <1>13, <1>14, <1>16, <1>17, <1>18, <1>19, <1>20 DEF Inv

LEMMA LandKeeps ==
  ASSUME Inv, NEW i \in 1 .. Len(txs), Land(i)
  PROVE  Inv'
<1>1. sequence' \in Nat
  BY DEF Land, Inv, StateTypes
<1>. QED
  BY <1>1, DecideKeeps DEF Land

LEMMA RejectKeeps ==
  ASSUME Inv, NEW i \in 1 .. Len(txs), Reject(i)
  PROVE  Inv'
<1>1. sequence' \in Nat
  BY DEF Reject, Inv, StateTypes
<1>. QED
  BY <1>1, DecideKeeps DEF Reject

LEMMA OthersUseAdminKeeps ==
  ASSUME Inv, OthersUseAdmin
  PROVE  Inv'
BY DEF OthersUseAdmin, Inv, StateTypes, TypeOK, FetchedIsCaptured, Fetched, ReservedByWorker,
  OneWorkerPerOrder, Working, OrderAt, NothingSentYet, SentFor, WatchesOwnPayout, PaidOutOnce,
  PayoutsArePaidFor, FulfilledMeansPaidOut

LEMMA FulfilKeeps ==
  ASSUME Inv, NEW s \in Slots, Fulfil(s)
  PROVE  Inv'
<1>. DEFINE order == [orders[OrderAt(s)] EXCEPT !.status = "fulfilled", !.tx = request[s].tx]
<1>1. request[s] \in Handlers /\ request[s].at = "fulfil" /\ Working(s)
  BY DEF Fulfil, Inv, StateTypes, Working
<1>2. OrderAt(s) \in Orders /\ request[s].tx \in Nat
  BY <1>1, HandlerShape, FiatAssumption DEF OrderAt, Parts, Inv, WatchesOwnPayout
<1>3. /\ request[s].tx \in 1 .. Len(txs)
      /\ txs[request[s].tx].order = OrderAt(s) /\ txs[request[s].tx].state = "landed"
  BY <1>1 DEF Inv, WatchesOwnPayout
<1>4. /\ order \in FiatOrders /\ order.status = "fulfilled" /\ order.tx = request[s].tx
      /\ order.payment = orders[OrderAt(s)].payment
  BY <1>2 DEF Inv, StateTypes, FiatOrders, Statuses
<1>5. /\ orders' = [orders EXCEPT ![OrderAt(s)] = order]
      /\ request' = [request EXCEPT ![s] = Idle]
      /\ UNCHANGED <<captured, txs, sequence>>
  BY <1>2 DEF Fulfil, Goto, OrderAt, Inv, StateTypes
<1>. HIDE DEF order
<1>6. order.tx # NoTx
  BY <1>3, <1>4 DEF NoTx
<1>. QED
  BY <1>1, <1>3, <1>4, <1>5, <1>6, RecordKeeps

LEMMA FailKeeps ==
  ASSUME Inv, NEW s \in Slots, Fail(s)
  PROVE  Inv'
<1>. DEFINE order == [orders[OrderAt(s)] EXCEPT !.status = "failed"]
<1>1. request[s] \in Handlers /\ request[s].at = "fail" /\ Working(s)
  BY DEF Fail, Inv, StateTypes, Working
<1>2. OrderAt(s) \in Orders
  BY <1>1, HandlerShape, FiatAssumption DEF OrderAt
<1>3. /\ order \in FiatOrders /\ order.status = "failed"
      /\ order.payment = orders[OrderAt(s)].payment
      /\ order.tx \in {NoTx} \cup 1 .. Len(txs)
  BY <1>2 DEF Inv, StateTypes, FiatOrders, Statuses, TypeOK
<1>4. /\ orders' = [orders EXCEPT ![OrderAt(s)] = order]
      /\ request' = [request EXCEPT ![s] = Idle]
      /\ UNCHANGED <<captured, txs, sequence>>
  BY <1>2 DEF Fail, Goto, OrderAt, Inv, StateTypes
<1>. HIDE DEF order
<1>. QED
  BY <1>1, <1>3, <1>4, RecordKeeps

LEMMA NextKeeps ==
  ASSUME Inv, [Next]_vars
  PROVE  Inv'
<1>1. CASE UNCHANGED vars
  BY <1>1 DEF vars, Inv, StateTypes, TypeOK, FetchedIsCaptured, Fetched, ReservedByWorker,
    OneWorkerPerOrder, Working, OrderAt, NothingSentYet, SentFor, WatchesOwnPayout, PaidOutOnce,
    PayoutsArePaidFor, FulfilledMeansPaidOut
<1>2. ASSUME NEW s \in Slots, Step(s)
      PROVE  Inv'
  BY <1>2, FetchPaymentKeeps, ReserveKeeps, LoadAccountKeeps, SubmitTransactionKeeps,
    OutcomeKeeps, FulfilKeeps, FailKeeps DEF Step
<1>. QED
  BY <1>1, <1>2, CreateOrderKeeps, CaptureKeeps, LoadOrderKeeps, CrashKeeps, LandKeeps,
    RejectKeeps, OthersUseAdminKeeps DEF Next

-----------------------------------------------------------------------------
(* The theorems *)

\* The reservation of an order, the work of its handler and the payouts sent agree at
\* all times.
THEOREM InvHolds == Spec => []Inv
<1>1. Inv /\ [Next]_vars => Inv'
  BY NextKeeps
<1>. QED
  BY <1>1, InitInv, PTL DEF Spec

\* Documents, handlers and payouts keep their types.
THEOREM TypeCorrect == Spec => []TypeOK
<1>1. Inv => TypeOK
  BY DEF Inv
<1>. QED
  BY <1>1, InvHolds, PTL

\* However many handlers verify an order at once or after each other, at most one
\* payout is sent for it, and only after Razorpay captured its payment.
THEOREM OnePayoutPerPayment == Spec => []EachPaymentPaysOnce
<1>1. Inv => EachPaymentPaysOnce
  BY DEF Inv, EachPaymentPaysOnce
<1>. QED
  BY <1>1, InvHolds, PTL

\* An order that reads fulfilled was paid out by the transaction it names.
THEOREM FulfilledOrdersArePaidOut == Spec => []FulfilledMeansPaidOut
<1>1. Inv => FulfilledMeansPaidOut
  BY DEF Inv
<1>. QED
  BY <1>1, InvHolds, PTL

\* No handler, however late, changes the outcome recorded of an order: only the handler
\* that reserved it writes, and it writes while the order reads paid.
THEOREM RecordedOutcomesAreFinal == Spec => OutcomesAreFinal
<1>. DEFINE Final == \A o \in Orders :
              orders[o].status \in {"fulfilled", "failed"} => orders'[o].status = orders[o].status
<1>1. ASSUME Inv, Next
      PROVE  Final
  <2>1. ASSUME NEW o \in Orders, CreateOrder(o)
        PROVE  Final
    BY <1>1, <2>1 DEF CreateOrder, Inv, StateTypes, FiatOrders, Statuses
  <2>2. ASSUME NEW s \in Slots, Reserve(s)
        PROVE  Final
    BY <1>1, <2>2 DEF Reserve, Inv, StateTypes, FiatOrders, Statuses
  <2>3. ASSUME NEW s \in Slots, Fulfil(s) \/ Fail(s)
        PROVE  Final
    <3>1. orders[OrderAt(s)].status = "paid"
      BY <1>1, <2>3 DEF Inv, ReservedByWorker, Working, Fulfil, Fail
    <3>. QED
      BY <1>1, <2>3, <3>1 DEF Fulfil, Fail, OrderAt, Inv, StateTypes, FiatOrders, Statuses
  <2>4. CASE orders' = orders
    BY <2>4
  <2>. QED
    BY <1>1, <2>1, <2>2, <2>3, <2>4 DEF Next, Step, Capture, LoadOrder, FetchPayment, LoadAccount,
      SubmitTransaction, Outcome, Crash, Land, Reject, OthersUseAdmin
<1>2. Inv /\ [Next]_vars => [Final]_vars
  BY <1>1
<1>. QED
  BY <1>2, InvHolds, PTL DEF Spec, OutcomesAreFinal

=============================================================================
