------------------------------- MODULE Offers -------------------------------
(***************************************************************************)
(* The market: offers.service.ts keeps the listings of the sellers, and    *)
(* swap.service.ts turns a buyer's request into a swap and takes a listing *)
(* down when one of its swaps completes.  Requests are handled at the same *)
(* time: each loads a document, looks at it, and writes later.             *)
(*                                                                         *)
(* A swap is only its parties, its amounts and its status; how it gets     *)
(* from one status to the next is SwapService's matter and free here.      *)
(* Swaps are kept in the order of their last change, the newest last: the  *)
(* lists the boards show are sorted by it (updatedAt; completedAt of the   *)
(* completed ones, which do not change any more).                          *)
(***************************************************************************)
EXTENDS Integers, FiniteSets, FiniteSetsExt, SequencesExt, TLC

CONSTANTS Users,        \* who sells and who buys
          OfferIds,     \* the documents of the collection offers
          Rates,        \* rates a listing may have
          Amounts,      \* amounts: limits of listings and tickets
          Slots,        \* handlers at work at the same time
          MaxSwaps,     \* bound: swaps requested, or being requested
          MaxWrites     \* bound: listings created and updates asked for, together

\* What an instance has to assume of the constants.
OffersAssumption ==
  /\ IsFiniteSet(Users)
  /\ Rates \subseteq Nat \ {0} /\ Amounts \subseteq Nat \ {0}
  /\ MaxSwaps \in Nat /\ MaxWrites \in Nat

VARIABLES offers,   \* the documents that exist: a function from some of OfferIds
          swaps,    \* the swaps, a sequence: the one changed last comes last
          jobs,     \* what each handler is doing, and what it has read
          closing,  \* offers of completed swaps, still to be taken down
          updates   \* updates asked for so far

vars == <<offers, swaps, jobs, closing, updates>>

Assets == {"XLM", "USDC"}
Statuses == {"requested", "proofs_pending", "proofs_ready", "executing", "completed", "failed"}
Ages == 0..2    \* 0: less than 72 hours ago, 1: less than 7 days, 2: longer
Idle == [op |-> "idle"]

Writes == Cardinality(DOMAIN offers) + updates

HasOutcome(swap) == swap.status \in {"completed", "failed"}

Init ==
  /\ offers = <<>>
  /\ swaps = <<>>
  /\ jobs = [s \in Slots |-> Idle]
  /\ closing = {}
  /\ updates = 0

\* validateOfferPayload: only what the payload itself says is compared.
ValidPayload(data) ==
  /\ {"assetIn", "assetOut"} \subseteq DOMAIN data => data.assetIn # data.assetOut
  /\ {"min", "max"} \subseteq DOMAIN data => data.min <= data.max

\* buildOfferQuery: an amount, if there is one (0 stands for none), must be in the band.
Matches(offer, amount) ==
  offer.active /\ (amount # 0 => offer.min <= amount /\ amount <= offer.max)

FindAll(amount) == {o \in DOMAIN offers : Matches(offers[o], amount)}

-----------------------------------------------------------------------------
(* The seller's side *)

Create(o, data) ==
  /\ o \notin DOMAIN offers /\ Writes < MaxWrites
  /\ ValidPayload(data)
  /\ LET new == [f \in DOMAIN data \cup {"active"} |-> IF f = "active" THEN TRUE ELSE data[f]]
     IN offers' = [x \in DOMAIN offers \cup {o} |-> IF x = o THEN new ELSE offers[x]]
  /\ UNCHANGED <<swaps, jobs, closing, updates>>

\* update, up to the save: the document is loaded and the patch checked.
UpdateLoad(s, o, merchant, patch) ==
  /\ jobs[s] = Idle /\ o \in DOMAIN offers /\ Writes < MaxWrites
  /\ ValidPayload(patch)
  /\ offers[o].merchant = merchant
  /\ jobs' = [jobs EXCEPT ![s] = [op |-> "update", id |-> o, loaded |-> offers[o], patch |-> patch]]
  /\ updates' = updates + 1
  /\ UNCHANGED <<offers, swaps, closing>>

\* Faulty variant: the whole document is written back.
SavedWhole(job) == job.patch @@ job.loaded

\* Document.save after Object.assign writes the paths whose value differs from the
\* loaded one.
Saved(job) ==
  LET changed == {f \in DOMAIN job.patch : job.patch[f] # job.loaded[f]}
      stored == offers[job.id]
  IN [f \in DOMAIN stored |-> IF f \in changed THEN job.patch[f] ELSE stored[f]]

UpdateSave(s) ==
  /\ jobs[s].op = "update"
  /\ offers' = [offers EXCEPT ![jobs[s].id] = Saved(jobs[s])]
  /\ jobs' = [jobs EXCEPT ![s] = Idle]
  /\ UNCHANGED <<swaps, closing, updates>>

-----------------------------------------------------------------------------
(* The buyer's side *)

\* The page shows the listings for an amount; the buyer asks for one at the rate shown.
Browse(s, buyer, amount) ==
  /\ jobs[s] = Idle
  /\ Len(swaps) + Cardinality({t \in Slots : jobs[t].op \in {"browse", "request"}}) < MaxSwaps
  /\ \E o \in FindAll(amount) :
       jobs' = [jobs EXCEPT ![s] =
                 [op |-> "browse", alice |-> buyer, bob |-> offers[o].merchant, offer |-> o,
                  amountIn |-> amount, amountOut |-> amount * offers[o].rate]]
  /\ UNCHANGED <<offers, swaps, closing, updates>>

\* Faulty variant: whose offer it is is not looked at.
RequestableOfAnyone(ask) == ask.alice # ask.bob /\ offers[ask.offer].active

\* request: its checks, on the offer as it is when the request arrives.
Requestable(ask) ==
  LET offer == offers[ask.offer] IN
  /\ ask.alice # ask.bob
  /\ offer.active
  /\ offer.merchant = ask.bob
  /\ offer.assetIn # offer.assetOut
  /\ offer.min <= ask.amountIn /\ ask.amountIn <= offer.max
  /\ ask.amountOut = ask.amountIn * offer.rate

\* A request names the parties itself: the seller it names is compared with the offer's.
RequestLoad(s, bob) ==
  /\ jobs[s].op = "browse"
  /\ LET ask == [jobs[s] EXCEPT !.bob = bob] IN
     jobs' = [jobs EXCEPT ![s] =
               IF Requestable(ask) THEN [ask EXCEPT !.op = "request"] ELSE Idle]
  /\ UNCHANGED <<offers, swaps, closing, updates>>

RequestCreate(s) ==
  /\ jobs[s].op = "request"
  /\ LET j == jobs[s]
         new == [alice |-> j.alice, bob |-> j.bob, offer |-> j.offer, amountIn |-> j.amountIn,
                 amountOut |-> j.amountOut, status |-> "requested", age |-> 0]
     IN swaps' = Append(swaps, new)
  /\ jobs' = [jobs EXCEPT ![s] = Idle]
  /\ UNCHANGED <<offers, closing, updates>>

-----------------------------------------------------------------------------
(* What happens to a swap meanwhile *)

\* A swap that has settled is taken to completed and its offer is to come down.
Progress(k, status) ==
  /\ swaps[k].status \notin {"completed", status}
  /\ status = "completed" => swaps[k].status = "executing"
  /\ swaps' = Append(RemoveAt(swaps, k), [swaps[k] EXCEPT !.status = status, !.age = 0])
  /\ closing' = IF status = "completed" THEN closing \cup {swaps[k].offer} ELSE closing
  /\ UNCHANGED <<offers, jobs, updates>>

\* deactivateOffer writes one field of the document, whatever else is in it.
DeactivateOffer(o) ==
  /\ o \in closing
  /\ offers' = [offers EXCEPT ![o].active = FALSE]
  /\ closing' = closing \ {o}
  /\ UNCHANGED <<swaps, jobs, updates>>

\* Its error is swallowed: the listing stays up.
DeactivateOfferFails(o) ==
  /\ o \in closing
  /\ closing' = closing \ {o}
  /\ UNCHANGED <<offers, swaps, jobs, updates>>

\* Only outcomes are dated (completedAt, failedAt); what is under way has age 0.
DaysPass ==
  /\ \E k \in DOMAIN swaps : HasOutcome(swaps[k]) /\ swaps[k].age < 2
  /\ swaps' = [k \in DOMAIN swaps |->
                 IF HasOutcome(swaps[k]) THEN [swaps[k] EXCEPT !.age = Min({2, @ + 1})]
                 ELSE swaps[k]]
  /\ UNCHANGED <<offers, jobs, closing, updates>>

Payloads ==
  [merchant : Users, assetIn : Assets, assetOut : Assets, rate : Rates, min : Amounts, max : Amounts]

Patches ==
  [active : BOOLEAN] \cup [rate : Rates] \cup [min : Amounts] \cup [max : Amounts]
  \cup [active : BOOLEAN, rate : Rates] \cup [min : Amounts, max : Amounts]

Next ==
  \/ \E o \in OfferIds, data \in Payloads : Create(o, data)
  \/ \E s \in Slots, o \in OfferIds, u \in Users, patch \in Patches : UpdateLoad(s, o, u, patch)
  \/ \E s \in Slots : UpdateSave(s)
  \/ \E s \in Slots, u \in Users, a \in Amounts : Browse(s, u, a)
  \/ \E s \in Slots, u \in Users : RequestLoad(s, u)
  \/ \E s \in Slots : RequestCreate(s)
  \/ \E k \in DOMAIN swaps, status \in Statuses \ {"requested"} : Progress(k, status)
  \/ \E o \in OfferIds : DeactivateOffer(o)
  \/ \E o \in OfferIds : DeactivateOfferFails(o)
  \/ DaysPass

Spec == Init /\ [][Next]_vars

-----------------------------------------------------------------------------
(* Properties *)

\* A listing that came down with its swap goes up again only because its seller, with the
\* paused listing before him, asked for that: no save of an older copy revives it.
RelistingIsDeliberate ==
  [][\A o \in DOMAIN offers :
       ~ offers[o].active /\ offers'[o].active =>
         \E s \in Slots : /\ jobs[s].op = "update" /\ jobs[s].id = o /\ jobs'[s] = Idle
                          /\ ~ jobs[s].loaded.active /\ jobs[s].patch.active]_vars
=============================================================================
