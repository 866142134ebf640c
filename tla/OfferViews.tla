----------------------------- MODULE OfferViews -----------------------------
(***************************************************************************)
(* What offers.service.ts tells buyers and sellers about the market:       *)
(* counts over the two collections, and the scores and tones computed from *)
(* them.  Wordings and dates are left out.  Rates of completion are in     *)
(* tenths of a percent, rounded as toFixed(1) rounds.                      *)
(***************************************************************************)
EXTENDS Offers

CONSTANTS RoutedLimit,   \* completed swaps of a seller read for his metrics (5)
          OutcomeLimit   \* outcomes listed in his workspace (8)

ViewsAssumption == OffersAssumption /\ RoutedLimit \in Nat /\ OutcomeLimit \in Nat

Pairs == {<<"XLM", "USDC">>, <<"USDC", "XLM">>}
InExecution == {"proofs_pending", "proofs_ready", "executing"}

Clamp(low, high, x) == Max({low, Min({high, x})})

\* countDocuments, over one or several listings, or over a seller.
CountOf(os, statuses) ==
  Cardinality({k \in DOMAIN swaps : swaps[k].offer \in os /\ swaps[k].status \in statuses})
SellerCount(m, statuses) ==
  Cardinality({k \in DOMAIN swaps : swaps[k].bob = m /\ swaps[k].status \in statuses})
Since(os, status, age) ==
  Cardinality({k \in DOMAIN swaps : swaps[k].offer \in os /\ swaps[k].status = status
                                    /\ swaps[k].age <= age})

\* sort({ completedAt: -1 }).limit(n), or slice(0, n) of a list sorted by updatedAt.
Newest(ks, n) == {k \in ks : Cardinality({j \in ks : j > k}) < n}

CompletedBy(m) == {k \in DOMAIN swaps : swaps[k].bob = m /\ swaps[k].status = "completed"}

\* A seller or a listing without outcomes has a perfect record.
CompletionRate(done, failed) ==
  IF done + failed = 0 THEN 1000 ELSE (2000 * done + done + failed) \div (2 * (done + failed))

\* The mean of some amounts, in hundredths, of the swaps ks.
MeanTicket(ks, ticket) ==
  IF ks = {} THEN 0
  ELSE (100 * MapThenSumSet(LAMBDA k : ticket[k], ks)) \div Cardinality(ks)

MerchantMetrics(m, o) ==
  [completedAsSeller |-> SellerCount(m, {"completed"}),
   failedAsSeller |-> SellerCount(m, {"failed"}),
   pendingAsSeller |-> SellerCount(m, {"requested"}),
   activeAsSeller |-> SellerCount(m, InExecution),
   \* of the seller's last completed ones only
   routedThroughThisOffer |->
     Cardinality({k \in Newest(CompletedBy(m), RoutedLimit) : swaps[k].offer = o}),
   completionRate |-> CompletionRate(SellerCount(m, {"completed"}), SellerCount(m, {"failed"}))]

OfferMetrics(o) ==
  LET done == {k \in DOMAIN swaps : swaps[k].offer = o /\ swaps[k].status = "completed"} IN
  [openRequests |-> CountOf({o}, {"requested"}),
   activeExecutions |-> CountOf({o}, InExecution),
   completedSwaps |-> Cardinality(done),
   failedSwaps |-> CountOf({o}, {"failed"}),
   recentCompletedSwaps |-> Since({o}, "completed", 1),
   averageTicketSize |-> MeanTicket(done, [k \in done |-> swaps[k].amountIn]),
   completionRate |-> CompletionRate(Cardinality(done), CountOf({o}, {"failed"}))]

RequestGuidance(o) ==
  LET ms == MerchantMetrics(offers[o].merchant, o)
      om == OfferMetrics(o)
  IN [confidenceScore |->
        Clamp(5, 99, (55 * ms.completionRate + 25 * om.completionRate
                      + 1000 * Min({3 * om.completedSwaps, 20}) + 500) \div 1000),
      backlogLevel |-> IF om.openRequests >= 5 THEN "heavy"
                       ELSE IF om.openRequests >= 2 THEN "moderate" ELSE "light",
      recommendedMode |-> IF om.activeExecutions > 0 \/ om.openRequests > 0
                            THEN "private" ELSE "public"]

EnrichOffer(o) ==
  [listing |-> offers[o], merchantMetrics |-> MerchantMetrics(offers[o].merchant, o),
   offerMetrics |-> OfferMetrics(o), requestGuidance |-> RequestGuidance(o)]

-----------------------------------------------------------------------------
(* The market *)

\* getPairMetrics: the swaps counted are those of the listings that are up.
PairMetrics(pair) ==
  LET up == {o \in FindAll(0) : <<offers[o].assetIn, offers[o].assetOut>> = pair} IN
  [activeOffers |-> Cardinality(up),
   pairOpenRequests |-> CountOf(up, {"requested"}),
   pairCompletedSwaps |-> CountOf(up, {"completed"}),
   rates |-> {offers[o].rate : o \in up}]

MarketHighlights ==
  LET count(status) == CountOf(DOMAIN offers, {status}) IN
  [activeOffers |-> Cardinality(FindAll(0)), openRequests |-> count("requested"),
   proofsReady |-> count("proofs_ready"), executing |-> count("executing"),
   completedLastWeek |-> Since(DOMAIN offers, "completed", 1)]

RatePosition(rate, rates) ==
  IF rates = {} THEN "first_listing"
  ELSE IF 100 * rate < 85 * Min(rates) THEN "aggressive_low"
  ELSE IF rate < Min(rates) THEN "discount_edge"
  ELSE IF 100 * rate > 115 * Max(rates) THEN "aggressive_high"
  ELSE IF rate > Max(rates) THEN "premium_edge"
  ELSE "balanced"

Insights(o) ==
  [enriched |-> EnrichOffer(o),
   pairMetrics |-> PairMetrics(<<offers[o].assetIn, offers[o].assetOut>>)]

\* What a seller is told of a listing before publishing it.  A pair without listings
\* costs as many points as an extreme rate: only 'balanced' and the edges are spared.
PreviewCreate(m, data) ==
  LET pm == PairMetrics(<<data.assetIn, data.assetOut>>)
      ms == MerchantMetrics(m, "none")
      hint == RatePosition(data.rate, pm.rates)
      band == data.max - data.min
      focused == 4 * band > 1 /\ band <= 5
      score == Clamp(10, 99, 55 + Min({3 * ms.completedAsSeller, 15}) - 2 * pm.activeOffers
                 + (IF focused THEN 8 ELSE 0)
                 + (IF hint = "balanced" THEN 10
                    ELSE IF hint \in {"discount_edge", "premium_edge"} THEN 2 ELSE -8))
  IN [saturation |-> IF pm.activeOffers >= 6 THEN "risk"
                     ELSE IF pm.activeOffers >= 3 THEN "caution" ELSE "good",
      placement |-> IF hint \in {"aggressive_low", "aggressive_high"} THEN "risk"
                    ELSE IF hint \in {"discount_edge", "premium_edge"} THEN "caution" ELSE "good",
      bandShape |-> IF 4 * band <= 1 THEN "risk" ELSE IF band <= 5 THEN "good" ELSE "caution",
      seller |-> IF ms.completedAsSeller = 0 THEN "caution"
                 ELSE IF ms.pendingAsSeller + ms.activeAsSeller >= 5 THEN "risk" ELSE "good",
      lower |-> {r \in pm.rates : r <= data.rate}, upper |-> {r \in pm.rates : r >= data.rate},
      readinessScore |-> score,
      launchTone |-> IF score >= 80 THEN "good" ELSE IF score >= 60 THEN "caution" ELSE "risk"]

-----------------------------------------------------------------------------
(* The seller's workspace *)

Pressures == <<"light", "moderate", "heavy">>

QueuePressure(open, inFlight) ==
  LET score == 2 * open + 3 * inFlight IN
  IF score >= 12 THEN "heavy" ELSE IF score >= 5 THEN "moderate" ELSE "light"

QueueCounts(m) == [status \in Statuses |-> SellerCount(m, {status})]

\* Failures count for 72 hours.
QueueHealth(m) ==
  LET n == QueueCounts(m)
      pressure == QueuePressure(n["requested"] + n["proofs_pending"],
                                n["proofs_ready"] + n["executing"])
      stale == Since({o \in DOMAIN offers : offers[o].merchant = m}, "failed", 0)
  IN [pressure |-> pressure, staleFailures |-> stale,
      tone |-> IF stale >= 3 \/ pressure = "heavy" THEN "risk"
               ELSE IF stale > 0 \/ pressure = "moderate" THEN "caution" ELSE "good"]

\* One listing on the seller's board.
OfferBoardItem(o) ==
  LET open == CountOf({o}, {"requested"})
      stalled == CountOf({o}, {"proofs_ready", "executing"})
      om == OfferMetrics(o)
  IN [openBuyerRequests |-> open, stalledExecutions |-> stalled,
      queuePressure |-> QueuePressure(open, stalled),
      healthTone |->
        IF ~ offers[o].active THEN "caution"
        ELSE IF open >= 3 \/ stalled >= 2 THEN "risk"
        ELSE IF RequestGuidance(o).backlogLevel = "heavy" \/ om.failedSwaps > om.completedSwaps
          THEN "caution" ELSE "good"]

PairCoverage(m) ==
  [pair \in Pairs |->
     LET own == Cardinality({o \in FindAll(0) : /\ offers[o].merchant = m
                               /\ <<offers[o].assetIn, offers[o].assetOut>> = pair})
         demand == PairMetrics(pair).pairOpenRequests
     IN [activeOffers |-> own, openRequests |-> demand,
         recommendation |-> IF own = 0 /\ demand > 0 THEN "cover it"
                            ELSE IF own > 0 /\ demand = 0 THEN "tighten"
                            ELSE IF own > 0 THEN "execute" ELSE "optional"]]

Workspace(m) ==
  LET own == {o \in DOMAIN offers : offers[o].merchant = m} IN
  [total |-> Cardinality(own), active |-> Cardinality(own \cap FindAll(0)),
   paused |-> Cardinality(own \ FindAll(0)),
   queue |-> QueueCounts(m), completionRate |-> MerchantMetrics(m, "none").completionRate,
   averageTicketSize |->
     MeanTicket(CompletedBy(m), [k \in DOMAIN swaps |-> Max({swaps[k].amountIn, swaps[k].amountOut})]),
   queueHealth |-> QueueHealth(m), offerBoard |-> [o \in own |-> OfferBoardItem(o)],
   pairCoverage |-> PairCoverage(m),
   recentOutcomes |->
     Newest({k \in DOMAIN swaps : swaps[k].offer \in own /\ HasOutcome(swaps[k])}, OutcomeLimit)]

-----------------------------------------------------------------------------
(* Properties *)

Rank(pressure) == CHOOSE i \in DOMAIN Pressures : Pressures[i] = pressure

\* A seller's queue is read once by seller and once by listing; the two agree, on the
\* seller's own page and on the market's: every swap counts for the seller whose listing
\* it came from, no listing is under more pressure than its seller, and every open
\* request is in some seller's queue.  The two short lists fall short of the counts
\* beside them by their limits and by nothing else: the seller's last completed swaps
\* are spread over his listings, and his last outcomes, completed and failed, are
\* found through his listings.
BoardsCountTheSame ==
  /\ \A m \in Users :
       LET w == Workspace(m)
           own == DOMAIN w.offerBoard
       IN /\ w.queue["requested"] = SumFunction([o \in own |-> OfferMetrics(o).openRequests])
          /\ MerchantMetrics(m, "none").activeAsSeller
               = SumFunction([o \in own |-> OfferMetrics(o).activeExecutions])
          /\ Cardinality(w.recentOutcomes)
               = Min({OutcomeLimit, w.queue["completed"] + w.queue["failed"]})
          /\ Min({RoutedLimit, w.queue["completed"]})
               = SumFunction([o \in own |-> MerchantMetrics(m, o).routedThroughThisOffer])
          /\ \A o \in own : Rank(w.offerBoard[o].queuePressure) <= Rank(w.queueHealth.pressure)
  /\ MarketHighlights.openRequests = SumFunction([m \in Users |-> QueueCounts(m)["requested"]])
=============================================================================
