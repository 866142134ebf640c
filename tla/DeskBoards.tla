----------------------------- MODULE DeskBoards -----------------------------
(***************************************************************************)
(* The pages that are computed from other pages (users.service.ts):        *)
(* contacts, portfolio, playbook, settlement and liquidity.  Those others  *)
(* are their parameters: h the history, c the contacts, ac the action      *)
(* center.  DeskAdvice lets a user follow what the pages say.              *)
(***************************************************************************)
EXTENDS DeskViews

CONSTANTS OpenOffers, \* offers in the database, the statistics' openOffers
          ActiveUsers \* users active within a day

Shielded(seeded, visible) == IF seeded THEN "ready" ELSE IF visible THEN "attention" ELSE "blocked"
Flag(bad) == IF bad THEN "attention" ELSE "ready"
Tally(board, tone) == Quantify(DOMAIN board, LAMBDA x : board[x] = tone)

Visible == PublicTotal > 0
Capital == PublicTotal + PrivateTotal
Market == MarketCount(Live)
MarketWaits == MarketCount({"proofs_ready", "requested"}) > 0

-----------------------------------------------------------------------------
(* Contacts *)

\* getContactsWorkspace, the card of the counterparty with these history entries.
CardOf(entries, private, swap, asset, preview) ==
  LET failed == Quantify(entries, IsFailed)
      route == IF preview.recommended = "private" THEN preview.private ELSE preview.public
  IN [interactions |-> Cardinality(entries), failed |-> failed,
      trust |-> Clamp(5, 99, 8 * Cardinality(entries) + 6 * private + 7 * swap
                             - 10 * failed - 4 * Quantify(entries, IsPending)),
      asset |-> asset, route |-> preview.recommended,
      readiness |-> Tone(route.ready, route.available)]

\* The asset and the route suggested for the counterparty.
CardFor(entries, private, swap, asset) ==
  CardOf(entries, private, swap, asset, PreviewSend(asset, 1))
CardOn(entries, private, swap) ==
  CardFor(entries, private, swap,
          IF private >= swap /\ Private("USDC") > 0 THEN "USDC" ELSE IF HasXlm THEN "XLM" ELSE "USDC")
ContactCard(entries) ==
  CardOn(entries, Quantify(entries, LAMBDA e : e.private),
         Quantify(entries, LAMBDA e : e.category = "swap"))

ContactCards(h) == [p \in DOMAIN h.counterparties |-> ContactCard(h.counterparties[p])]

\* The most frequent counterparty, or nobody.
TopContact(cards) ==
  IF DOMAIN cards = {} THEN "nobody"
  ELSE CHOOSE p \in DOMAIN cards :
         \A q \in DOMAIN cards : cards[p].interactions >= cards[q].interactions

ContactsOf(h, cards) ==
  LET routes == [p \in DOMAIN cards |-> cards[p].route]
      readiness == [p \in DOMAIN cards |-> cards[p].readiness]
      blocked == Tally(readiness, "blocked")
  IN [cards |-> cards, count |-> Cardinality(DOMAIN cards),
      privatePreferred |-> Tally(routes, "private"), publicPreferred |-> Tally(routes, "public"),
      blocked |-> blocked, attention |-> Tally(readiness, "attention"),
      actions |-> Suggested([fund |-> ~ HasXlm, seed |-> ~ Seeded, unblock |-> blocked > 0,
                             failures |-> h.topBucket > 0])]
Contacts(h) == ContactsOf(h, ContactCards(h))

-----------------------------------------------------------------------------
(* Portfolio *)

\* getPortfolioWorkspace: what is held, and where.
Allocation ==
  [lane \in {"public", "private"}, a \in Assets |->
     LET held == IF lane = "public" THEN Public(a) ELSE Private(a)
     IN [amount |-> held, share |-> Share(held, Capital)]]

RouteRisk ==
  [public_send |-> IF Visible THEN "ready" ELSE "blocked",
   private_send |-> Shielded(Seeded, Visible),
   market |-> IF MarketWaits THEN "attention" ELSE IF Market > 0 THEN "ready" ELSE "info",
   ops |-> Flag(~ OpsReady)]

Rebalance(h, c) ==
  Suggested([fund |-> ~ Visible, seed |-> ~ Seeded /\ Visible, process |-> PendingCount > 0,
             usdc |-> Public("USDC") + Private("USDC") = 0 /\ HasUsdcTrustline,
             shield |-> c.privatePreferred > c.publicPreferred /\ ~ Seeded,
             failures |-> h.failed > 0])

Portfolio(h, c, ac) ==
     [allocation |-> Allocation, routeRisk |-> RouteRisk,
      signals |-> [public |-> Share(PublicTotal, Capital), private |-> Share(PrivateTotal, Capital),
                   contacts |-> {c.cards[p].trust : p \in DOMAIN c.cards}],
      flowMix |-> h.byCategory,
      rebalance |-> Rebalance(h, c),
      links |-> [funding |-> IF ~ HasXlm THEN "critical" ELSE IF ~ Seeded THEN "warning" ELSE "info",
                 wallet |-> IF PendingCount > 0 THEN "warning" ELSE "info",
                 actions |-> IF ac.critical > 0 THEN "critical"
                             ELSE IF ac.caution > 0 THEN "warning" ELSE "info",
                 contacts |-> IF c.blocked > 0 THEN "warning" ELSE "info"],
      health |-> IF ~ HasXlm THEN "blocked"
                 ELSE IF h.failed > h.completed \/ ~ OpsReady THEN "attention" ELSE "ready"]

-----------------------------------------------------------------------------
(* Playbook *)

\* getPlaybookWorkspace: which operations the sponsor would pay for.  A recipient is known
\* when there is a contact.
SponsorBoard(c) ==
  [op \in SponsoredOps |->
     LET s == Sponsorship(op, 1, TopContact(c.cards) # "nobody")
     IN Tone(s.sponsored, s.supported)]

RouteComparisons(c) ==
  [visible |-> IF Visible THEN "ready" ELSE "blocked",
   shielded |-> Shielded(Seeded, Visible),
   relationship |-> IF c.count = 0 THEN "blocked" ELSE c.cards[TopContact(c.cards)].readiness,
   ops |-> Tone(OpsReady, lag > 0)]

\* The scenarios that set the wallet up.
SetupScenarios(h) ==
  [bootstrap |-> [tone |-> IF HasXlm THEN "ready" ELSE "blocked",
                  blockers |-> Suggested([fund |-> ~ HasXlm, status |-> lag > 0,
                                          failures |-> h.failed > 0])],
   seed |-> [tone |-> Tone(Seeded, HasXlm \/ HasUsdc),
             blockers |-> Suggested([fund |-> ~ Visible, trustline |-> ~ HasUsdcTrustline /\ ~ HasUsdc,
                                     status |-> lag > 0])]]

\* The scenarios that use it.
RunningScenarios(h, c) ==
  LET top == TopContact(c.cards)
      readiness == RouteComparisons(c).relationship
      drag == h.pending > 0 \/ h.failed > 0
  IN [repeat |-> [tone |-> readiness,
                  blockers |-> Suggested([contact |-> top = "nobody",
                                          prepare |-> top # "nobody" /\ readiness # "ready",
                                          failures |-> top # "nobody" /\ c.cards[top].failed > 0])],
      clear |-> [tone |-> Flag(drag),
                 blockers |-> Suggested([status |-> lag > 0, cleanup |-> drag])],
      grow |-> [tone |-> IF Capital = 0 THEN "blocked" ELSE IF Market > 0 THEN "ready" ELSE "attention",
                blockers |-> Suggested([fund |-> Capital = 0, trustline |-> ~ HasUsdcTrustline,
                                        proofs |-> MarketCount({"proofs_pending"}) > 0])]]

Scenarios(h, c) == SetupScenarios(h) @@ RunningScenarios(h, c)

ActionRail(c) ==
  [funding |-> IF HasXlm THEN "info" ELSE "critical",
   wallet |-> IF Seeded THEN "info" ELSE IF Visible THEN "warning" ELSE "critical",
   send |-> IF RouteComparisons(c).relationship = "ready" THEN "info" ELSE "warning",
   status |-> IF OpsReady THEN "info" ELSE "warning"]

Posture(h, c, ac) ==
     [readiness |-> Portfolio(h, c, ac).health,
      capital |-> IF Capital = 0 THEN "unfunded"
                  ELSE IF PrivateTotal > PublicTotal THEN "private-led"
                  ELSE IF 2 * PublicTotal > 3 * PrivateTotal THEN "public-led" ELSE "balanced",
      market |-> IF Market = 0 THEN "early" ELSE IF MarketWaits THEN "pressed" ELSE "calm",
      relationship |-> IF c.count = 0 THEN "cold"
                       ELSE IF c.privatePreferred > c.publicPreferred THEN "private" ELSE "visible",
      risk |-> IF h.failed = 0 /\ lag = 0 THEN "healthy"
               ELSE IF h.pending > 0 THEN "cleanup" ELSE "watchful"]

Playbook(h, c, ac) ==
  LET scenarios == Scenarios(h, c)
      tones == [s \in DOMAIN scenarios |-> scenarios[s].tone]
  IN [scenarios |-> scenarios, executable |-> Tally(tones, "ready"), blocked |-> Tally(tones, "blocked"),
   readyRoutes |-> Tally(RouteRisk, "ready"), sponsored |-> Tally(SponsorBoard(c), "ready"),
   urgent |-> ac.critical, routes |-> RouteComparisons(c), rail |-> ActionRail(c),
   posture |-> Posture(h, c, ac)]

-----------------------------------------------------------------------------
(* Settlement.  The queue is read whole; the entries T are the latest of the history. *)

\* getSettlementWorkspace.  No audit is ever written for an entry of the queue, so an
\* unprocessed one reads queued.
Queued == Cardinality(Pending)
QueuedOf(a) == Quantify(Pending, LAMBDA i : queue[i].asset = a)
Waits(e) == e.indexing \in {"pending", "lagging"}
PrivatePending(T) == {e \in T : e.private /\ (IsPending(e) \/ Waits(e))}
Retryable(T) == {e \in T : IsFailed(e)}
LaggingPrivate(T) == {e \in T : e.private /\ Waits(e)}
PublicWaiting(T) == {e \in T : ~ e.private /\ (IsPending(e) \/ e.state = "retryable")}

LaneCards(T) ==
  [visible |-> IF PublicWaiting(T) # {} THEN "attention" ELSE IF Visible THEN "ready" ELSE "blocked",
   private |-> IF PrivatePending(T) # {} THEN "attention" ELSE IF Seeded THEN "ready"
               ELSE IF Visible THEN "info" ELSE "blocked",
   queue |-> Flag(Queued > 0),
   ops |-> Tone(OpsReady, lag > 0)]

TransitionBoard(h) ==
  [private_to_public |-> IF Queued > 0 THEN "attention" ELSE IF Seeded THEN "ready" ELSE "blocked",
   public_to_private |-> IF ~ Visible THEN "blocked" ELSE IF Seeded THEN "ready" ELSE "info",
   audits |-> IF h.failed > 0 \/ h.pending > 0 THEN "attention"
              ELSE IF h.completed > 0 THEN "ready" ELSE "info"]

RiskBoard(T) ==
  [queue |-> Flag(Queued > 0), retries |-> Flag(Retryable(T) # {}),
   indexer |-> Flag(LaggingPrivate(T) # {} \/ lag > 0),
   liquidity |-> IF Visible THEN "info" ELSE "blocked"]

AssetWindows ==
  [a \in Assets |->
     [queued |-> QueuedOf(a),
      tone |-> IF Private(a) > 0 /\ Public(a) = 0 THEN "attention"
               ELSE IF Public(a) > 0 \/ Private(a) > 0 THEN "ready" ELSE "blocked"]]

SettlementActions(T) ==
  Suggested([process |-> Queued > 0, retries |-> Retryable(T) # {},
             status |-> ~ OpsReady, seed |-> ~ Seeded /\ Visible])

Settlement(h, T) ==
  [queued |-> Queued, retryable |-> Cardinality(Retryable(T)),
   lagging |-> Cardinality(LaggingPrivate(T)), readyLanes |-> Tally(LaneCards(T), "ready"),
   lanes |-> LaneCards(T), transitions |-> TransitionBoard(h), risks |-> RiskBoard(T), windows |-> AssetWindows,
   actions |-> SettlementActions(T)]

-----------------------------------------------------------------------------
(* Liquidity; s is the settlement page *)

\* getLiquidityWorkspace: the queue's amounts are those of the wallet page.
Recovering(s) == s.queued > 0 \/ s.retryable > 0
MarketOpen == Market > 0 \/ OpenOffers > 0

DeploymentWindows(s) ==
  [visible |-> IF Visible THEN "ready" ELSE "blocked",
   shielded |-> Shielded(PrivateTotal > 0, Visible),
   market |-> IF Capital = 0 THEN "blocked" ELSE IF MarketOpen THEN "ready" ELSE "attention",
   recovery |-> IF Recovering(s) THEN "attention" ELSE IF Visible THEN "ready" ELSE "blocked"]

CapitalLanes ==
  [public_xlm |-> IF HasXlm THEN "ready" ELSE "blocked",
   public_usdc |-> Tone(HasUsdc, HasUsdcTrustline),
   private_xlm |-> IF Private("XLM") > 0 THEN "ready" ELSE IF Visible THEN "info" ELSE "blocked",
   private_usdc |-> IF Private("USDC") > 0 THEN "ready" ELSE IF Visible THEN "info" ELSE "blocked"]

IdleCapital(c) ==
  [public |-> IF ~ Visible THEN "blocked"
              ELSE IF PrivateTotal = 0 /\ Market = 0 THEN "attention" ELSE "info",
   private |-> IF PrivateTotal = 0 THEN "blocked"
               ELSE IF Queued = 0 /\ c.privatePreferred = 0 /\ Market = 0
                 THEN "attention" ELSE "info",
   queued |-> Flag(Queued > 0),
   relationships |-> Flag(c.blocked > 0)]

DeploymentScenarios ==
  [fees |-> IF HasXlm THEN "ready" ELSE "blocked",
   seed |-> IF PrivateTotal > 0 THEN "ready" ELSE IF Visible THEN "attention" ELSE "blocked",
   stablecoin |-> Tone(HasUsdc, Private("USDC") > 0 \/ QueuedOf("USDC") > 0),
   market |-> IF Capital = 0 THEN "blocked" ELSE IF MarketOpen THEN "ready" ELSE "info"]

PressureBoard(c, s) ==
  [ops |-> Flag(~ OpsReady), queue |-> Flag(Queued > 0),
   relationships |-> IF c.blocked > 0 THEN "attention" ELSE "info",
   activity |-> IF Recovering(s) THEN "attention" ELSE "info"]

RouteRadar(c, s) ==
  [wallet |-> Clamp(0, 100, 12 * Public("XLM") + 6 * Public("USDC")),
   private |-> Clamp(0, 100, 9 * PrivateTotal + 6 * c.privatePreferred),
   market |-> Clamp(0, 100, 5 * (OpenOffers + Cardinality(Known)) + 3 * Capital),
   recovery |-> Clamp(0, 100, 4 * PublicTotal + 9 * s.readyLanes)]

LiquidityActions ==
  Suggested([fund |-> ~ HasXlm, seed |-> Visible /\ PrivateTotal = 0, process |-> Queued > 0,
             market |-> Market = 0 /\ Capital > 0 /\ ActiveUsers > 0])

Liquidity(c, s) ==
  LET windows == DeploymentWindows(s) IN
  [windows |-> windows, lanes |-> CapitalLanes, idle |-> IdleCapital(c),
   scenarios |-> DeploymentScenarios, pressure |-> PressureBoard(c, s), radar |-> RouteRadar(c, s),
   readyWindows |-> Tally(windows, "ready"), blockedWindows |-> Tally(windows, "blocked"),
   actions |-> LiquidityActions]
=============================================================================
