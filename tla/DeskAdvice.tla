----------------------------- MODULE DeskAdvice -----------------------------
(***************************************************************************)
(* Users and what the pages tell them.  A user either roams, or follows    *)
(* the advice of one page and does nothing else.                           *)
(***************************************************************************)
EXTENDS FiatViews

CONSTANTS Pages        \* pages whose advice a user may follow

VARIABLES guide,       \* the page whose advice the user follows, or "none"
          advice       \* what it said when it was loaded, as far as not done yet

advised == <<guide, advice>>

\* What a page tells the user to do, as tasks of the set Tasks; T are the latest entries.
Tasks == {"fund", "trustline", "seed", "process"}
Open(list, item) == list[item] # "complete"

AdviceOf(page, T, h, c, ac) ==
  Tasks \cap
  CASE page = "auth" ->
         LET next == AuthWorkspace.nextActions IN
         Suggested([fund |-> "funding" \in next, trustline |-> "trustline" \in next,
                    seed |-> "private" \in next])
    [] page = "funding" ->
         LET list == FundingWorkspace.checklist IN
         Suggested([fund |-> Open(list, "xlm_public"), trustline |-> Open(list, "usdc_trustline"),
                    seed |-> Open(list, "private_seed"), process |-> Open(list, "withdrawal_queue")])
    [] page = "actions" -> DOMAIN ac.priorities
    [] page = "contacts" -> c.actions
    [] page = "portfolio" -> Rebalance(h, c)
    [] page = "playbook" ->
         Suggested([fund |-> "fund" \in SetupScenarios(h).bootstrap.blockers,
                    seed |-> SetupScenarios(h).seed.tone # "ready",
                    process |-> "cleanup" \in RunningScenarios(h, c).clear.blockers])
    [] page = "settlement" ->
         SettlementActions(T) \cup (IF TransitionBoard(h).public_to_private = "blocked" THEN {"fund"} ELSE {})
    [] page = "liquidity" -> LiquidityActions
    [] OTHER -> {}

AdviceFrom(page, T, h) == AdviceOf(page, T, h, Contacts(h), ActionCenter(h))

\* What the page may advise, whichever entries the history and the latest of it are.
Advices(page) ==
  UNION {{AdviceFrom(page, L, HistoryOn(T)) : L \in Latest(T)} : T \in Timelines}

-----------------------------------------------------------------------------
(* The users *)

Amounts == 1..Grant

Do(task) ==
  \/ task = "fund" /\ RequestXlm
  \/ task = "trustline" /\ AddTrustline
  \/ task = "seed" /\ \E a \in Assets, v \in Amounts : Deposit(a, v)
  \/ task = "process" /\ \E i \in DOMAIN queue : Process(i)

\* The page is loaded, or loaded again; in between, the user goes by what it said.
Load ==
  /\ guide # "none"
  /\ advice' \in Advices(guide)
  /\ UNCHANGED <<vars, guide>>

Follow(task) ==
  /\ task \in advice /\ Do(task)
  /\ advice' = advice \ {task}
  /\ UNCHANGED guide

\* A user without a guide does what comes to mind.
Roam ==
  \/ \E task \in Tasks : Do(task)
  \/ \E a \in Assets, v \in Amounts :
       \/ WithdrawSelf(a, v) \/ SendPublic(a, v) \/ SendPrivate(a, v)
       \/ \E done \in 1..MaxNotes + 1 : SplitNote(a, v, done)

AdviceInit == Init /\ guide \in Pages \cup {"none"} /\ advice = {}

Next ==
  \/ Load \/ \E task \in Tasks : Follow(task)
  \/ (Services \/ \E a \in Assets : ReceivePrivate(a)) /\ UNCHANGED advised
  \/ guide = "none" /\ (Others \/ Roam) /\ UNCHANGED advised

\* Friendbot answers, the page is looked at again and again while Horizon answers too, and
\* who follows advice gets to it.
Fairness ==
  /\ WF_vars(\E i \in DOMAIN audits : FriendbotPays(i) \/ FriendbotRefuses(i))
  /\ []<>(guide = "none" \/ (horizon /\ advice \in Advices(guide)))
  /\ \A task \in Tasks : SF_<<vars, advised>>(Follow(task))

Spec == AdviceInit /\ [][Next]_<<vars, advised>> /\ Fairness

-----------------------------------------------------------------------------
(* Properties *)

\* The trouble the operators' page shows, with the remedies it lists.
OperatorsAreTold(remedies) ==
  /\ DependencyBoard.indexer # "healthy" => "indexer" \in remedies
  /\ \/ DependencyBoard.wallet # "healthy" \/ RouteHealth.wallet # "healthy"
     \/ "backlog" \in DOMAIN Alerts
     => {"withdrawals", "failures"} \cap remedies # {}
  /\ RouteHealth.market = "warning" => {"market", "failures"} \cap remedies # {}

\* The user's trouble, with what his pages say: T is the history, L the latest of it.
UserIsTold(T, L, h, c, ac) ==
  LET told(task, pages) == \A p \in pages : task \in AdviceOf(p, L, h, c, ac)
  IN /\ RouteHealth.private = "warning" <=>
          /\ "ops" \in DOMAIN ac.priorities /\ ac.routes.status = "critical"
          /\ "status" \in SettlementActions(L) /\ "status" \in AccountWorkspace(h).recovery
     /\ ac.routes.funding = "critical" =>
          told("fund", {"auth", "funding", "actions", "contacts", "portfolio", "settlement", "liquidity"})
     /\ LaneCards(L).queue = "attention" => told("process", {"funding", "actions", "portfolio", "liquidity"})
     /\ (\E i \in Pending : WithdrawalEntry(i) \in T) => told("process", {"playbook"})
     /\ RouteRisk.private_send = "attention" =>
          told("seed", {"auth", "funding", "actions", "contacts", "playbook", "settlement", "liquidity"})

\* Whatever a page or the status page paints as trouble, the other pages know and say what to
\* do about: a dependency or route in trouble has a remedy on the operators' board; an empty
\* account, an unclaimed payment or a lagging index is a task on every page that lists tasks
\* of that kind.  The playbook goes by the history alone: it knows of an unclaimed payment as
\* long as the history lists it.
TroubleHasARemedy ==
  /\ OperatorsAreTold(DOMAIN RemediationBoard)
  /\ \A T \in Timelines :
       \E h \in {HistoryOn(T)} : \E c \in {Contacts(h)}, ac \in {ActionCenter(h)} :
         \A L \in Latest(T) : UserIsTold(T, L, h, c, ac)

\* Who follows one page gets there: some day the user holds a private note.
AdviceLeadsHome == guide # "none" ~> \E a \in Assets : notes[a] # <<>>

=============================================================================
