------------------------------ MODULE OpsBoards ------------------------------
(***************************************************************************)
(* The operators' status page (ops.service.ts): readiness, alerts,         *)
(* dependencies, remedies, throughput, routes and incidents.  They count   *)
(* over the whole database, which here is what Desk keeps.                 *)
(***************************************************************************)
EXTENDS DeskBoards

CONSTANTS BacklogWarns,     \* queue entries that make an alert (5)
          BacklogBlocks,    \* that close the wallet route (8)
          BacklogCritical,  \* that make the alert critical (10)
          SomeFailures,     \* failed audits that mark a route (3)
          ManyFailures,     \* that degrade a dependency (4)
          ManySwapAudits,   \* swap audits that make a market busy (8)
          ActivityLimit     \* audit records the status page reads (20)

BoardsAssumption ==
  /\ ViewsAssumption
  /\ {BacklogWarns, BacklogBlocks, BacklogCritical, SomeFailures, ManyFailures, ActivityLimit} \subseteq Nat \ {0}

\* getReadiness
Readiness == IF lag > 0 THEN "degraded" ELSE "ready"

\* getStats.  Of the encrypted notes it is only asked whether there are any.
Stats == [swaps |-> Cardinality(Known), openOffers |-> OpenOffers, active |-> ActiveUsers,
          pending |-> Queued, encryptedNotes |-> Len(encrypted), audits |-> Len(audits)]

\* buildActivitySummary, of the newest audit records: the wallet's operations are looked for
\* by name, though nothing in the wallet writes an audit record.
WalletAuditNames == {"public_send", "private_send", "deposit", "withdraw_self", "split_note"}
RecentAudits == Recent(Len(audits), ActivityLimit)
Activity ==
  [failures |-> Quantify(RecentAudits, LAMBDA i : audits[i].state = "failed"),
   swapAudits |-> Quantify(RecentAudits, LAMBDA i : audits[i].op # "faucet_xlm"),
   walletAudits |-> Quantify(RecentAudits, LAMBDA i : audits[i].op \in WalletAuditNames)]

SilentMarket == OpenOffers > 0 /\ Known = {}
BusyAndFailing == Activity.swapAudits >= ManySwapAudits /\ Activity.failures >= SomeFailures
Level(critical, other) == IF critical THEN "critical" ELSE other
NotNone(f) == [x \in {y \in DOMAIN f : f[y] # "none"} |-> f[x]]

\* buildAlertSummary
Alerts == NotNone(
  [indexer |-> IF lag = 0 THEN "none" ELSE Level(lag > 1, "warning"),
   backlog |-> IF Queued < BacklogWarns THEN "none" ELSE Level(Queued >= BacklogCritical, "warning"),
   market |-> IF SilentMarket THEN "info" ELSE "none"])

\* buildDependencyBoard
DependencyBoard ==
  [indexer |-> IF lag = 0 THEN "healthy" ELSE Level(lag > 1, "degraded"),
   wallet |-> IF Queued >= BacklogCritical THEN "critical"
              ELSE IF Queued >= BacklogWarns \/ Activity.failures >= ManyFailures
                THEN "degraded" ELSE "healthy",
   market |-> IF BusyAndFailing THEN "degraded" ELSE "healthy"]

\* Faulty variant: only a long queue is to be drained.
BacklogRemedyLate == IF Queued < BacklogCritical THEN "none" ELSE "critical"

BacklogRemedy == IF Queued = 0 THEN "none" ELSE Level(Queued >= BacklogWarns, "warning")

\* buildRemediationBoard
RemediationBoard == NotNone(
  [indexer |-> IF lag = 0 THEN "none" ELSE Level(lag > 1, "warning"),
   withdrawals |-> BacklogRemedy,
   failures |-> IF Activity.failures = 0 THEN "none"
                ELSE Level(Activity.failures >= ManyFailures, "warning"),
   market |-> IF SilentMarket THEN "info" ELSE "none"])

\* buildThroughputBoard
Throughput ==
  [adoption |-> [openOffers |-> OpenOffers, swaps |-> Stats.swaps, active |-> ActiveUsers],
   privacy |-> [notes |-> Stats.encryptedNotes, pending |-> Queued],
   audit |-> [total |-> Len(audits), failures |-> Activity.failures,
              swaps |-> Activity.swapAudits, wallet |-> Activity.walletAudits]]

\* buildRouteHealth
RouteHealth ==
  [wallet |-> IF Queued >= BacklogBlocks THEN "critical"
              ELSE IF Activity.walletAudits > 0 /\ Activity.failures >= SomeFailures
                THEN "warning" ELSE "healthy",
   private |-> IF lag > 0 THEN "warning" ELSE IF Stats.encryptedNotes > 0 THEN "healthy" ELSE "info",
   market |-> IF SilentMarket \/ BusyAndFailing THEN "warning"
              ELSE IF Known # {} THEN "healthy" ELSE "info"]

\* buildIncidentFeed: four pools and six audits at most.
IncidentFeed ==
  [pools |-> Min({4, lag}), severity |-> Level(lag > 1, "warning"),
   audits |-> {i \in RecentAudits : IsFailed(audits[i])}]

\* getStatusWorkspace
StatusWorkspace ==
  [readiness |-> Readiness, stats |-> Stats, alerts |-> Alerts, dependencies |-> DependencyBoard,
   remedies |-> RemediationBoard, throughput |-> Throughput, routes |-> RouteHealth,
   incidents |-> IncidentFeed]
=============================================================================
