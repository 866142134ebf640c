----------------------------- MODULE DeskViews ------------------------------
(***************************************************************************)
(* The user's own pages, computed from the situation Desk keeps: wallet,   *)
(* send planner and history (users.service.ts), sign-in and account        *)
(* (auth.service.ts), funding (faucet.service.ts) and the action center.   *)
(* Each page is loaded at once.  Wordings are left out: what is kept is    *)
(* every decision, as the word the code uses for it or as the name of the  *)
(* task that is suggested.                                                 *)
(***************************************************************************)
EXTENDS Desk, TLC

CONSTANTS WalletLimit,    \* entries of the queue the wallet page counts (12)
          AuditLimit,     \* audit records the history reads (40)
          SwapLimit,      \* swaps it reads (20)
          TimelineLimit,  \* entries it keeps (60)
          LatestLimit,    \* entries the settlement page goes by (12)
          SponsorMax,     \* SPONSOR_MAX_AMOUNT
          Sponsoring      \* SPONSOR_SECRET_KEY is configured

ViewsAssumption ==
  /\ DeskAssumption
  /\ {WalletLimit, AuditLimit, SwapLimit, TimelineLimit, LatestLimit} \subseteq Nat \ {0}

Tone(good, attention) == IF good THEN "ready" ELSE IF attention THEN "attention" ELSE "blocked"
Status(good, attention) == IF good THEN "complete" ELSE IF attention THEN "attention" ELSE "blocked"
Suggested(f) == {x \in DOMAIN f : f[x]}
Clamp(low, high, x) == Max({low, Min({high, x})})

-----------------------------------------------------------------------------
(* Balances *)

\* getBalances: an account that cannot be loaded shows nothing.
Public(a) == IF horizon THEN pub[a] ELSE 0

\* getPrivateBalance: the notes and what is still to be claimed.
Private(a) ==
  Total(notes[a]) + Quantify(DOMAIN queue, LAMBDA i : queue[i].asset = a /\ ~ queue[i].processed)

HasXlm == Public("XLM") > 0
HasUsdc == Public("USDC") > 0
Seeded == \E a \in Assets : Private(a) > 0
PublicTotal == Public("XLM") + Public("USDC")
PrivateTotal == Private("XLM") + Private("USDC")

\* mightHaveTrustline: a balance of '0' is a balance, so this never fails.
MightHaveTrustline == TRUE
HasUsdcTrustline == HasUsdc \/ MightHaveTrustline

OpsReady == lag = 0

-----------------------------------------------------------------------------
(* Sponsorship *)

SponsoredOps == {"public_send", "deposit", "withdraw_self"}

\* The amount 0 stands for a request that names none.
Sponsorship(op, amount, recipient) ==
  LET supported == /\ Sponsoring /\ op \in SponsoredOps
                   /\ op = "public_send" => recipient
                   /\ amount <= SponsorMax
  IN [supported |-> supported, sponsored |-> supported]

-----------------------------------------------------------------------------
(* The wallet *)

Pending == {i \in DOMAIN queue : ~ queue[i].processed}
PendingCount == Min({WalletLimit, Cardinality(Pending)})

Share(part, whole) == IF whole > 0 THEN (2000 * part + whole) \div (2 * whole) ELSE 0

WalletWorkspace ==
  [pending |-> PendingCount,
   privateShare |-> [a \in Assets |-> Share(Private(a), Public(a) + Private(a))],
   actions |-> Suggested([withdraw_usdc |-> Private("USDC") > 0, withdraw_xlm |-> Private("XLM") > 0,
                          process |-> PendingCount > 0]),
   guidance |-> [private |-> Seeded, queue |-> PendingCount > 0,
                 mostlyPrivate |-> \E a \in Assets : Private(a) > Public(a)]]

-----------------------------------------------------------------------------
(* The history: the newest entries of each of four collections, together, and of those the
   newest.  The dates of different collections are not kept, so that which entries a cut
   leaves out is open, and what is said of the history is said of every way to cut it. *)

Peer(k) == "peer" \* the other party's name; a user who swaps knows one other

Recent(n, limit) == (Max({1, n - limit + 1}))..n
AnyOf(S, limit) == IF Cardinality(S) <= limit THEN {S} ELSE {T \in SUBSET S : Cardinality(T) = limit}

\* A failed audit keeps the detail it was created with or got with the failure; each of
\* them speaks of indexing, of proofs or of neither.  The other party of its swap is known
\* when the swap is among those read, K.
AuditEntry(i, K) ==
  LET a == audits[i]
      isSwap == a.op # "faucet_xlm"
  IN [id |-> <<"audit", i>>, category |-> IF isSwap THEN "swap" ELSE "wallet", op |-> a.op,
      state |-> a.state, private |-> isSwap,
      indexing |-> IF ~ isSwap THEN (IF a.state = "success" THEN "tracked" ELSE "not_required")
                   ELSE IF a.state = "failed" THEN "pending" ELSE "tracked",
      about |-> IF isSwap THEN "proof" ELSE "index",
      with |-> IF isSwap /\ a.swap \in K THEN Peer(a.swap) ELSE "nobody"]

NoteEntry(i) ==
  [id |-> <<"note", i>>, category |-> "private",
   op |-> IF encrypted[i] = "pending" THEN "pending_private_transfer" ELSE "encrypted_note_credit",
   state |-> IF encrypted[i] = "pending" THEN "pending" ELSE "success", private |-> TRUE,
   indexing |-> IF encrypted[i] = "pending" THEN "pending" ELSE "tracked",
   about |-> "index", with |-> "nobody"]

WithdrawalEntry(i) ==
  [id |-> <<"withdrawal", i>>, category |-> "private", op |-> "pending_withdrawal",
   state |-> IF queue[i].processed THEN "success" ELSE "pending", private |-> TRUE,
   indexing |-> IF queue[i].processed THEN "tracked" ELSE "pending",
   about |-> "index", with |-> "nobody"]

SwapEntry(k) ==
  LET s == swaps[k].status IN
  [id |-> <<"swap", k>>, category |-> "swap", op |-> "swap_lifecycle",
   state |-> IF s = "completed" THEN "success" ELSE IF s = "failed" THEN "failed"
             ELSE IF s \in {"requested", "executing"} THEN "pending" ELSE "queued",
   private |-> swaps[k].proofStatus = "ready" \/ s \in {"proofs_pending", "proofs_ready", "executing"},
   indexing |-> IF s = "completed" THEN "tracked" ELSE "pending",
   about |-> "proof", with |-> Peer(k)]

\* getHistory, when the swaps read are K.  A swap that has an audit record among those read
\* is not listed again.
Entries(K) ==
  LET read == Recent(Len(audits), AuditLimit) IN
  {AuditEntry(i, K) : i \in read} \cup {NoteEntry(i) : i \in DOMAIN encrypted}
  \cup {WithdrawalEntry(i) : i \in Recent(Len(queue), HistoryLimit)}
  \cup {SwapEntry(k) : k \in {k \in K : \A i \in read : audits[i].swap # k}}

\* What the history may show, and which of its entries T are the latest.
Timelines == UNION {AnyOf(Entries(K), TimelineLimit) : K \in AnyOf(Known, SwapLimit)}
Latest(T) == AnyOf(T, LatestLimit)

IsPending(e) == e.state \in {"pending", "queued"}
IsFailed(e) == e.state \in {"failed", "retryable"}

\* classifyHistoryFailure
FailureClass(e) ==
  IF e.about = "index" \/ e.indexing \in {"pending", "lagging"} THEN "indexing_delay"
  ELSE IF e.about = "proof" THEN "proof_readiness"
  ELSE IF e.about = "wallet" THEN "wallet_readiness"
  ELSE IF e.category = "swap" THEN "swap_execution" ELSE "transaction_failure"

FailureClasses ==
  {"indexing_delay", "proof_readiness", "wallet_readiness", "swap_execution", "transaction_failure"}

\* getHistoryWorkspace, of the entries T, some of which are pending and some failed.
HistoryOf(T, pending, failed) ==
  LET bucket == [c \in FailureClasses |-> Quantify(failed, LAMBDA e : FailureClass(e) = c)]
      people == {e.with : e \in T} \ {"nobody"}
  IN [total |-> Cardinality(T), completed |-> Quantify(T, LAMBDA e : e.state = "success"),
      pending |-> Cardinality(pending), failed |-> Cardinality(failed),
      privateFlows |-> Quantify(T, LAMBDA e : e.private),
      byCategory |-> [c \in {"wallet", "private", "swap", "system"} |->
                        Quantify(T, LAMBDA e : e.category = c)],
      failureBuckets |-> bucket, topBucket |-> Max({bucket[c] : c \in FailureClasses}),
      momentum |-> IF Cardinality(T) >= 8 THEN "high"
                   ELSE IF Cardinality(T) >= 3 THEN "moderate" ELSE "light",
      counterparties |-> [p \in people |-> {e \in T : e.with = p}],
      actionQueue |-> Suggested(
        [process |-> \E e \in pending : e.op = "pending_withdrawal",
         swap |-> \E e \in pending : e.category = "swap",
         retry |-> \E e \in failed : e.state = "retryable",
         index |-> \E e \in pending : e.indexing \in {"pending", "lagging"}])]

HistoryOn(T) == HistoryOf(T, {e \in T : IsPending(e)}, {e \in T : IsFailed(e)})

-----------------------------------------------------------------------------
(* The send planner *)

\* previewSend; whether the public balance covers v, whether a note has exactly this value
\* or a larger one.
Preview(a, v, public, exact, larger) ==
     [public |-> [available |-> public, ready |-> public,
                  missing |-> IF public THEN 0 ELSE v - Public(a)],
      private |-> [available |-> Private(a) >= v, ready |-> exact, canSplit |-> larger,
                   next |-> IF exact THEN "send" ELSE IF larger THEN "split"
                            ELSE IF Total(notes[a]) >= v THEN "reshape" ELSE "deposit"],
      recommended |-> IF exact THEN "private" ELSE IF public THEN "public"
                      ELSE IF larger THEN "private" ELSE "public",
      sponsorship |-> [op \in {"public_send", "private_send"} |-> Sponsorship(op, v, TRUE)]]

PreviewSend(a, v) ==
  Preview(a, v, Public(a) >= v, Contains(notes[a], v), Larger(notes[a], v) # {})

SendWorkspace(h) ==
  [notes |-> [a \in Assets |-> [count |-> Len(notes[a]), largest |-> Max({0} \cup Range(notes[a]))]],
   sponsorship |-> [op \in {"public_send", "private_send"} |-> Sponsorship(op, 1, op = "public_send")],
   recentCounterparties |-> DOMAIN h.counterparties,
   guidance |-> [private |-> Seeded, xlm |-> HasXlm, usdc |-> HasUsdc]]

-----------------------------------------------------------------------------
(* Sign-in, account and funding *)

Checklist ==
  [wallet |-> "complete",
   funding |-> Status(HasXlm, TRUE),
   trustline |-> Status(HasUsdcTrustline, HasXlm),
   private |-> Status(Seeded, HasXlm \/ HasUsdcTrustline),
   ops |-> Status(OpsReady, lag > 0)]

\* The checklist in its order; the next actions are its first three that are not complete.
ChecklistOrder == <<"wallet", "funding", "trustline", "private", "ops">>
NextActions(list) ==
  LET open == {i \in DOMAIN ChecklistOrder : list[ChecklistOrder[i]] # "complete"}
  IN {ChecklistOrder[i] : i \in {j \in open : Quantify(open, LAMBDA k : k < j) < 3}}

AuthWorkspace ==
  LET list == Checklist
      score == 25 * Quantify(DOMAIN list, LAMBDA i : list[i] = "complete")
               + 12 * Quantify(DOMAIN list, LAMBDA i : list[i] = "attention")
  IN [checklist |-> list, score |-> score,
      tone |-> IF score >= 90 THEN "ready" ELSE IF score >= 50 THEN "attention" ELSE "blocked",
      nextActions |-> NextActions(list)]

AccountWorkspace(h) ==
  [pendingWithdrawals |-> PendingCount,
   routes |-> [wallet |-> Tone(HasXlm, TRUE), funding |-> Tone(HasXlm /\ HasUsdcTrustline, HasXlm),
               status |-> Tone(OpsReady, TRUE), history |-> Tone(h.total > 0, TRUE),
               swap |-> Tone(FALSE, HasXlm \/ Seeded), fiat |-> Tone(FALSE, HasXlm)],
   recovery |-> AuthWorkspace.nextActions \cup (IF PendingCount > 0 THEN {"process"} ELSE {})
                \cup (IF ~ OpsReady THEN {"status"} ELSE {})]

\* getFundingWorkspace: here XLM or USDC is taken for readiness of the trustline.
FundingWorkspace ==
  LET trustlineReady == HasUsdc \/ HasXlm IN
  [checklist |-> [xlm_public |-> Status(HasXlm, TRUE),
                  usdc_trustline |-> Status(HasUsdc, trustlineReady),
                  private_seed |-> Status(Seeded, HasXlm \/ HasUsdc),
                  withdrawal_queue |-> Status(PendingCount = 0, TRUE)],
   cards |-> [fund |-> Tone(HasXlm, TRUE), trustline |-> Tone(HasUsdc, trustlineReady),
              seed |-> Tone(Seeded, HasXlm \/ HasUsdc)]]

Targets == {"public_send", "private_flow", "swap_readiness", "fiat_sell"}

PlanFunding(a, target) ==
  LET public == Public(a) > 0
      private == Private(a) > 0
      shielded == target \in {"private_flow", "swap_readiness"}
      tone == CASE target = "public_send" -> Tone(public, TRUE)
                [] target = "private_flow" -> Tone(private, public)
                [] target = "fiat_sell" -> IF a = "XLM" THEN Tone(public, private) ELSE "blocked"
                [] OTHER -> Tone(FALSE, public \/ private)
  IN [friendbot |-> Tone(HasXlm, TRUE),
      trustline |-> IF a = "USDC" THEN FundingWorkspace.cards.trustline ELSE "ready",
      private_seed |-> IF shielded THEN Tone(Seeded, public) ELSE "ready",
      route |-> tone,
      next |-> Suggested([fund |-> ~ HasXlm, trustline |-> a = "USDC" /\ ~ public,
                          seed |-> shielded /\ ~ Seeded])]

-----------------------------------------------------------------------------
(* The action center, given the history page.  It reads the newest 24 swaps and audits,
   here all there are. *)

AwaitingOf == [alice |-> "awaiting_alice", bob |-> "awaiting_bob"]

\* What a swap asks of the user, and how urgently.
SwapUrgency(k) ==
  LET s == swaps[k] IN
  IF s.status = "requested" /\ s.role = "bob" THEN "caution"
  ELSE IF \/ s.status = "proofs_pending" /\ s.proofStatus = AwaitingOf[s.role]
          \/ s.status \in {"proofs_ready", "failed"}
    THEN "critical" ELSE "info"

UrgentSwaps == {k \in Known : SwapUrgency(k) # "info"}

\* Faulty variant: a short queue is left alone.
QueueSeverityLate == IF PendingCount >= 3 THEN "critical" ELSE "none"

QueueSeverity ==
  IF PendingCount = 0 THEN "none" ELSE IF PendingCount >= 3 THEN "critical" ELSE "caution"

\* The priorities with their severity; the swaps are those that are urgent, three at most.
Priorities(h) ==
  LET top == h.topBucket
      all == [fund |-> IF HasXlm THEN "none" ELSE "critical",
              trustline |-> IF HasUsdcTrustline THEN "none" ELSE IF HasXlm THEN "caution" ELSE "info",
              seed |-> IF Seeded THEN "none"
                       ELSE IF HasXlm \/ HasUsdcTrustline THEN "caution" ELSE "info",
              process |-> QueueSeverity,
              ops |-> IF OpsReady THEN "none" ELSE IF lag > 1 THEN "critical" ELSE "caution",
              failures |-> IF top = 0 THEN "none" ELSE IF top >= 3 THEN "critical" ELSE "caution"]
      open == {p \in DOMAIN all : all[p] # "none"}
  IN [x \in open \cup UrgentSwaps |-> IF x \in open THEN all[x] ELSE SwapUrgency(x)]

MarketCount(statuses) == Quantify(Known, LAMBDA k : swaps[k].status \in statuses)

ActionCenter(h) ==
  LET p == Priorities(h) IN
  [priorities |-> p,
   critical |-> Quantify(DOMAIN p, LAMBDA x : p[x] = "critical"),
   caution |-> Quantify(DOMAIN p, LAMBDA x : p[x] = "caution"),
   quickWins |-> Suggested([fund |-> ~ HasXlm, trustline |-> ~ HasUsdcTrustline /\ HasXlm,
                            process |-> PendingCount > 0,
                            seed |-> ~ Seeded /\ (HasXlm \/ HasUsdcTrustline),
                            failures |-> h.failed > 0, status |-> ~ OpsReady]),
   routes |-> [funding |-> IF ~ HasXlm THEN "critical"
                           ELSE IF ~ HasUsdcTrustline THEN "caution" ELSE "ready",
               wallet |-> IF PendingCount > 0 THEN "caution" ELSE "ready",
               send |-> IF HasXlm \/ Seeded THEN "ready" ELSE "caution",
               swap |-> IF UrgentSwaps # {} THEN "critical" ELSE IF Known # {} THEN "caution" ELSE "info",
               history |-> IF h.failed > 0 THEN "caution" ELSE "ready",
               status |-> IF OpsReady THEN "ready" ELSE "critical"],
   blockers |-> [history |-> h.actionQueue, swaps |-> UrgentSwaps,
                 audits |-> {i \in DOMAIN audits : IsFailed(audits[i])}]]
=============================================================================
