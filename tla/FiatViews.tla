----------------------------- MODULE FiatViews ------------------------------
(***************************************************************************)
(* What the fiat pages show and plan (fiat.service.ts): the workspaces,    *)
(* the previews of a purchase and of a sale, and the plan of either.  The  *)
(* purchase itself is FiatService; a sale is a public payment to the       *)
(* administrator followed by a preview, and stores nothing.                *)
(***************************************************************************)
EXTENDS OpsBoards

CONSTANT Provider    \* the payment provider's keys are configured

\* A well-formed account number and a well-formed branch code, or not.
BankDetails == [accountNo : BOOLEAN, ifsc : BOOLEAN]
Modes == {"public", "zk"}

\* validateBankAccountDetails
ValidBank(b) == b.accountNo /\ b.ifsc

\* getWorkspace
FiatWorkspace ==
  [provider |-> Provider, publicXlm |-> Public("XLM"), privateXlm |-> Private("XLM"),
   totalXlm |-> Public("XLM") + Private("XLM"), queue |-> WalletWorkspace.pending > 0]

\* getPlanningWorkspace
FiatReadiness ==
  [provider |-> IF Provider THEN "ready" ELSE "blocked",
   inventory |-> Tone(FiatWorkspace.publicXlm > 0, FiatWorkspace.totalXlm > 0),
   payoutRail |-> "attention"]

\* previewBuy
PreviewBuy(mode) ==
  [fulfilment |-> IF mode = "zk" THEN "private_balance_flow" ELSE "public_wallet_transfer",
   warnings |-> Suggested([provider |-> ~ Provider, indexing |-> mode = "zk",
                           visible |-> mode # "zk"])]

\* Faulty variant: what is private counts as visible.
PreviewSellOfTotal(v) ==
  LET total == Public("XLM") + Private("XLM") IN
  [public |-> total >= v, withdrawal |-> FALSE, shortfall |-> Max({0, v - total})]

\* previewSell
PreviewSell(v) ==
  LET total == Public("XLM") + Private("XLM") IN
  [public |-> Public("XLM") >= v,
   withdrawal |-> Public("XLM") < v /\ total >= v,
   shortfall |-> Max({0, v - total})]

\* planTrade, buy.  Every account has a public key.
PlanBuy(mode) ==
  [tone |-> IF Provider THEN "ready" ELSE "blocked",
   stages |-> [provider |-> IF Provider THEN "ready" ELSE "blocked", route |-> "ready",
               use |-> Flag(mode = "zk")],
   routes |-> [m \in Modes |-> Flag(m # mode)], recommended |-> mode]

\* planTrade, sell: to the bank account b.
PlanSell(v, b) ==
  LET p == PreviewSell(v)
      inventory == IF p.shortfall > 0 THEN "blocked" ELSE Flag(p.withdrawal)
  IN [tone |-> IF ValidBank(b) THEN inventory ELSE "blocked",
      stages |-> [bank |-> IF ValidBank(b) THEN "ready" ELSE "blocked",
                  inventory |-> inventory, queue |-> "attention"],
      routes |-> [visible |-> Flag(~ p.public),
                  withdrawal |-> IF p.withdrawal THEN "attention"
                                 ELSE IF p.shortfall > 0 THEN "blocked" ELSE "default"],
      recommended |-> Suggested([visible |-> p.public, withdrawal |-> p.withdrawal]),
      next |-> Suggested([bank |-> ~ ValidBank(b), payout |-> p.public,
                          surface |-> p.withdrawal, acquire |-> p.shortfall > 0])]

-----------------------------------------------------------------------------
(* Properties *)

\* The planners of different services are of one opinion.  A sale reads ready exactly when
\* the send planner would send as much publicly, blocked only if neither of its routes has
\* the amount, and one that waits for private XLM is one for which the wallet page has a
\* button; funding plans agree with both; and what the send planner says of notes is what
\* splitNote will do with them.
PlannersAgree ==
  \A v \in 1 .. Grant + 1 :
    LET bank == CHOOSE b \in BankDetails : ValidBank(b)
        sell == PlanSell(v, bank)
        send == PreviewSend("XLM", v)
        shapes == {a \in Assets : PreviewSend(a, v).private.next \in {"split", "reshape"}}
    IN /\ sell.tone = "ready" <=> send.public.ready
       /\ sell.tone = "ready" => PlanFunding("XLM", "fiat_sell").route = "ready"
       /\ sell.tone = "blocked" => ~ send.public.available /\ ~ send.private.available
       /\ sell.tone = "attention" =>
            /\ FiatReadiness.inventory # "blocked"
            /\ "withdraw_xlm" \in WalletWorkspace.actions
            /\ Total(notes["XLM"]) = 0 => "process" \in WalletWorkspace.actions
       /\ horizon /\ CanDeposit("XLM", v) => sell.stages.inventory = "ready"
       /\ \A b \in BankDetails \ {bank} : PlanSell(v, b).tone = "blocked"
       /\ \A a \in shapes :
            (PreviewSend(a, v).private.next = "split") <=> (Len(ToWithdraw(notes[a], v)) = 1)
       /\ \A a \in Assets : Contains(notes[a], v) =>
            /\ PreviewSend(a, v).recommended = "private" /\ PlanFunding(a, "private_flow").route = "ready"
            /\ CapitalLanes[IF a = "XLM" THEN "private_xlm" ELSE "private_usdc"] = "ready"
=============================================================================
