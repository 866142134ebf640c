------------------------------ MODULE WebClient ------------------------------
(***************************************************************************)
(* The buttons of the web client: send (on the send page and on the        *)
(* dashboard), sell, execute a swap, withdraw, deposit, prepare my proof   *)
(* (on the swap desk and on the page of one swap), and those that set      *)
(* something up.                                                           *)
(*                                                                         *)
(* A click sends a request and waits.  Between the page and the API are a  *)
(* proxy and two routes of Next that give up on a slow request: the page   *)
(* hears something, and the API works on.  To a missing exact note the     *)
(* page answers by itself with a split, a pause and one more attempt.      *)
(* What a request does in the API is one step here; UsersService and       *)
(* SwapService have the steps.  Public balances are left out: whether they *)
(* are enough is one of the reasons for which the API refuses.             *)
(***************************************************************************)
EXTENDS NoteLists

CONSTANTS Tabs,
          Role,       \* the user's role in the swap
          Amount,     \* what is sent, and what the swap asks for
          MaxClicks,  \* bound: clicks
          MaxNotes    \* bound: notes of one asset

ClientAssumption ==
  Role \in {"alice", "bob"} /\ Amount \in Nat \ {0} /\ {MaxClicks, MaxNotes} \subseteq Nat

VARIABLES page,         \* what each tab is at, and for which click
          calls,        \* the requests the API works on
          clicks,       \* the clicks so far and what came of them
          notes,        \* values of the unspent notes by asset
          leg,          \* the asset the swap asks of the user
          counterparty  \* the other party's proof is stored

vars == <<page, calls, clicks, notes, leg, counterparty>>

\* A sale is a public payment, to the administrator.  "set_up" stands for the buttons that
\* neither pay nor take a note: Friendbot, trustline, claim, accept, pause a listing.
Kinds == {"send_public", "send_private", "execute_swap", "withdraw", "deposit",
          "prepare_on_desk", "prepare_on_swap", "set_up"}
Payments == {"send_public", "send_private", "execute_swap"}
Preparations == {"prepare_on_desk", "prepare_on_swap"}
NeedsExactNote == {"send_private", "withdraw"} \cup Preparations

Idle == [at |-> "idle", click |-> 0]

Init ==
  /\ page = [t \in Tabs |-> Idle] /\ calls = {} /\ clicks = <<>>
  /\ notes \in [Assets -> {<<>>, <<Amount>>, <<Amount + 1>>}]
  /\ leg \in Assets /\ counterparty \in BOOLEAN

\* getAssetNeedForProof: the desk takes every offer to be one of USDC for XLM.
AssetNeedForProof == IF Role = "alice" THEN "XLM" ELSE "USDC"

Call(c, step) == [click |-> c, step |-> step, heard |-> TRUE]

-----------------------------------------------------------------------------
(* The page *)

\* The wallet page withdraws the whole private balance; the other buttons have an amount.
AmountOf(kind, a) == IF kind = "withdraw" THEN Total(notes[a]) ELSE Amount

Click(t, kind, a) ==
  /\ page[t].at = "idle" /\ Len(clicks) < MaxClicks
  /\ kind \in Preparations \cup {"execute_swap", "set_up"} => a = leg
  /\ AmountOf(kind, a) > 0
  /\ clicks' = Append(clicks, [tab |-> t, kind |-> kind, asset |-> a,
                               amount |-> AmountOf(kind, a), said |-> "nothing",
                               paid |-> 0, proved |-> FALSE])
  /\ page' = [page EXCEPT ![t] = [at |-> "attempt", click |-> Len(clicks')]]
  /\ calls' = calls \cup {Call(Len(clicks'), "attempt")}
  /\ UNCHANGED <<notes, leg, counterparty>>

\* Faulty variant: any failed attempt is tried again.
RecoversFromAll(kind, step, answer) ==
  step = "attempt" /\ answer # "success" /\ kind \in {"send_private", "prepare_on_desk"}

\* The answers after which the page splits a note: those that name a missing exact note,
\* to the first attempt, on the pages that know what to do about it.
Recovers(kind, step, answer) ==
  step = "attempt" /\ answer = "exact" /\ kind \in {"send_private", "prepare_on_desk"}

\* What the page does when it hears an answer.  The message of a split that fails, be it
\* 'Insufficient private balance', is only shown.
Reaction(kind, step, answer) ==
  IF answer = "success" THEN IF step = "split" THEN "pause" ELSE "success"
  ELSE IF Recovers(kind, step, answer) THEN "split" ELSE "failure"

\* The page of call c hears this answer while the click's record becomes r.
Hear(c, answer, r, stillRunning) ==
  LET next == Reaction(r.kind, c.step, answer)
      ends == next \in {"success", "failure"}
  IN /\ page' = [page EXCEPT ![r.tab] =
                  IF ends THEN Idle ELSE [at |-> next, click |-> c.click]]
     /\ clicks' = [clicks EXCEPT ![c.click] = [r EXCEPT !.said = IF ends THEN next ELSE @]]
     /\ calls' = (calls \ {c}) \cup stillRunning
                   \cup IF next = "split" THEN {Call(c.click, "split")} ELSE {}

\* Six seconds after the split.
PauseEnds(t) ==
  /\ page[t].at = "pause"
  /\ page' = [page EXCEPT ![t].at = "again"]
  /\ calls' = calls \cup {Call(page[t].click, "again")}
  /\ UNCHANGED <<clicks, notes, leg, counterparty>>

\* The proxy, or the route's own time-out, gives up on a request; the API is not told.
\* (A tab that is reloaded loses its requests in the same way.)
\* The route of the proofs says so with ready = FALSE, without the field `success` the
\* pages look at.
AnswerOfProxy(kind, step) ==
  IF kind \in Preparations /\ step # "split" THEN "success" ELSE "error"

\* Faulty variant: nobody tells the page.
GiveUpUnnoticed(c) ==
  /\ c.heard
  /\ calls' = (calls \ {c}) \cup {[c EXCEPT !.heard = FALSE]}
  /\ UNCHANGED <<page, clicks, notes, leg, counterparty>>

GiveUp(c) ==
  /\ c.heard
  /\ LET r == clicks[c.click] IN
     Hear(c, AnswerOfProxy(r.kind, c.step), r, {[c EXCEPT !.heard = FALSE]})
  /\ UNCHANGED <<notes, leg, counterparty>>

-----------------------------------------------------------------------------
(* The API *)

Answer(c, answer, r) ==
  IF c.heard THEN Hear(c, answer, r, {})
  ELSE /\ calls' = calls \ {c} /\ clicks' = [clicks EXCEPT ![c.click] = r]
       /\ UNCHANGED page

\* Nothing happens, for a reason the page can only show.
Refuse(c) ==
  /\ Answer(c, "error", clicks[c.click])
  /\ UNCHANGED <<notes, leg, counterparty>>

NoExactNote(c) ==
  LET r == clicks[c.click] IN
  /\ c.step # "split" /\ r.kind \in NeedsExactNote
  /\ ~ Contains(notes[r.asset], r.amount)
  /\ Answer(c, IF r.kind = "withdraw" THEN "error" ELSE "exact", r)
  /\ UNCHANGED <<notes, leg, counterparty>>

\* The money is gone; a step after that may still fail, such as the preview that follows
\* the debit of a sale.
Pay(c, answer) ==
  LET r == clicks[c.click] IN
  /\ c.step # "split" /\ r.kind \in Payments
  /\ IF r.kind = "send_private"
       THEN /\ Contains(notes[r.asset], r.amount)
            /\ notes' = [notes EXCEPT ![r.asset] = RemoveFirst(@, r.amount)]
       ELSE UNCHANGED notes
  /\ Answer(c, answer, [r EXCEPT !.paid = @ + 1])
  /\ UNCHANGED <<leg, counterparty>>

Withdraw(c) ==
  LET r == clicks[c.click] IN
  /\ r.kind = "withdraw" /\ Contains(notes[r.asset], r.amount)
  /\ notes' = [notes EXCEPT ![r.asset] = RemoveFirst(@, r.amount)]
  /\ Answer(c, "success", r)
  /\ UNCHANGED <<leg, counterparty>>

Deposit(c) ==
  LET r == clicks[c.click] IN
  /\ r.kind = "deposit" /\ Len(notes[r.asset]) < MaxNotes
  /\ notes' = [notes EXCEPT ![r.asset] = Append(@, r.amount)]
  /\ Answer(c, "success", r)
  /\ UNCHANGED <<leg, counterparty>>

SetUp(c) ==
  /\ clicks[c.click].kind = "set_up"
  /\ Answer(c, "success", clicks[c.click])
  /\ UNCHANGED <<notes, leg, counterparty>>

\* prepareMyProof answers with what is ready: both proofs, or not.
StoreProof(c) ==
  LET r == clicks[c.click] IN
  /\ c.step # "split" /\ r.kind \in Preparations
  /\ Contains(notes[r.asset], r.amount)
  /\ Answer(c, IF counterparty THEN "success" ELSE "error", [r EXCEPT !.proved = TRUE])
  /\ UNCHANGED <<notes, leg, counterparty>>

\* splitNote stops where a withdrawal or the deposit fails.
Split(c, done) ==
  LET r == clicks[c.click]
      a == IF r.kind \in Preparations THEN AssetNeedForProof ELSE r.asset
      steps == Len(ToWithdraw(notes[a], r.amount)) + 1
  IN
  /\ c.step = "split" /\ Total(notes[a]) >= r.amount /\ done \in 1..steps
  /\ notes' = [notes EXCEPT ![a] = AfterSplit(@, r.amount, done)]
  /\ Answer(c, IF done = steps THEN "success" ELSE "error", r)
  /\ UNCHANGED <<leg, counterparty>>

Finish(c) ==
  \/ Refuse(c) \/ NoExactNote(c) \/ Withdraw(c) \/ Deposit(c) \/ SetUp(c) \/ StoreProof(c)
  \/ \E answer \in {"success", "error"} : Pay(c, answer)
  \/ \E done \in 1 .. MaxNotes + 1 : Split(c, done)

CounterpartySubmits ==
  /\ ~ counterparty /\ counterparty' = TRUE
  /\ UNCHANGED <<page, calls, clicks, notes, leg>>

-----------------------------------------------------------------------------
Next ==
  \/ \E t \in Tabs, kind \in Kinds, a \in Assets : Click(t, kind, a)
  \/ \E t \in Tabs : PauseEnds(t)
  \/ \E c \in calls : GiveUp(c) \/ Finish(c)
  \/ CounterpartySubmits

\* A request is answered, or the proxy's time-out ends it.
Respond(t) ==
  \E c \in calls : c.click = page[t].click /\ (GiveUp(c) \/ Finish(c))

Fairness == \A t \in Tabs : WF_vars(Respond(t)) /\ WF_vars(PauseEnds(t))

-----------------------------------------------------------------------------
(* Properties *)

\* A click pays at most once, whatever was lost on the way and although the page tries
\* again by itself; and if the page said that it paid, it did.
ClicksPayOnce ==
  \A k \in DOMAIN clicks :
    /\ clicks[k].paid <= 1
    /\ clicks[k].kind \in Payments /\ clicks[k].said = "success" => clicks[k].paid = 1

\* A button that was pressed can be pressed again in the end (setLoading(false),
\* setActionLoading(null) in every finally).
ButtonsComeBack == \A t \in Tabs : page[t].at # "idle" ~> page[t].at = "idle"
=============================================================================
