----------------------------- MODULE SwapViews -----------------------------
(***************************************************************************)
(* What the two parties of a swap are told about it, while SwapService     *)
(* runs: the swap workspace and the status of swap.service.ts, the swap    *)
(* queue of the action center (users.service.ts) and the seller's action   *)
(* queue (offers.service.ts).  Each is computed from the document as it is *)
(* when the page is loaded.  The wordings are left out: what is kept is    *)
(* which action is offered to whom and how urgently.                       *)
(***************************************************************************)
EXTENDS SwapService

Final == {"completed", "failed"}

\* serializeSwapSummary: whose proofs are there, from the stored proofs themselves.
Summary(r) ==
  LET has(role) == swap[ProofOf[role]] # NoProof IN
  [status |-> swap.status, proofStatus |-> ComputeProofStatus(swap),
   proofReady |-> \A role \in Roles : has(role),
   myProofSubmitted |-> has(r), counterpartyProofSubmitted |-> has(Counterparty[r])]

\* The route the workspace shows: private once proofs are collected.
RouteMode(r) ==
  LET s == Summary(r) IN
  IF s.proofReady \/ s.proofStatus = "ready" \/ s.status = "proofs_pending"
    THEN "private" ELSE "public"

RecommendedMode(r) ==
  LET s == Summary(r) IN
  IF s.status # "requested" /\ (s.proofStatus = "ready" \/ s.status = "proofs_pending")
    THEN "private" ELSE "public"

Item(action, severity) == [action |-> action, severity |-> severity]

\* Faulty variant: the private execution is offered once a party's own proof is there.
ActionBoardEager(r, funded) ==
  IF Summary(r).myProofSubmitted /\ swap.status \notin Final
    THEN {Item("execute_private", "critical")} ELSE {}

\* The steps of the workspace that are offered whatever else is on the board.
ActionBoardSteps(r, funded) ==
  LET s == Summary(r)
      offered ==
        [accept |-> s.status = "requested" /\ r = "bob",
         prepare_proof |-> s.status = "proofs_pending" /\ ~ s.myProofSubmitted /\ funded,
         deposit |-> s.status = "proofs_pending" /\ ~ s.myProofSubmitted /\ ~ funded,
         execute_private |-> s.status = "proofs_ready",
         wait |-> s.status = "executing"]
  IN {Item(a, IF a = "wait" THEN "info" ELSE "critical") : a \in {a \in DOMAIN offered : offered[a]}}

\* The action board of the workspace; funded tells whether the private balance covers
\* the amount.  The public settlement is offered to the seller if nothing else is.
ActionBoard(r, funded) ==
  LET steps == ActionBoardSteps(r, funded) IN
  steps
  \cup (IF steps = {} /\ r = "bob" /\ RouteMode(r) = "public" /\ swap.status \notin Final
          THEN {Item("execute_public", "warning")} ELSE {})
  \cup (IF swap.status = "failed" THEN {Item("wait", "critical")} ELSE {})

\* The journey of the workspace: request, proofs, execution, completion.
Journey(r) ==
  LET s == Summary(r) IN
  [requested |-> IF s.status = "requested" THEN "active" ELSE "done",
   proofs |-> IF s.status = "proofs_pending" THEN "active"
              ELSE IF s.status = "proofs_ready" \/ s.proofStatus = "ready" THEN "done"
              ELSE IF s.status = "failed" THEN "blocked" ELSE "pending",
   execution |-> IF s.status = "executing" THEN "active"
                 ELSE IF s.status = "completed" THEN "done"
                 ELSE IF s.status = "failed" THEN "blocked" ELSE "pending",
   completion |-> IF s.status = "completed" THEN "done"
                  ELSE IF s.status = "failed" THEN "blocked" ELSE "pending"]

-----------------------------------------------------------------------------
(* The other boards, which read the stored proofStatus. *)

\* The action center's line for a swap.
QueueItem(r) ==
  IF swap.status = "requested" /\ r = "bob" THEN Item("accept", "caution")
  ELSE IF swap.status = "proofs_pending"
          /\ \/ swap.proofStatus = "awaiting_bob" /\ r = "bob"
             \/ swap.proofStatus = "awaiting_alice" /\ r = "alice"
    THEN Item("prepare_proof", "critical")
  ELSE IF swap.status = "proofs_ready" THEN Item("execute_private", "critical")
  ELSE IF swap.status = "executing" THEN Item("wait", "info")
  ELSE IF swap.status = "failed" THEN Item("wait", "critical")
  ELSE Item("inspect", "info")

\* The seller's queue, of which one swap is one item (at most eight are shown).  A swap
\* that executes comes with the action execute_public, for information.
SellerActions ==
  IF swap.status = "requested" THEN {Item("accept", "caution")}
  ELSE IF swap.status = "proofs_pending" /\ swap.proofStatus = "awaiting_bob"
    THEN {Item("prepare_proof", "caution")}
  ELSE IF swap.status = "proofs_ready" THEN {Item("execute_private", "critical")}
  ELSE IF swap.status = "executing" THEN {Item("execute_public", "info")}
  ELSE IF swap.status = "failed" THEN {Item("wait", "critical")}
  ELSE {}

-----------------------------------------------------------------------------
(* The web client's page of a user's swaps (swap/my/page.tsx), which loads the summaries   *)
(* and for each swap its status. *)

\* getSwapStatusForUser: here the status of the proofs is computed anew.
StatusView(r) ==
  [swap |-> Summary(r), role |-> r, proofs |-> ComputeProofStatus(swap), txHash |-> swap.txHash]

\* The list of the page that shows the swap.
DeskList(r) ==
  IF swap.status = "requested" THEN (IF r = "bob" THEN "to_accept" ELSE "my_requests")
  ELSE IF swap.status = "completed" THEN "completed" ELSE "active"

\* renderAction: the button on the card of an active swap, in private or public mode.
DeskButton(r, private) ==
  LET view == StatusView(r) IN
  IF DeskList(r) = "to_accept" THEN "accept"
  ELSE IF DeskList(r) # "active" \/ swap.status = "failed" THEN "none"
  ELSE IF private
    THEN IF view.proofs = "ready" THEN "execute_private"
         ELSE IF ~ view.swap.myProofSubmitted THEN "prepare_proof" ELSE "none"
  ELSE IF r = "bob" THEN "execute_public" ELSE "none"

-----------------------------------------------------------------------------
(* What a request for an action meets. *)

\* The guards that accept, prepareMyProof, executeSwapPrivate (with the controller's look
\* at the proofs) and executeSwap put before anything else.
Permitted(r, action) ==
  CASE action = "accept" -> r = "bob"
    [] action = "prepare_proof" -> IsProofCollectionState(swap)
    [] action = "execute_private" ->
         IsExecutionReady(swap) /\ \A role \in Roles : swap[ProofOf[role]] # NoProof
    [] action = "execute_public" -> IsExecutionReady(swap) /\ r = "bob"
    [] OTHER -> TRUE

Offered(r) ==
  ActionBoard(r, TRUE) \cup ActionBoard(r, FALSE) \cup {QueueItem(r)}
  \cup (IF r = "bob" THEN SellerActions ELSE {})

-----------------------------------------------------------------------------
(* Properties *)

\* Nobody is sent to a refusal: each action that one of the three boards offers a party
\* is one the service takes from him in the same state, whichever handlers raced before
\* (an item of severity info has a text to read and nothing to press: it offers nothing);
\* a swap that is over is offered to nobody for execution; and where the stored status of
\* the proofs is that of the proofs, the private buttons of the web page agree.
OffersAreAccepted ==
  \A r \in Roles :
    /\ \A item \in Offered(r) :
         /\ item.severity # "info" => Permitted(r, item.action)
         /\ swap.status \in Final => item.action \in {"wait", "inspect"}
    /\ swap.proofStatus = ComputeProofStatus(swap) => Permitted(r, DeskButton(r, TRUE))
=============================================================================
