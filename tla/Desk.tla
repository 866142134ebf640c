-------------------------------- MODULE Desk --------------------------------
(***************************************************************************)
(* The situation of one user, from the first sign-in on: what is in the    *)
(* public account and in private notes, what waits to be claimed, which    *)
(* audit records and swaps there are, and whether the index is fresh.      *)
(*                                                                         *)
(* How a deposit, a withdrawal or a swap gets done is the matter of        *)
(* UsersService and SwapService.  Here each is one step with the outcomes  *)
(* those allow; the modules DeskViews and DeskBoards compute from this     *)
(* state what the user's pages show.  Amounts are whole units; one unit of *)
(* XLM stands for the reserve and the fees of an account, which cannot be  *)
(* moved.                                                                  *)
(***************************************************************************)
EXTENDS NoteLists

CONSTANTS SwapIds,     \* swaps the user may be a party of
          Roles,       \* the roles he may have there, of "alice" and "bob"
          Grant,       \* what Friendbot gives a new account
          MaxNotes,    \* bound: private notes of one asset
          PaidIn,      \* bound: assets of the payments to come, in order; a swap takes the place of one
          MaxAudits,   \* bound: audit records
          MaxLag,      \* bound: pools whose lane lags
          HistoryLimit \* encrypted notes, or queue entries, the history reads (20)

\* What an instance has to assume of the constants.
DeskAssumption ==
  /\ {Grant, MaxNotes, MaxAudits, MaxLag, HistoryLimit} \subseteq Nat
  /\ Grant > 1 /\ HistoryLimit > 0 /\ IsFiniteSet(SwapIds) /\ PaidIn \in Seq(Assets)

VARIABLES pub,      \* public balance by asset
          trust,    \* the account holds a USDC trustline
          notes,    \* values of the unspent notes by asset
          queue,    \* payments received: asset, and whether they are processed
          encrypted,\* the newest encrypted notes, as far as the history reads them, oldest first
          audits,   \* audit records, oldest first
          swaps,    \* the user's swaps
          lag,      \* pools that lag
          horizon   \* Horizon answers

vars == <<pub, trust, notes, queue, encrypted, audits, swaps, lag, horizon>>

NoSwap == [status |-> "none"]
Reserve(a) == IF a = "XLM" THEN 1 ELSE 0
Known == {k \in SwapIds : swaps[k] # NoSwap}
Incoming == Len(queue) + Cardinality(Known)

Init ==
  /\ pub = [a \in Assets |-> 0] /\ trust = FALSE
  /\ notes = [a \in Assets |-> <<>>]
  /\ queue = <<>> /\ encrypted = <<>> /\ audits = <<>>
  /\ swaps = [k \in SwapIds |-> NoSwap]
  /\ lag = 0 /\ horizon = TRUE

Audit(op, state, swap) == [op |-> op, state |-> state, swap |-> swap]

-----------------------------------------------------------------------------
(* Setting up *)

\* requestXlm: the record is written first, Friendbot is asked after.
RequestXlm ==
  /\ Len(audits) < MaxAudits
  /\ audits' = Append(audits, Audit("faucet_xlm", "pending", "none"))
  /\ UNCHANGED <<pub, trust, notes, queue, encrypted, swaps, lag, horizon>>

Asked(i) == audits[i].op = "faucet_xlm" /\ audits[i].state = "pending"

\* Friendbot creates an account once.
FriendbotPays(i) ==
  /\ Asked(i) /\ pub["XLM"] = 0
  /\ pub' = [pub EXCEPT !["XLM"] = Grant]
  /\ audits' = [audits EXCEPT ![i].state = "success"]
  /\ UNCHANGED <<trust, notes, queue, encrypted, swaps, lag, horizon>>

FriendbotRefuses(i) ==
  /\ Asked(i) /\ pub["XLM"] > 0
  /\ audits' = [audits EXCEPT ![i].state = "failed"]
  /\ UNCHANGED <<pub, trust, notes, queue, encrypted, swaps, lag, horizon>>

\* addTrustline asks Horizon and throws for an account that does not exist; otherwise it can be repeated.
AddTrustline ==
  /\ horizon /\ pub["XLM"] > 0 /\ trust' = TRUE
  /\ UNCHANGED <<pub, notes, queue, encrypted, audits, swaps, lag, horizon>>

\* USDC comes from outside: from the issuer's faucet or from another user.
ReceivePublic(a) ==
  /\ pub["XLM"] > 0 /\ (a = "USDC" => trust)
  /\ pub[a] + Total(notes[a]) < Grant
  /\ pub' = [pub EXCEPT ![a] = @ + 1]
  /\ UNCHANGED <<trust, notes, queue, encrypted, audits, swaps, lag, horizon>>

-----------------------------------------------------------------------------
(* Moving money *)

\* An EncryptedNote is stored: a credit with a transaction hash, or one marked pending, for
\* ever.  Those of both kinds beyond the newest HistoryLimit are not read again.
Stored(kind) == Append(IF Len(encrypted) < HistoryLimit THEN encrypted ELSE Tail(encrypted), kind)

CanDeposit(a, v) == pub[a] - v >= Reserve(a) /\ pub["XLM"] > 0

Deposit(a, v) ==
  /\ CanDeposit(a, v) /\ Len(notes[a]) < MaxNotes
  /\ pub' = [pub EXCEPT ![a] = @ - v]
  /\ notes' = [notes EXCEPT ![a] = Append(@, v)]
  /\ encrypted' = Stored("credit")
  /\ UNCHANGED <<trust, queue, audits, swaps, lag, horizon>>

\* withdrawSelf takes a note of exactly this value.
WithdrawSelf(a, v) ==
  /\ Contains(notes[a], v)
  /\ pub' = [pub EXCEPT ![a] = @ + v]
  /\ notes' = [notes EXCEPT ![a] = RemoveFirst(@, v)]
  /\ UNCHANGED <<trust, queue, encrypted, audits, swaps, lag, horizon>>

SendPublic(a, v) ==
  /\ horizon /\ CanDeposit(a, v)
  /\ pub' = [pub EXCEPT ![a] = @ - v]
  /\ UNCHANGED <<trust, notes, queue, encrypted, audits, swaps, lag, horizon>>

SendPrivate(a, v) ==
  /\ Contains(notes[a], v)
  /\ notes' = [notes EXCEPT ![a] = RemoveFirst(@, v)]
  /\ UNCHANGED <<pub, trust, queue, encrypted, audits, swaps, lag, horizon>>

\* splitNote: withdrawals first, one by one, the deposit of the exact amount last; it may
\* stop after any of them, and what was withdrawn by then is public.
SplitNote(a, v, done) ==
  LET steps == Len(ToWithdraw(notes[a], v)) + 1
      left == AfterSplit(notes[a], v, done)
  IN
  /\ Total(notes[a]) >= v /\ done \in 1..steps
  /\ notes' = [notes EXCEPT ![a] = left]
  /\ pub' = [pub EXCEPT ![a] = @ + Total(notes[a]) - Total(left)]
  /\ encrypted' = IF done = steps THEN Stored("credit") ELSE encrypted
  /\ UNCHANGED <<trust, queue, audits, swaps, lag, horizon>>

\* Somebody's sendPrivate: an encrypted note marked pending and an entry to be claimed.
ReceivePrivate(a) ==
  /\ Incoming < Len(PaidIn) /\ a = PaidIn[Len(queue) + 1]
  /\ queue' = Append(queue, [asset |-> a, processed |-> FALSE])
  /\ encrypted' = Stored("pending")
  /\ UNCHANGED <<pub, trust, notes, audits, swaps, lag, horizon>>

\* processPendingWithdrawals, for one entry; those whose proof is stale stay.
Process(i) ==
  /\ ~ queue[i].processed /\ pub["XLM"] > 0
  /\ queue' = [queue EXCEPT ![i].processed = TRUE]
  /\ pub' = [pub EXCEPT ![queue[i].asset] = @ + 1]
  /\ UNCHANGED <<trust, notes, encrypted, audits, swaps, lag, horizon>>

-----------------------------------------------------------------------------
(* Around the user *)

Live == {"requested", "proofs_pending", "proofs_ready", "executing", "failed", "completed"}
ProofStatuses == {"awaiting_acceptance", "awaiting_alice", "awaiting_bob", "ready"}

SwapBegins(k, role) ==
  /\ swaps[k] = NoSwap /\ Incoming < Len(PaidIn)
  /\ swaps' = [swaps EXCEPT ![k] =
                [status |-> "requested", role |-> role, proofStatus |-> "awaiting_acceptance"]]
  /\ UNCHANGED <<pub, trust, notes, queue, encrypted, audits, lag, horizon>>

\* The swap is moved, by the other party or by the user; the user's moves are audited.
SwapMoves(k, status, proofStatus, audited) ==
  /\ swaps[k] # NoSwap /\ swaps[k].status # status
  /\ status # "proofs_pending" => proofStatus = "ready"
  /\ swaps' = [swaps EXCEPT ![k].status = status, ![k].proofStatus = proofStatus]
  /\ IF audited
       THEN /\ Len(audits) < MaxAudits
            /\ audits' = Append(audits,
                 Audit("swap_execute_private", IF status = "failed" THEN "failed" ELSE "success", k))
       ELSE UNCHANGED audits
  /\ UNCHANGED <<pub, trust, notes, queue, encrypted, lag, horizon>>

LagChanges(n) ==
  /\ lag # n /\ lag' = n
  /\ UNCHANGED <<pub, trust, notes, queue, encrypted, audits, swaps, horizon>>

HorizonChanges ==
  /\ horizon' = ~ horizon
  /\ UNCHANGED <<pub, trust, notes, queue, encrypted, audits, swaps, lag>>

Services ==
  \/ \E i \in DOMAIN audits : FriendbotPays(i) \/ FriendbotRefuses(i)
  \/ \E n \in 0..MaxLag : LagChanges(n)
  \/ HorizonChanges

Others ==
  \/ \E a \in Assets : ReceivePublic(a)
  \/ \E k \in SwapIds, r \in Roles : SwapBegins(k, r)
  \/ \E k \in SwapIds, s \in Live \ {"requested"}, p \in ProofStatuses \ {"awaiting_acceptance"}, b \in BOOLEAN :
       SwapMoves(k, s, p, b)
=============================================================================
