# Verification of zkash

zkash is a custodial wallet for private payments and swaps on Stellar. Tokens
are paid into a *shielded pool* contract against the commitment of a note;
whoever knows the secrets of a note can spend it with a zero-knowledge proof.
An API holds users' notes and keys, drives the contracts for them, lets two
users swap a USDC note for an XLM note, and sells XLM for rupees. A web client
shows each user what he has and what he might do next.

This directory holds TLA+ modules for the parts where state, concurrency and
failure meet, and for the decisions the pages are computed from; configurations
that model-check them with TLC; and proofs for TLAPS. `PROJECT.json` maps each
definition to the lines it models and lists runs, hazards, findings, theorems
and, for every property, a faulty variant of the code that violates it.

## 1. Inventory

| Part | State | Operations | Modules |
|---|---|---|---|
| Shielded pool contract (`packages/contracts/shielded_pool`) | admin, current root, window of 16 recent roots, commitments, nullifiers, token balance | `initialize`, `deposit`, `withdraw`, `transfer` | `ShieldedPool`, `PrivateLedger` |
| Swap contract (`packages/contracts/zk_swap`) | none | `execute`: `transfer` on two pools | `ZkSwap`, `PrivateExchange` |
| Commitment tree (`poseidon.rs`, `merkle-tree.service.ts`, `merkleProof.circom`) | none (pure) | root of leaves, siblings of a leaf, root of a path | `MerkleTree` |
| Circuit and Groth16 verifier, ProofService | none | prove, verify | `Verifies` in `ShieldedPool` |
| SorobanService | none of its own; sequence numbers on the ledger | build, simulate, send, wait with time-out | `SorobanClient` |
| SwapService | swap document: status, proof status, two proofs, two output notes, hash | `request`, `accept`, `prepareMyProof`, `submitSwapProof`, `executeSwap`, `executeSwapPrivate`, `complete`, workspaces | `SwapService`, `SwapViews`, `Offers` |
| UsersService | SpendableNotes (`spent`), PendingWithdrawals (`processed`) | `deposit`, `withdrawSelf`, `sendPrivate`, `sendPayment`, `processPendingWithdrawals`, `splitNote`, a dozen workspaces | `UsersService`, `NoteLists`, `Desk`, `DeskViews`, `DeskBoards`, `DeskAdvice` |
| FiatService | fiat orders: status, payment id, hash | `createOrder`, `verifyPayment`, `processBuy`, `initiatePayout`, plans and previews | `FiatService`, `FiatViews` |
| AuthService, sessions | users: Google id, key version, encrypted keys; cookies | sign-in, linking, migration of keys, deletion, workspaces | `Accounts`, `DeskViews` |
| OffersService | offers: active, limits, rate | `create`, `update`, `list`, market and merchant workspaces | `Offers`, `OfferViews` |
| PoolIndexerService, network context | cached commitments, sync state; environment | `start`, timer, `syncPool`; choice of an address | `PoolIndexer` |
| FaucetService, SponsorshipService, TransactionAuditService | audit records | `requestXlm`, `addTrustline`, `sponsorship` decision, `record` | `Desk`, `DeskViews` |
| OpsService | none; reads the whole database | readiness, alerts, dependencies, remedies, routes | `OpsBoards` |
| Web client (`apps/web`) | what each page waits for and shows | buttons, proxies, retries, previews while typing | `WebClient`, `WebForms`, `SwapViews` |
| Event worker, SDK, scripts | section 7 | | not modelled |

**How they interact.** The API is one Node process: handlers interleave at
every `await`, keep what they read before it, and write Mongoose documents
without a version check. It calls the contracts through Soroban RPC: reads are
separate calls (the root and the leaves are two of them), a transaction is
simulated, sent and polled for up to 120 s, is good for 180 s, and may take
effect after the handler gave up. A contract call is atomic: an error undoes
all its writes. The swap contract calls both pools within one transaction. The
pools know nothing of the API; other users append leaves at any time. Nothing
resumes a handler that died. Between page and API stand a proxy and routes of
Next with time-outs of their own; the API works on after they gave up. The
workspaces are computed from each other and from the same collections, each
with queries and thresholds of its own.

**What is hard.** Data read before an `await` and used after it (swap
documents, offers, users, roots, notes picked, sequence numbers); transactions
that land after a time-out; steps after the chain has moved that fail; proofs
that are good only while a root is current (`transfer`) or in the window
(`withdraw`); requests that come twice, in an unusual order, or at once; answers
that come late or never; syncs that overlap; boundaries of the window and of
the sparse tree; and boards that must agree about one situation.

**What makes each part correct.** Pool: the root is that of its own leaves, a
note is spent once, every unspent note can be paid, owners are never locked
out. Swap contract: both legs or none. Soroban client: what it answers is so.
Swap service: *completed* is true and credited, notes are not lost on failure,
no swap hangs, nobody is sent to a refusal. Wallet: it shows what the pool has,
and gives up a note only for a reason. On-ramp: an order is paid out once, for
money received, and its outcome is final. Accounts: one per person, whose keys
and notes open. Market: a listing is up because its seller wants it. Indexer:
*healthy* means cached, and it keeps up. Desk: the pages agree, name a remedy
for every trouble they show, and lead somewhere. Web client: a click pays once,
and the button comes back. The hazards of `PROJECT.json` list the places where
each could break.

## 2. Modules

Definitions that a comment calls a *faulty variant* are not part of a
specification: each stands for a plausible bug and shows that the property it
is for would notice.

**The chain.**

- `ShieldedPool`: one contract. A call is one action, enabled when all checks
  pass; a refused call stutters. A note stands for its secrets, its commitment
  and its nullifier hash (Poseidon is taken as collision free); a root is the
  list of leaves under it, plus `ZeroRoot`, the 32 zero bytes `initialize`
  stores, which is the root of no list. `Next` lets callers use every root they
  can have seen, proofs for other amounts and other bindings, and new roots
  computed from old leaves. `Worth` is the sum of values over sets of notes,
  given as a constant with its recursion equations as an assumption.
- `PrivateLedger`: what a pool promises, with two sets of notes and a pot of
  cash. `ShieldedPool!ImplementsLedger` is the refinement.
- `ZkSwap` composes two instances of `ShieldedPool`; `PrivateExchange` is two
  ledgers coupled by a swap step, and `ZkSwap!ImplementsExchange` the
  refinement.
- `MerkleTree`: the root, siblings and path algorithms as recursive functions,
  against a full tree, over every list of leaves a pool can go through. It
  justifies taking a root for a list in `ShieldedPool` (`RootsDiffer`).
- `SorobanClient`: concurrent calls of one account, its sequence number, and
  time in minutes: the time bound of a transaction (3) is longer than the wait
  for it (2), so it may take effect after the caller was told *not confirmed*.

**Requests over it.** A handler is a record in a slot: the await it is at and
the values it remembers, the document it loaded included.

- `SwapService`: one swap. `Save` writes only the fields that differ from the
  loaded document, as Mongoose does. Leaf counts, spent notes, the sequence
  number of Bob's account and the transactions sent decide what an execution
  comes to. `SwapViews` extends it: the workspace, the action board, the
  seller's queue and the web page's buttons, each computed from the document of
  the moment, and what a request for an offered action would meet.
- `UsersService`: the wallets of some clients over an instance of
  `ShieldedPool` with outsiders in it. `deposit`, `withdrawSelf`, `sendPrivate`
  and `processPendingWithdrawals` share the steps they share in the code: read
  root, read leaves, (prove,) simulate and send, wait, write.
- `FiatService`: orders, captured payments, concurrent verifications, payouts
  from the admin's account with its sequence number.
- `Accounts`: sign-ins of one person in several tabs, accounts found, linked,
  created, migrated and deleted, with requests that decrypt meanwhile. A
  ciphertext is the derivation of the key that opens it.
- `Offers`: listings, requests for swaps, updates and completions at the same
  time, with the swaps in the order of their last change; `OfferViews`: what the
  market and the merchant's page count from them, the cuts at the last five
  completed swaps and the last eight outcomes included (`Newest`).
- `PoolIndexer`: overlapping syncs, each at one lane with the leaves it read. A
  bulk stores its entries one at a time (`StoreEntry`), so that the unique index,
  a failing database or a crash may cut it after any of them.

**One user and his pages.** How a deposit or a swap gets done is the matter of
the modules above; here each is one step with the outcomes they allow.

- `NoteLists`: the list of a user's notes of one asset, and what `splitNote`
  makes of it, stopped after any of its withdrawals.
- `Desk`: public balances, trustline, notes, unclaimed payments, the encrypted
  notes the history still reads, audit records, swaps, lagging pools, and whether
  Horizon answers. `DeskViews` (wallet, send
  planner, history, sign-in, account, funding, actions), `DeskBoards` (contacts,
  portfolio, playbook, settlement, liquidity), `OpsBoards` (the operators'
  page) and `FiatViews` (plans and previews of buying and selling) compute from
  it what is shown: every decision, as the word the code uses for it or as the
  task it suggests; texts are left out. The history reads the newest entries of
  four collections, the encrypted notes of deposits and of payments together, and
  keeps the newest of all; `Timelines` is every history these limits may leave.
- `DeskAdvice`: a user who follows the advice of one page and nothing else, or
  one who does what comes to mind.
- `WebClient`: clicks, requests, answers, lost answers, and the page's own
  split-and-try-again. `WebForms`: a preview asked while typing, with and
  without an `AbortController`, answered, refused or lost, as each form takes it.

`Services` puts eight of these components side by side, which share no state, and
states their properties again under its own name. `MC*` modules give the
constants for TLC; `*Proofs` modules hold the proofs of the module they are
named after, `ServicesProofs` those of the components of `Services`, and
`UserProofs` those of the two that concern one user, his account and his desk.

### Abstractions

- Signatures: `require_auth` passes for the account that signs; who signs is
  not restricted, which allows more behaviours than the contract does.
- A contract cannot open a commitment. That the amount of a deposit, and the
  agreed amount of a swap, is the value in the commitment is assumed of the
  callers; both services build the two from one number.
- Wallet: notes are used for their exact value, as `sendPrivate` and
  `withdrawSelf` require; the 60 retries of `withdrawSelf` are any number;
  account sequence numbers and network errors are covered by `Reject`
  (`SorobanClient` has them); EncryptedNotes are left out.
- Database calls succeed unless the handler dies, except in `MarkExecuting`,
  `Credit` and `Confirm` of `SwapService`, in `Offers.DeactivateOfferFails` and in
  `PoolIndexer`, where a catch block, or the lack of one, matters.
- `SwapService` leaves out `autoWithdrawSafe`, which calls `withdrawSelf` up to
  twenty times after a private swap, and takes the audit records of `complete`
  for part of the step that writes them.
- `FiatService`: the checks of signature, mode, amount and currency compare the
  request with what is stored once and for all; only requests that pass them
  are modelled.
- `Desk`: amounts are whole units, one unit of XLM stands for reserve and fees;
  thresholds and limits are constants, named with the value the code has. The
  dates of different collections are not compared: which entries a cut of the
  merged history drops is left open, and a property holds for every choice. The
  action center takes all swaps and audits of the user, where the code takes the
  newest 24.

## 3. Runs

| Run | Instance | Shows |
|---|---|---|
| `shielded_pool` | 3 notes (values 1, 1, 2), 2 users, window 2, 3 leaves | all invariants of the pool, that history is append-only, and `ImplementsLedger` |
| `zk_swap` | two pools, 2 notes each (values 1, 2), window 2, 3 leaves | `BothPoolsHonourNotes`, `ImplementsExchange` |
| `swap_service` | 2 handlers, 5 requests, 1 foreign append, 1 fault (a crash, or an audit record that cannot be written) | what the swap document, the wallets and the boards say is so, and what is offered is accepted; executing ends |
| `wallet` | 2 clients with 2 notes, an outsider with 2, 2 handlers, 4 requests, 1 fault, window 2 | wallets follow the pool (1.2 million states) |
| `fiat` | 2 orders, 3 payments, 2 handlers, 3 requests, 1 foreign transaction, 1 crash | orders are paid out once; outcomes are final; reservations end |
| `services` | eight components side by side, below (199 thousand states) | the properties of each |

`services` checks components that share no state. A behaviour is a behaviour of
one of them (`part`), so that the states add up and do not multiply; `Services`
repeats the properties of each, and `MCServices` only gives the constants:

| Part | Instance | Properties |
|---|---|---|
| `MerkleTree` | depth 3, leaves from two values and zero | `RootIsOfFullTree`, `PathsProve`, `RootsDiffer` |
| `SorobanClient` | 2 calls of one account, 3 minutes | `AnswersAreTrue` |
| `Accounts` | one person, 2 tabs, 2 handlers, 2 document ids, 1 note | `KeysOpen`, `OneAccountEach` |
| `OfferViews` | 2 users, 2 listings or 1 listing and an update, 2 handlers, 2 swaps, `RoutedLimit` and `OutcomeLimit` 1 | `RelistingIsDeliberate`, `BoardsCountTheSame` |
| `PoolIndexer` | a main and a test pool, two environments, 2 leaves, 2 syncs, 1 fault | `HealthyMeansCached`, `KeepsUp` |
| `DeskAdvice` | 2 notes an asset, 2 payments received or 1 and a swap, 1 audit record, 1 lagging pool, 6 guides and none; the limits of the history are 1, 3 (all entries) and 2 (the latest) | `PlannersAgree`, `TroubleHasARemedy`, `AdviceLeadsHome` |
| `WebClient` | 1 tab, 2 clicks, 2 notes | `ClicksPayOnce`, `ButtonsComeBack` |
| `WebForms` | 2 inputs, 3 requests, all forms | `PreviewFitsInput` |

Six runs show where the program departs from what it says. Each checks one
property and TLC finds a behaviour of the code that violates it:

| Run | What happens |
|---|---|
| `swap_ready` | A swap reads *proofs_ready*, "the remaining blocker is an actual private execution submission", after somebody's deposit made its proofs unusable. |
| `swap_settled_once` | `proofStatus` stays `ready` for ever, so a completed swap can be executed again, and both legs are paid twice. One handler is enough. |
| `first_deposit` | On a fresh pool the root of no leaves differs from the zero bytes stored, so the first deposit is refused with "Pool root changed". |
| `received_claimable` | A received payment counts as claimable although its root has left the window. The sender's note stays marked spent. |
| `sent_once` | Two concurrent private sends use the same note; two recipients are told they were paid. |
| `notes_open` | A sign-in migrates the keys of an account of the earlier release and leaves its notes under the old key, which nobody tries any more (`LegacyNotes` is 1 in this run and 0 in `services`). |

**Bounds.** They are in the configurations and named in the modules
(`MaxLeaves`, `MaxRequests`, `MaxFaults`, ...). A window of two roots and three
leaves makes it overflow and makes roots stale; three notes allow one to be
spent, one live and one outside, and a note created again after it was spent.
Values 1 and 2 let amounts match, overpay and underpay. Two handlers are enough
for every race between a read and a write of two requests; the request bounds
are the smallest at which every action happens and a whole swap, or a send and
its claim, fits beside an intruder. One fault is one crash or one time-out at
any point. Depth 3 has levels that are odd, even and empty at every position.
Three minutes let a transaction be sent, given up on and expire. Two ids of
documents let a person delete his account and make another. Two leaves and two
appends let a commitment be in a pool twice, and two syncs overlap anywhere.
Two notes of one asset make `splitNote` choose between one larger and several
smaller; a grant of 2 pays one deposit beside the reserve, and an empty account
is one transfer away. A history that keeps one encrypted note and one queue entry
loses an unclaimed payment behind a deposit or a newer payment, and one of three
entries does not fit among the latest two. Two listings and two completed swaps
do not fit the seller's short lists. Two clicks are a click and an impatient second one; three
previews make an answer of the first come after that of the second while the
third is typed. In `swap_service` the only bound on `generated` output notes is
the number of requests.

**Symmetry** is used in `wallet` only: clients, their notes (all of value 1) and
slots are interchangeable, no operator chooses among them, and the run checks
invariants only.

**Deadlock** is not checked: with the bounds used up, and for a pool that is
full, the system has nothing left to do.

## 4. Fairness

What is assumed is that code which has started goes on, and that networks which
are asked answer or time out:

- `SwapService`, `FiatService`: weak fairness of the steps of handlers. Every
  `await` of a handler ends, because database calls return and waits for the
  network have a time-out (`waitForTransaction`, 120 s; Horizon's client, a
  minute). Clients, other users, Razorpay and the ledger are under no
  obligation. `ExecutingEnds` and `ReservationsEnd` say that a status ends
  unless a handler died or, for a swap, could not write the audit record that
  precedes its `try`, which is the truth: nothing resumes it.
- `PoolIndexer`: weak fairness of the timer (`setInterval`) and of the steps of
  a sync. `KeepsUp` needs in addition that the process stays up, and speaks of
  the lanes no earlier lane blocks for ever.
- `DeskAdvice`: Friendbot answers in the end, one way or the other; a guided
  user looks again and again at the page while Horizon answers, and strong
  fairness of what he can do of its advice. Other users and the index are free.
- `WebClient`: weak fairness of the answers, the proxies' time-outs included,
  and of the pause before a second attempt. The API is under no obligation.

`UsersService`, `Accounts`, `Offers`, `SorobanClient`, `WebForms` and the
contracts state no liveness.

## 5. Proofs

TLAPS proves the following for every value of the constants that satisfies the
named assumption of the module: any number of notes, users, handlers,
transactions, requests and faults, any depth of the tree.

| Module | Theorems | Assumes |
|---|---|---|
| `ShieldedPoolProofs` | `TypeCorrect`, `RootFollowsLeaves`, `RootsAreOwnHistory`, `SpentOnce`, `OnlyLeavesAreSpent`, `PoolIsSolvent`, `OwnersAreNeverLockedOut`, `HistoryIsAppendOnly`, `PoolImplementsLedger` | `PoolAssumption` (types), `WorthAssumption` (`Worth` is additive) |
| `ZkSwapProofs` | `BothPoolsPay`, `SwapImplementsExchange` | `SwapAssumption` of `ZkSwap` (both pools' assumptions) |
| `SwapServiceProofs` | `Invariant`, `CompletedIsSettled`, `CompletedIsCredited`, `MarkedIsSpent`, `ReadyHasBothProofs`, `OffersAccepted` | `SwapAssumption` of `SwapService` |
| `UsersServiceProofs` | `Invariant`, `StoredAreDeposited`, `MarkedAreGone`, `ProcessedArePaid`, `WalletsAgree` | `WalletAssumption` |
| `FiatServiceProofs` | `TypeCorrect`, `OnePayoutPerPayment`, `FulfilledOrdersArePaidOut`, `RecordedOutcomesAreFinal` | `FiatAssumption` |
| `MerkleTreeProofs` | lemmas only: `RootIsOfTree`, `PathLeadsToRoot`, `OnlyPathsFromLeaves`, `SameRootSameLeaves`, `SameLeavesSameRoot` and an invariant of the leaves | `TreeAssumption` |
| `ServicesProofs` | `RootsAreOfFullTrees`, `PathsAlwaysProve`, `RootsStayDifferent`, `CallersKnow`, `HealthyPoolsAreCached`, `PreviewsFit`, `RelistingStaysDeliberate`, `BoardsAgree`, `ClicksNeverPayTwice` | `ServicesAssumption` (those of its parts) |
| `UserProofs` | `KeysAlwaysOpen`, `OneAccountForEach`, `PlannersAlwaysAgree`, `TroubleAlwaysHasARemedy` | `ServicesAssumption` |

A component that is only instanced (`MerkleTree`, `Accounts`, `DeskAdvice`) has
its assumption as a named operator; `Services` assumes it of its instance. The
theorems of `ServicesProofs` and `UserProofs` are about `Services!Spec`, the
specification the run `services` checks; the two modules are one argument, cut in
two where no lemma crosses. A theorem of a proof module is used for an instance
of the component by taking an instance of the proof module with the same
substitution (`TreeSide`, `UsdcSide`, `XlmSide`) and, where formulas of both are
in one statement, showing that they are the same (`SameTree`).

How the arguments go:

- *Pool.* The safety invariants support each other. `RootIsOfCommitments` makes
  the window a recent history, the window makes every accepted root one of a
  prefix of the leaves, so that `Verifies` gives `OnlyCommittedNotesSpent`,
  without which spending a note would not reduce `Worth[Live]`, and `Solvency`
  would not be inductive. The conjunct added is `NothingBeforeInitialize`. Each
  call maps to a ledger step under the mapping live, spent, cash.
- *Swap contract.* The invariant is the pool's, once for each pool. What one call
  does to one pool is cited from `ShieldedPoolProofs`: a swap is a `transfer`
  of each, so it maps to the one step of `PrivateExchange` in which both ledgers
  move, and any other call to a step of one ledger beside a stutter of the other.
- *Tree.* All three programs are compared with `FullTree`, level by level. A
  sparse level is the full one as far as it goes, and what is behind its end is
  an empty subtree (`Matches`); filling up and pairing keep that, which gives
  `RootIsOfFullTree`. A path goes up the full tree along the places of its leaf,
  and since a hash determines both arguments, a path that ends in the root went
  through the nodes of the tree all the way down (`PathsProve`). Two lists with
  one root therefore agree at every place; the contract refuses an append that
  keeps the root, so no leaf but the first is zero and none lies beyond the last
  place, and prefixes of different length differ (`RootsDiffer`).
  These are inductions over levels. `Induction` is proved from what the library
  says of finite sets: the numbers up to x that a set lacks could be mapped into
  themselves without x, one smaller each. The recursive functions are choices to
  the prover, and that there is something to choose is shown by the same lemma,
  once for each of the six.
- *Swap service.* Handlers save documents they loaded long ago, so nothing can be
  said of a loaded document being current. The invariant says what of it stays
  true (`Knows`: a hash or a proof that it has is not missing from the database),
  and of each handler what it knows of its transaction: whose it is, and, from
  `Credit` on, that it took effect, which the chain never takes back. What is
  offered is accepted because a status that is executing or proofs_ready comes
  with both proofs, and each page offers no more than its own guard of the same
  document. The proofs a client sends along need nothing of the document: that
  they are accepted is the chain's matter.
- *Wallet.* The same, over the pool: the lists of the pool, the transactions and
  the payments only grow (`Advances`), so what a handler knows lasts
  (`KnowledgeLasts`). A handler that waits is waiting for the transaction of its
  note or of the payment it is at (`Sends`), and one that is about to mark a
  note holds one that is spent or handed over. Nothing of the pool's own
  correctness is needed. `QuietWalletsAgree` needs a second invariant, an
  account of everything under way (`Accounted`): while no fault happened, every
  transaction is dead, written down, or has a handler that will write it down,
  so that without handlers nothing is left over.
- *On-ramp.* The properties are about payouts, but what keeps them is ownership:
  an order that is being worked on reads *paid* (`ReservedByWorker`) and has one
  handler (`OneWorkerPerOrder`), which has sent nothing before it submits
  (`NothingSentYet`) and watches a payout of its own order (`WatchesOwnPayout`).
- *Soroban client.* What is known of a call relates minute, sequence number and
  fate; of calls with one number of one account at most one takes effect, since
  taking effect moves the account past the number.
- *Accounts.* A document's secrets are under the key of its owner and of its
  version, linked or not; a request knows the address of the document it loaded,
  which never changes, and nothing else of it. That an `_id` stays with its person
  or with nobody is an action property: only `CreateAccount` stores a document
  where there was none, under an `_id` that was never used, and a save writes only
  what is still there.
- *Market.* A save writes the fields that its patch changes against the copy it
  loaded, so a listing goes up only at the hand of a handler that saw it down and
  was asked to put it up, however old that copy is. The boards agree because every
  swap has one listing and the seller of that, which no update changes and
  `request` compares (`BoardInv`); a sum of counts of disjoint classes is the
  count of them together (`SumOfCounts`), by induction on the number of classes.
  The newest n of some swaps are n of them, or all (`NewestAreSoMany`), because the
  numbers of swaps after each of them are different.
- *Indexer.* What a sync saw are leaves of the pool for ever, and once its bulk
  succeeded they are in the cache, which only grows, whatever the syncs that
  overlap it do.
- *Web client.* A click has one page and at most one request that can pay; a page
  that tries again does so only after an answer that says nothing was paid
  (`ClickOK`). *Forms.* At most the request for what is typed is under way on a
  form that aborts, and none while its timer runs; so what ends last is what
  `outcome` speaks of.

- *Desk.* The invariant is short: balances and notes are numbers, and who has
  anything at all has XLM (`DeskInv`). The work is in what the pages compute. A
  total is a fold over a list, and the folds of the library are choices to the
  prover: `FoldExists` shows, by induction on the number of elements, that there
  is something to choose, `SumsAgree` that it is unique, and `SumFirst` that it
  does not matter which element is taken first. So a total is that of the parts
  of a list (`TotalOfBoth`), and taking the planned notes out of a list leaves
  what they were not (`WithoutThePlan`): the plan is enough when the total is
  (`PlanIsEnough`), and splitting loses nothing, wherever it stops
  (`SplitLosesNothing`). With this the planners are compared case by case
  (`PlannersAgreeNow`). A remedy is found on the other pages for each trouble in
  turn, for every history T and every choice of its latest entries: four pages go
  by the queue itself, the playbook by the pending withdrawals it finds in T
  (`QueueWaitsInHistory`), and missing funds or notes are among the three tasks of
  the sign-in page unless three others come first (`FirstOpenOnesAreNext`). Of the
  numbers in the code (the lengths of the pages and of the history, the counts at
  which a board changes colour) it is only assumed that they are positive
  (`BoardsAssumption`).

Only model-checked: liveness (`ExecutingEnds`, `ReservationsEnd`, `KeepsUp`,
`AdviceLeadsHome`, `ButtonsComeBack`), which is beyond the prover. Every
invariant and every action property of a passing run is proved.

## 6. Observations

Met while modelling; the modules have the code's behaviour in each case. Those
that contradict a text of the repository in a way a run can show are the six
runs above.

*Swaps.* Concurrent `submitSwapProof` calls leave both proofs stored while the
swap reads *proofs_pending*: execution is refused until somebody submits again,
and the swap page, which looks at the proofs, offers Execute Private meanwhile.
An execution whose first audit record cannot be written (`swap.service.ts:192`,
`:665`) leaves the swap *executing* for good. The seller's queue names
`execute_public` for a swap that executes already, as an item for information,
which has no button.
`prepareMyProof` answers failure when the other proof is missing though it
stored this one (`swap.controller.ts:84` cannot be reached); the web route shows
its own time-out as success. `autoWithdrawSafe` may withdraw another note of the
same value. `verifyPublicSwapSettlement` accepts any payment with the parties and
amounts.

*Wallet.* `splitNote`, stopped half-way, leaves the amount public. Withdrawing
everything asks for one note of exactly the whole private balance, unclaimed
payments included. Every payment received leaves a *pending* EncryptedNote for
ever. A deposit that lands after a time-out or a crash has its note lost.
`getPrivateBalance` adds up the networks. The issuer of USDC on the main network
differs between `addTrustline` and `sendPayment`.

*Accounts.* Sign-in reads ready (99 points) without trustline or funds, because a
balance of '0' counts as a trustline. Deleting an account leaves its notes behind.

*Desk.* A user who follows only the sign-in page or only contacts need not get to
a private balance, so these two are not among the guides. The history's
first_private_deposit can never be shown; a failed Friendbot request reads as
an indexing delay; live swaps disappear from it once they have an audit record.
It keeps the newest 20 entries of the queue, processed or not, so an unclaimed
payment drops out behind twenty newer ones; the playbook, which looks for it
there only, then stops telling the user to claim it, while the other pages,
which count the queue, go on.
The send preview and the sale plan ignore fee and reserve. A user without a
public account is told to surface private XLM, though claiming needs the
account. The liquidity page counts unclaimed payments twice.

*Operators' page.* It may say "No active operational alerts" while the wallet
dependency is degraded; for a backlog of 5 to 7 the route is healthy and the
remedy critical; three cautions hide a critical swap; `walletAuditCount` is 0.

*On-ramp.* A purchase that is captured and whose page is closed is never
verified: there is no webhook. A sale whose preview fails after the debit
reports failure and stores nothing.

*Indexer, network.* A commitment that is in a pool twice blocks this lane and
those after it; so does an unprefixed pool variable, which makes one address
stand for both networks; a first sync that throws leaves no timer.
`TRY_AGAIN_LATER` is waited for like a transaction that was sent.

*Market.* A partial update can make the upper limit smaller than the lower.

*Web client.* The forms of a new offer and of the funding desk abort nothing and
may show the preview of an earlier input. The sponsorship card keeps the older
preview when the new request is refused, and card, send and sale forms keep it
when the answer is lost. While a preview is on its way the Send button stays
enabled beside the older one. The offers to deposit first on the send, dashboard and swap
pages cannot appear.

## 7. Not modelled

- The event worker copies contract events into EncryptedNotes, which only feed
  the history; what it finds depends on a public network's format, and it
  overwrites ciphertext and commitment of what it updates.
- SDK and scripts: helpers for experiments and deployment, which the running
  system does not call.
- `autoWithdrawSafe`, wrapping a transaction for a sponsor, Google's protocol,
  the pages that only lay out a workspace.
- Inside the modelled parts, Poseidon, the pairing check, encodings and
  encryption are functions without state, taken by what they promise.
- Every module is about one network, but for `PoolIndexer`.

## 8. Plan

Done, in this order: the pool with its ledger and proofs; the swap contract and
the exchange; the swap service; the wallet; the on-ramp with its proofs; the
tree; the client of the network, the accounts, the market and the indexer; the
user's desk with its pages and the operators' board; the web client; proofs for
the client, the accounts, the indexer, the forms, the swap service and the
wallet; `Services`, with proofs about its own specification for the tree, the
market and the web client; the swap contract and its refinement; the offers of
the swap pages; the wallets that agree in the end; the market's boards; the
planners and the remedies of the user's pages.

Left:

1. Two swaps between the same parties, for `verifyPublicSwapSettlement`
   (`swap.service.ts:1469`), and an abstract swap (two parties, two assets,
   settled or not) that `SwapService` implements as far as it does.
2. `autoWithdrawSafe` over the wallet's steps, and the event worker beside the
   history it feeds.
