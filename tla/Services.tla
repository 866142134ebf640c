------------------------------ MODULE Services ------------------------------
(***************************************************************************)
(* The components that share no state with one another: the commitment     *)
(* tree, the client of the network, the accounts, the market, the indexer, *)
(* and a user before the pages.  A behaviour is a behaviour of one of them,*)
(* chosen at the start (part), while the others stay as they began.        *)
(***************************************************************************)
EXTENDS Naturals, Sequences, FiniteSets

CONSTANTS
  Depth, Zero, TreeLeaves,                             \* MerkleTree
  Payers, Invocations, PayerOf, Horizon,               \* SorobanClient
  Emails, GoogleId, None, Ids, Sessions, MaxSealed,    \* Accounts
  Users, OfferIds, Rates, OfferAmounts, MaxSwaps, MaxWrites,        \* Offers
  RoutedLimit, OutcomeLimit,                           \* OfferViews
  Pools, HomeOf, Environments, Unset, Leaves, MaxLeaves, MaxAppends, MaxFaults, \* PoolIndexer
  Slots,                                               \* handlers, of any of the three
  Pages, SwapIds, Roles, Grant, PaidIn, MaxAudits, MaxLag, DeskNotes,  \* Desk
  WalletLimit, HistoryLimit, AuditLimit, SwapLimit, TimelineLimit, LatestLimit, ActivityLimit,
  SponsorMax, Sponsoring, OpenOffers, ActiveUsers,
  BacklogWarns, BacklogBlocks, BacklogCritical, SomeFailures, ManyFailures,
  ManySwapAudits, Provider,
  Tabs, Role, Amount, MaxClicks, PurseNotes,           \* WebClient
  Inputs, NoInput, MaxAsked                            \* WebForms

VARIABLES
  part,
  commitments, root,
  now, sequence, calls,
  users, sessions, used, requests, sealed,
  offers, marketSwaps, jobs, closing, updates,
  env, leaves, cached, state, process, syncs, faults,
  pub, trust, notes, queue, encrypted, audits, swaps, lag, horizon, guide, advice,
  page, requested, clicks, purse, leg, counterparty,
  form, typed, armed, shown, pending, asked, outcome

treeVars == <<commitments, root>>
clientVars == <<now, sequence, calls>>
accountVars == <<users, sessions, used, requests, sealed>>
marketVars == <<offers, marketSwaps, jobs, closing, updates>>
indexVars == <<env, leaves, cached, state, process, syncs, faults>>
deskVars == <<pub, trust, notes, queue, encrypted, audits, swaps, lag, horizon, guide, advice>>
webVars == <<page, requested, clicks, purse, leg, counterparty>>
formVars == <<form, typed, armed, shown, pending, asked, outcome>>
vars == <<part, treeVars, clientVars, accountVars, marketVars, indexVars, deskVars,
          webVars, formVars>>

Tree == INSTANCE MerkleTree WITH Leaves <- TreeLeaves

Client == INSTANCE SorobanClient WITH Accounts <- Payers, Calls <- Invocations

Auth == INSTANCE Accounts WITH MaxNotes <- MaxSealed

Market == INSTANCE OfferViews WITH Amounts <- OfferAmounts, swaps <- marketSwaps

Index == INSTANCE PoolIndexer

Desk == INSTANCE DeskAdvice WITH MaxNotes <- DeskNotes

Web == INSTANCE WebClient WITH MaxNotes <- PurseNotes, calls <- requested, notes <- purse

Form == INSTANCE WebForms WITH None <- NoInput

ASSUME ServicesAssumption ==
  /\ Tree!TreeAssumption /\ Client!ClientAssumption /\ Auth!AccountsAssumption
  /\ Market!ViewsAssumption /\ Index!IndexerAssumption /\ Desk!BoardsAssumption
  /\ Web!ClientAssumption /\ Form!FormsAssumption

Init ==
  /\ part \in {"tree", "client", "accounts", "market", "index", "desk", "web", "forms"}
  /\ Tree!Init /\ Client!Init /\ Auth!Init /\ Market!Init /\ Index!Init /\ Desk!AdviceInit
  /\ Web!Init /\ Form!Init

Next ==
  \/ part = "tree" /\ Tree!Next
     /\ UNCHANGED <<part, clientVars, accountVars, marketVars, indexVars, deskVars,
                    webVars, formVars>>
  \/ part = "client" /\ Client!Next
     /\ UNCHANGED <<part, treeVars, accountVars, marketVars, indexVars, deskVars,
                    webVars, formVars>>
  \/ part = "accounts" /\ Auth!Next
     /\ UNCHANGED <<part, treeVars, clientVars, marketVars, indexVars, deskVars,
                    webVars, formVars>>
  \/ part = "market" /\ Market!Next
     /\ UNCHANGED <<part, treeVars, clientVars, accountVars, indexVars, deskVars,
                    webVars, formVars>>
  \/ part = "index" /\ Index!Next
     /\ UNCHANGED <<part, treeVars, clientVars, accountVars, marketVars, deskVars,
                    webVars, formVars>>
  \/ part = "desk" /\ Desk!Next
     /\ UNCHANGED <<part, treeVars, clientVars, accountVars, marketVars, indexVars,
                    webVars, formVars>>
  \/ part = "web" /\ Web!Next
     /\ UNCHANGED <<part, treeVars, clientVars, accountVars, marketVars, indexVars,
                    deskVars, formVars>>
  \/ part = "forms" /\ Form!Next
     /\ UNCHANGED <<part, treeVars, clientVars, accountVars, marketVars, indexVars,
                    deskVars, webVars>>

\* The one that moves is treated as fairly as it would be alone.
Fairness == Index!Fairness /\ Desk!Fairness /\ Web!Fairness

Spec == Init /\ [][Next]_vars /\ Fairness

-----------------------------------------------------------------------------
(* The properties of the components; each is stated and explained there. *)

RootIsOfFullTree == part = "tree" => Tree!RootIsOfFullTree
PathsProve == part = "tree" => Tree!PathsProve
RootsDiffer == part = "tree" => Tree!RootsDiffer
AnswersAreTrue == Client!AnswersAreTrue
KeysOpen == Auth!KeysOpen
NotesOpen == Auth!NotesOpen
OneAccountEach == Auth!OneAccountEach
BoardsCountTheSame == part = "market" => Market!BoardsCountTheSame
RelistingIsDeliberate == Market!RelistingIsDeliberate
HealthyMeansCached == Index!HealthyMeansCached
KeepsUp == Index!KeepsUp
\* A user without a guide gets into every situation a guided one gets into.
PlannersAgree == part = "desk" /\ guide = "none" => Desk!PlannersAgree
TroubleHasARemedy == part = "desk" /\ guide = "none" => Desk!TroubleHasARemedy
AdviceLeadsHome == part = "desk" => Desk!AdviceLeadsHome
ClicksPayOnce == Web!ClicksPayOnce
ButtonsComeBack == Web!ButtonsComeBack
PreviewFitsInput == Form!PreviewFitsInput
=============================================================================
