----------------------------- MODULE PoolIndexer -----------------------------
(***************************************************************************)
(* PoolIndexerService: the API's background copy of the commitments of     *)
(* every configured pool (pool-indexer.service.ts), over the environment   *)
(* that says which pools there are (network.context.ts).                   *)
(*                                                                         *)
(* A sync walks the lanes one after another: the pools of the main         *)
(* network, then those of the test network.  The timer does not wait for   *)
(* the sync it started before, so that several run at once; each is a      *)
(* record in a slot.  The list of leaves of a pool only grows, so that     *)
(* what a sync has read is the number of leaves it saw.                    *)
(***************************************************************************)
EXTENDS Naturals, Sequences, FiniteSets

CONSTANTS
  Pools,         \* addresses of contracts
  HomeOf,        \* the network a contract lives on
  Environments,  \* process environments: variable -> address or Unset
  Unset,         \* a variable that is missing or empty
  Leaves,        \* commitments
  Slots,         \* bounds the syncs under way at one time
  MaxLeaves,     \* bound on the leaves of a pool
  MaxAppends,    \* bound on the leaves of all pools
  MaxFaults      \* bound on calls that fail and crashes of the process

Networks == {"mainnet", "testnet"}
Assets == {"usdc", "xlm"}

\* What an instance has to assume of the constants.
IndexerAssumption ==
  /\ HomeOf \in [Pools -> Networks]
  /\ Unset \notin Pools
  /\ Environments \subseteq
       [{"MAINNET", "TESTNET", "UNPREFIXED"} \X Assets -> Pools \cup {Unset}]

VARIABLES
  env,       \* process.env
  leaves,    \* the commitments of each contract, on its chain
  cached,    \* PoolCommitment: per pool, the set of <<index, commitment>>
  state,     \* IndexerSyncState: <<network, pool>> -> status and commitmentCount
  process,   \* "down", "starting" (the first sync), "running" (the timer is set), "stopped"
  syncs,     \* slot -> a run of syncAllOnce
  faults

vars == <<env, leaves, cached, state, process, syncs, faults>>

-----------------------------------------------------------------------------
(* The environment *)

\* The prefixed name first, then the name without a prefix, which both networks share.
ContractAddress(network, asset) ==
  LET prefixed == env[<<IF network = "mainnet" THEN "MAINNET" ELSE "TESTNET", asset>>] IN
  IF prefixed # Unset THEN prefixed ELSE env[<<"UNPREFIXED", asset>>]

\* The lane of an asset, where the environment names a pool for it.
LaneIf(network, asset) ==
  LET pool == ContractAddress(network, asset) IN
  IF pool = Unset THEN <<>> ELSE <<<<network, pool>>>>

\* The lanes in the order in which a sync takes them.
Lanes ==
  LaneIf("mainnet", "usdc") \o LaneIf("mainnet", "xlm") \o
  LaneIf("testnet", "usdc") \o LaneIf("testnet", "xlm")

-----------------------------------------------------------------------------
(* Syncs *)

Idle == [at |-> "idle"]

\* Where a sync is, the lane it is at, the leaves it saw there, and whether start() awaits it.
Sync(pc, lane, seen, first) == [at |-> pc, lane |-> lane, seen |-> seen, first |-> first]

Begin(first) ==
  IF Lanes = <<>> THEN Idle ELSE Sync("read", 1, 0, first)

Untracked == [status |-> "untracked", count |-> 0]

Init ==
  /\ env \in Environments
  /\ leaves = [p \in Pools |-> <<>>]
  /\ cached = [p \in Pools |-> {}]
  /\ state = [l \in Networks \X Pools |-> Untracked]
  /\ process = "down"
  /\ syncs = [s \in Slots |-> Idle]
  /\ faults = 0

\* onModuleInit: start() runs the first sync and sets the timer when it has ended.
Start ==
  /\ process = "down"
  /\ \E s \in Slots : syncs' = [syncs EXCEPT ![s] = Begin(TRUE)]
  /\ process' = IF Lanes = <<>> THEN "running" ELSE "starting"
  /\ UNCHANGED <<env, leaves, cached, state, faults>>

\* Every ten seconds, whether the sync before has ended or not.
Tick ==
  /\ process = "running"
  /\ \E s \in Slots : syncs[s] = Idle /\ syncs' = [syncs EXCEPT ![s] = Begin(FALSE)]
  /\ UNCHANGED <<env, leaves, cached, state, process, faults>>

Lane(s) == Lanes[syncs[s].lane]
Goto(s, pc) == syncs' = [syncs EXCEPT ![s] = Sync(pc, @.lane, @.seen, @.first)]

\* Faulty variant: a pool without leaves ends the sync.
ReadEmptyEnds(s) ==
  /\ syncs[s].at = "read"
  /\ HomeOf[Lane(s)[2]] = Lane(s)[1]
  /\ LET n == Len(leaves[Lane(s)[2]]) IN
     IF n > 0
       THEN syncs' = [syncs EXCEPT ![s].seen = n, ![s].at = "bulk"] /\ UNCHANGED process
       ELSE /\ syncs' = [syncs EXCEPT ![s] = Idle]
            /\ process' = IF syncs[s].first THEN "running" ELSE process
  /\ UNCHANGED <<env, leaves, cached, state, faults>>

\* The leaves and the latest ledger, of a contract that lives on the lane's network.
Read(s) ==
  /\ syncs[s].at = "read"
  /\ HomeOf[Lane(s)[2]] = Lane(s)[1]
  /\ LET n == Len(leaves[Lane(s)[2]]) IN
     syncs' = [syncs EXCEPT ![s] = Sync(IF n > 0 THEN "bulk" ELSE "save", @.lane, n, @.first)]
  /\ UNCHANGED <<env, leaves, cached, state, process, faults>>

\* There is no such contract on this network, or the call fails, be it the read or the bulk.
CallFails(s) ==
  /\ \/ syncs[s].at = "read" /\ HomeOf[Lane(s)[2]] # Lane(s)[1] /\ UNCHANGED faults
     \/ syncs[s].at \in {"read", "bulk"} /\ faults < MaxFaults /\ faults' = faults + 1
  /\ Goto(s, "degrade")
  /\ UNCHANGED <<env, leaves, cached, state, process>>

SeenEntries(s) == {<<i - 1, leaves[Lane(s)[2]][i]>> : i \in 1 .. syncs[s].seen}

\* The unique indexes on (poolAddress, index) and on (poolAddress, commitmentHex).
Unique(entries) == \A e, f \in entries : e # f => e[1] # f[1] /\ e[2] # f[2]

\* What the bulk of a sync has not stored yet, and could store.
Unstored(s) == SeenEntries(s) \ cached[Lane(s)[2]]
Storable(s) == {e \in Unstored(s) : Unique(cached[Lane(s)[2]] \cup {e})}

\* An unordered bulk of upserts: the entries are stored one by one, in any order, so that a
\* crash or a lost connection may come after some of them.
StoreEntry(s) ==
  /\ syncs[s].at = "bulk"
  /\ \E e \in Storable(s) : cached' = [cached EXCEPT ![Lane(s)[2]] = @ \cup {e}]
  /\ UNCHANGED <<env, leaves, state, process, syncs, faults>>

\* Faulty variant: entries that are refused are not noticed.
BulkWriteSwallowed(s) ==
  /\ syncs[s].at = "bulk" /\ Storable(s) = {}
  /\ Goto(s, "save")
  /\ UNCHANGED <<env, leaves, cached, state, process, faults>>

\* The call returns when every entry is stored or refused, and throws if one was refused.
BulkWrite(s) ==
  /\ syncs[s].at = "bulk" /\ Storable(s) = {}
  /\ Goto(s, IF Unstored(s) = {} THEN "save" ELSE "degrade")
  /\ UNCHANGED <<env, leaves, cached, state, process, faults>>

\* The pool reads healthy with the number of leaves this sync saw, which may be older
\* than what is stored; then the next lane.
SaveHealthy(s) ==
  /\ syncs[s].at = "save"
  /\ state' = [state EXCEPT ![Lane(s)] = [status |-> "healthy", count |-> syncs[s].seen]]
  /\ IF syncs[s].lane < Len(Lanes)
       THEN /\ syncs' = [syncs EXCEPT ![s] = Sync("read", @.lane + 1, 0, @.first)]
            /\ UNCHANGED process
       ELSE /\ syncs' = [syncs EXCEPT ![s] = Idle]
            /\ process' = IF syncs[s].first THEN "running" ELSE process
  /\ UNCHANGED <<env, leaves, cached, faults>>

\* The pool reads degraded and the error is thrown again: the lanes that follow are not
\* tried, and start() ends without a timer if this was its sync.
SaveDegraded(s) ==
  /\ syncs[s].at = "degrade"
  /\ state' = [state EXCEPT ![Lane(s)].status = "degraded"]
  /\ syncs' = [syncs EXCEPT ![s] = Idle]
  /\ process' = IF syncs[s].first THEN "stopped" ELSE process
  /\ UNCHANGED <<env, leaves, cached, faults>>

\* Depositors and payers append leaves, which may be equal.
AppendLeaf(p, x) ==
  /\ Len(leaves[p]) < MaxLeaves
  /\ Cardinality({e \in Pools \X (1 .. MaxLeaves) : e[2] <= Len(leaves[e[1]])}) < MaxAppends
  /\ leaves' = [leaves EXCEPT ![p] = Append(@, x)]
  /\ UNCHANGED <<env, cached, state, process, syncs, faults>>

Crash ==
  /\ process # "down" /\ faults < MaxFaults
  /\ process' = "down"
  /\ syncs' = [s \in Slots |-> Idle]
  /\ faults' = faults + 1
  /\ UNCHANGED <<env, leaves, cached, state>>

SyncStep(s) ==
  Read(s) \/ CallFails(s) \/ StoreEntry(s) \/ BulkWrite(s) \/ SaveHealthy(s) \/ SaveDegraded(s)

Next ==
  \/ Start \/ Tick \/ Crash
  \/ \E s \in Slots : SyncStep(s)
  \/ \E p \in Pools : \E x \in Leaves : AppendLeaf(p, x)

Fairness == WF_vars(Tick) /\ \A s \in Slots : WF_vars(SyncStep(s))

Spec == Init /\ [][Next]_vars /\ Fairness

-----------------------------------------------------------------------------
(* Properties *)

\* A pool that reads healthy has every leaf it counts in the cache, at its index: although
\* syncs overlap, answers come late, the service restarts half-way through a bulk and
\* one commitment may be in the pool twice.
HealthyMeansCached ==
  \A l \in Networks \X Pools :
    state[l].status = "healthy" =>
      \A i \in 1 .. state[l].count : <<i - 1, leaves[l[2]][i]>> \in cached[l[2]]

\* No lane up to the k-th can fail for ever.
Undisturbed(k) ==
  \A j \in 1 .. k :
    LET known == leaves[Lanes[j][2]] IN
    HomeOf[Lanes[j][2]] = Lanes[j][1] /\ \A m, n \in 1 .. Len(known) : known[m] = known[n] => m = n

Missing(k, i) ==
  /\ Undisturbed(k)
  /\ i <= Len(leaves[Lanes[k][2]])
  /\ <<i - 1, leaves[Lanes[k][2]][i]>> \notin cached[Lanes[k][2]]

\* While the timer runs, every leaf is cached in the end, unless this lane or one that is
\* taken before it fails for ever, because its contract is not on the network or because
\* a commitment is in it twice.
KeepsUp ==
  <>[](process = "running") => <>[](\A k \in 1 .. Len(Lanes), i \in 1 .. MaxLeaves : ~ Missing(k, i))
=============================================================================
