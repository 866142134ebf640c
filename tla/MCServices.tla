----------------------------- MODULE MCServices -----------------------------
(***************************************************************************)
(* The instance of Services that TLC checks.                               *)
(***************************************************************************)
EXTENDS Services, TLC

CONSTANTS
  payer, k1, k2,     \* SorobanClient: an account and two calls of it
  mail, google,      \* Accounts: one person
  LegacyNotes,       \* Accounts: notes stored by the earlier release
  p1, p2             \* PoolIndexer: pools

MCPayerOf == [c \in {k1, k2} |-> payer]
MCGoogleId == [e \in {mail} |-> google]

\* A mainnet pool and a testnet pool whose variable has no prefix, with and without the
\* other one.
Variables == {"MAINNET", "TESTNET", "UNPREFIXED"} \X {"usdc", "xlm"}
OnlyTestnet == [v \in Variables |-> IF v = <<"UNPREFIXED", "usdc">> THEN p2 ELSE Unset]
BothNetworks == [OnlyTestnet EXCEPT ![<<"MAINNET", "usdc">>] = p1]
MCEnvironments == {OnlyTestnet, BothNetworks}
MCPaidIn == <<"XLM", "USDC">>
MCHomeOf == p1 :> "mainnet" @@ p2 :> "testnet"

\* The components that do not move start in one of their initial states only, and the
\* user of the pages has private notes of at most one asset.
MCInit ==
  /\ Init
  /\ part # "accounts" => \A id \in Ids : users[id] = None
  /\ Cardinality(sealed) = IF part = "accounts" THEN LegacyNotes ELSE 0
  /\ part # "index" => env = OnlyTestnet
  /\ part # "desk" => guide = "none"
  /\ purse["USDC"] = <<>> /\ (part # "web" => purse["XLM"] = <<>> /\ leg = "XLM" /\ ~ counterparty)
  /\ part # "forms" => form = "send"

MCSpec == MCInit /\ [][Next]_vars /\ Fairness
=============================================================================
