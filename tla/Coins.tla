-------------------------------- MODULE Coins --------------------------------
(***************************************************************************)
(* What the versions of a lineage own on the two chains, what their cached *)
(* wallets (BDK for Bitcoin, LWK for Elements) last saw of it, and what    *)
(* wallet.rs and elements_wallet.rs compute from that: balances, address   *)
(* rows, the coins a build may select.  Fees are nothing; a coin that is   *)
(* not the vault's own is not followed.                                    *)
(***************************************************************************)
EXTENDS Naturals, Sequences, FiniteSetsExt

CONSTANTS
  MaxCoins,      \* bound: outputs of the vault
  DepositValue   \* what a deposit brings

ASSUME CoinsAssumption == MaxCoins \in Nat /\ DepositValue \in Nat \ {0}

VARIABLE coins   \* the outputs, oldest first

Assets   == {"BTC", "L-BTC", "issued"}
Chains   == {"bitcoin", "elements"}
Chain(a) == IF a = "BTC" THEN "bitcoin" ELSE "elements"
Policy(chain) == IF chain = "bitcoin" THEN "BTC" ELSE "L-BTC"

\* An output: the version whose descriptor it pays, on which keychain, whether
\* it is in a block and whether a transaction spends it, and what the wallet of
\* its version made of it when it last synced.
Coin == [owner : Nat, asset : Assets, change : BOOLEAN, value : Nat,
         confirmed : BOOLEAN, spent : BOOLEAN,
         seen : {"unseen", "untrusted", "trusted", "spent"}]
NewCoin(v, a, isChange, value) ==
  [owner |-> v, asset |-> a, change |-> isChange, value |-> value,
   confirmed |-> FALSE, spent |-> FALSE, seen |-> "unseen"]

CoinsTypeOK == coins \in Seq(Coin) /\ Len(coins) <= MaxCoins

Value(S) == MapThenSumSet(LAMBDA c : coins[c].value, S)

-----------------------------------------------------------------------------
(* Syncing *)

Wallet(v, chain) == {c \in DOMAIN coins : coins[c].owner = v /\ Chain(coins[c].asset) = chain}

\* BDK trusts what is confirmed and its own change; LWK draws no such line.
Standing(c) == CASE coins[c].spent -> "spent"
                 [] ~coins[c].spent /\ (coins[c].confirmed \/ coins[c].change) -> "trusted"
                 [] OTHER -> "untrusted"

\* FederationWallet::sync and LiquidFederationWallet::sync.
Synced(v, chain) == [c \in DOMAIN coins |-> IF c \in Wallet(v, chain)
                                            THEN [coins[c] EXCEPT !.seen = Standing(c)]
                                            ELSE coins[c]]

\* What a restarted server loads: BDK finds what it persisted, an LWK wallet is
\* built from its descriptor and address indices, and has seen nothing.
Reloaded == [c \in DOMAIN coins |-> IF Chain(coins[c].asset) = "elements"
                                    THEN [coins[c] EXCEPT !.seen = "unseen"]
                                    ELSE coins[c]]

-----------------------------------------------------------------------------
(* What a wallet answers from memory *)

Held(v, a)    == {c \in Wallet(v, Chain(a)) :
                    coins[c].asset = a /\ coins[c].seen \in {"untrusted", "trusted"}}
Trusted(v)    == {c \in Held(v, "BTC") : coins[c].seen = "trusted"}

\* The baseline of "spendable": Balance::trusted_spendable, or the whole L-BTC
\* balance.
Baseline(v, chain) == IF chain = "bitcoin" THEN Trusted(v) ELSE Held(v, "L-BTC")

\* Mutant: an address's row shows what it received.
ReceivedRows(v, a, isChange) ==
  Value({c \in Wallet(v, Chain(a)) : /\ coins[c].asset = a /\ coins[c].change = isChange
                                     /\ coins[c].seen # "unseen"})

\* The unspent column of the rows of a keychain.
UnspentRows(v, a, isChange) == Value({c \in Held(v, a) : coins[c].change = isChange})

\* Coin selection: coins that suffice, one of which is needed (BDK's branch and
\* bound or single random draw; LWK's own).  A drain takes everything.
Selections(pool, amount) ==
  {S \in SUBSET pool : /\ Value(S) >= amount
                       /\ \E c \in S : Value(S \ {c}) < amount}
Drains(pool) == {pool} \ {{}}

\* An issued asset is sent along with L-BTC for the fee.
AssetSelections(v, amount) ==
  {S \cup {c} : S \in Selections(Held(v, "issued"), amount), c \in Held(v, "L-BTC")}

\* Mutant: the sweep drains L-BTC only.
DrainedPset(v) == IF Held(v, "L-BTC") = {} THEN {} ELSE {Held(v, "L-BTC")}

\* build_migration_pset: every issued asset in full and the L-BTC, which pays.
MigrationPset(v) ==
  IF Held(v, "L-BTC") = {} THEN {} ELSE {Held(v, "L-BTC") \cup Held(v, "issued")}

-----------------------------------------------------------------------------
(* The chains *)

\* Someone pays an external address of a version.
Deposited(v, a) == Append(coins, NewCoin(v, a, FALSE, DepositValue))
Confirmed(c)    == [coins EXCEPT ![c].confirmed = TRUE]

\* A transaction that spends these coins of v, for each asset pays so much to
\* an address of version `to` (0: of someone else) and keeps the rest.
Output(v, a, isChange, value) ==
  IF v # 0 /\ value > 0 THEN <<NewCoin(v, a, isChange, value)>> ELSE <<>>
Outputs(v, inputs, to, pays) ==
  LET paid(a) == Output(to, a, FALSE, pays[a])
      kept(a) == Output(v, a, TRUE, Value({c \in inputs : coins[c].asset = a}) - pays[a])
  IN  paid("BTC") \o paid("L-BTC") \o paid("issued")
        \o kept("BTC") \o kept("L-BTC") \o kept("issued")
Spending(inputs, outputs) ==
  [c \in DOMAIN coins |-> IF c \in inputs THEN [coins[c] EXCEPT !.spent = TRUE]
                          ELSE coins[c]] \o outputs
=============================================================================
