------------------------------- MODULE Ledger -------------------------------
(***************************************************************************)
(* The chain under the instructions of several wallets.  A wallet sends    *)
(* the instruction its client builds, or one in which an account is another*)
(* account of the same kind or is passed without its signer and writable   *)
(* flags: the cases that the unit tests of the account structs go through  *)
(* one at a time.  There are two markets over the same two mints, one the  *)
(* other way round, so that only the checks tell their accounts apart.     *)
(***************************************************************************)
EXTENDS TxBuilder, FiniteSets, Functions

CONSTANTS Scenarios,    \* what wallets do, and from which accounts; see Scenario
          MaxSupplied   \* bound: what a supply position may grow to

VARIABLES scenario,     \* the one this behaviour is of
          ledger,
          by            \* who signed the last transaction: {w}, or {} at first

vars == <<scenario, ledger, by>>

\* A scenario is the accounts that exist at first, the wallets that send
\* transactions, the operations they send, the amounts they ask for, the
\* liquidators that curators whitelist, the pairs of mints of the markets they
\* create and the protocol fee shares that the admin asks for.
Scenario == {"ledger", "wallets", "operations", "atoms", "candidates", "markets", "shares"}

ASSUME LedgerAssumption ==
    /\ \A s \in Scenarios : DOMAIN s = Scenario /\ s.wallets \subseteq Wallets
    /\ MaxSupplied \in Nat

-----------------------------------------------------------------------------
(***************************************************************************)
(* The transactions.                                                       *)
(***************************************************************************)
NoUpdate == [accept_nomination |-> FALSE, share |-> {}, fee_receiver |-> {},
             nominated_admin |-> {}]

\* The operations of a wallet on a position of its own, or on the market.
UserRequests(L, w, k) ==
  LET Atoms == scenario.atoms IN
    [supply |-> {supply(L, w, k, n) : n \in Atoms},
     withdraw_supply |-> {withdraw_supply(L, w, k, n, all) : n \in Atoms, all \in BOOLEAN},
     deposit_collateral |-> {deposit_collateral(L, w, k, n) : n \in Atoms},
     withdraw_collateral |->
        {withdraw_collateral(L, w, k, n, all) : n \in Atoms, all \in BOOLEAN},
     borrow |-> {borrow(L, w, k, n) : n \in Atoms},
     repay |-> {repay(L, w, k, n, all) : n \in Atoms, all \in BOOLEAN},
     borrow_deposit |->
        {borrow_deposit(L, w, k, [borrow |-> n, deposit |-> m]) :
            n \in Atoms \cup {0}, m \in Atoms},
     withdraw_repay |->
        {withdraw_repay(L, w, k, [repay |-> n, repay_all |-> all,
                                  withdraw |-> m, withdraw_all |-> all]) :
            n \in Atoms \cup {0}, m \in Atoms, all \in BOOLEAN},
     donate_supply |-> {donate_supply(L, w, k, n) : n \in Atoms}]

\* The operations of a wallet on any borrow position of the market.
KeeperRequests(L, w, k) ==
    LET positions == {p \in DOMAIN L.borrow_positions : L.borrow_positions[p].market = k}
    IN  [liquidate |-> {liquidate(L, w, k, p, NoCap, 0) : p \in positions},
         begin_capital_sweep |-> {begin_capital_sweep(L, w, k, p) : p \in positions},
         settle_capital_sweep |->
            {settle_capital_sweep(L, w, k, p, NoCap, NoCap) : p \in positions},
         socialize_loss |-> {socialize_loss(L, w, k, p) : p \in positions}]

CuratorRequests(L, w, k) ==
    [redeem_curator_fees |-> {redeem_curator_fees(L, w, k)},
     redeem_protocol_fees |-> {redeem_protocol_fees(L, w, k)},
     update_config |-> {update_config(L, w, k)},
     add_whitelisted_liquidator |-> {add_whitelisted_liquidator(w, k, l) : l \in scenario.candidates},
     remove_whitelisted_liquidator |->
        {remove_whitelisted_liquidator(w, k, l) : l \in scenario.candidates}]

\* The operations on the protocol's configuration, and new markets.
ProtocolRequests(w) ==
    [create_market |-> {create_market(w, mints[1], mints[2], 1) : mints \in scenario.markets},
     create_global_config |->
        {create_global_config(w, [admin |-> w, fee_receiver |-> w, share |-> n]) : n \in scenario.shares},
     update_global_config |->
        {update_global_config(w, u) :
            u \in {[NoUpdate EXCEPT !.accept_nomination = TRUE]}
                  \cup {[NoUpdate EXCEPT !.share = {n}] : n \in scenario.shares}
                  \cup {[NoUpdate EXCEPT !.fee_receiver = {x}] : x \in scenario.wallets}
                  \cup {[NoUpdate EXCEPT !.nominated_admin = {x}] : x \in scenario.wallets}}]

\* The requests among the operations of the scenario.
Chosen(requests) == UNION {requests[o] : o \in DOMAIN requests \cap scenario.operations}

-----------------------------------------------------------------------------
(***************************************************************************)
(* The accounts of a transaction may differ from the client's.             *)
(***************************************************************************)
Keys(L) ==
    scenario.wallets \cup Mints \cup UNION {DOMAIN L[t] : t \in DOMAIN L}
            \cup {Oracle(m) : m \in Mints}

Kind(key) ==
    IF key \in Wallets THEN "wallet" ELSE IF key \in Mints THEN "mint" ELSE key[1]

\* Other accounts of the kind of a, and a without its flags.
Variants(keys, a) ==
    LET alike == {k \in keys : Kind(k) = Kind(a.key)}
    IN  ({[a EXCEPT !.key = k] : k \in alike}
            \cup {readonly(k) : k \in IF a.signer THEN alike ELSE {a.key}}) \ {a}

-----------------------------------------------------------------------------
Init == scenario \in Scenarios /\ ledger = scenario.ledger /\ by = {}

\* A transaction that fails changes nothing and is not a step.
Send(w, ixs) ==
    /\ ledger' \in ExecuteTx(ledger, w, ixs)
    /\ \A p \in DOMAIN ledger'.supply_positions :
          ledger'.supply_positions[p].amount <= MaxSupplied
    /\ by' = {w}
    /\ UNCHANGED scenario

\* One of the requests is sent, or it is with one account of its last instruction
\* changed.
Submit(w, requests) ==
    LET keys == Keys(ledger)
    IN  \E ixs \in Chosen(requests) :
          LET n == Len(ixs)
          IN  \/ Send(w, ixs)
              \/ \E j \in DOMAIN ixs[n].accounts : \E v \in Variants(keys, ixs[n].accounts[j]) :
                    Send(w, [ixs EXCEPT ![n].accounts[j] = v])

UserTx(w, k) == Submit(w, UserRequests(ledger, w, k))

KeeperTx(w, k) == Submit(w, KeeperRequests(ledger, w, k))

CuratorTx(w, k) == Submit(w, CuratorRequests(ledger, w, k))

ProtocolTx(w) == Submit(w, ProtocolRequests(w))

Next ==
    \E w \in scenario.wallets :
        \/ \E k \in DOMAIN ledger.markets : UserTx(w, k) \/ KeeperTx(w, k) \/ CuratorTx(w, k)
        \/ ProtocolTx(w)

Spec == Init /\ [][Next]_vars

-----------------------------------------------------------------------------
(***************************************************************************)
(* Properties.                                                             *)
(***************************************************************************)
SumOver(S, Of(_)) == FoldFunction(LAMBDA x, y : x + y, 0, [s \in S |-> Of(s)])

PositionsOf(market) ==
    {p \in DOMAIN ledger.borrow_positions : ledger.borrow_positions[p].market = market}

\* Whatever accounts the transactions name, the tokens in every vault cover what
\* the books say is in it: the liquidity of the market whose supply vault it is
\* and the collateral of the market whose collateral vault it is.  This is what
\* the vault and mint checks of every validate() are for.
VaultsCoverBooks ==
    \A t \in DOMAIN ledger.tokens :
        ledger.tokens[t] >=
            SumOver({k \in DOMAIN ledger.markets : ledger.markets[k].supply_vault = t},
                    LAMBDA k : ledger.markets[k].liquidity)
          + SumOver({k \in DOMAIN ledger.markets : ledger.markets[k].collateral_vault = t},
                    LAMBDA k : ledger.markets[k].collateral)

\* The collateral and the debt of a market are those of its positions: no
\* transaction pairs a market with the position of another one.  This is what
\* the InvalidMarket checks are for.
BooksMatchPositions ==
    \A k \in DOMAIN ledger.markets :
        /\ ledger.markets[k].collateral =
              SumOver(PositionsOf(k), LAMBDA p : ledger.borrow_positions[p].collateral)
        /\ ledger.markets[k].debt =
              SumOver(PositionsOf(k), LAMBDA p : ledger.borrow_positions[p].debt)

\* The market's counter of active whitelist entries, which alone decides whether
\* anyone may liquidate, is the number of its active entries.
WhitelistCountMatches ==
    \A k \in DOMAIN ledger.markets :
        ledger.markets[k].active =
            Cardinality({e \in DOMAIN ledger.entries :
                            ledger.entries[e].market = k /\ ledger.entries[e].active})

\* A liquidator that market k admits.
MayLiquidate(w, k) ==
    \/ ledger.markets[k].active = 0
    \/ \E e \in DOMAIN ledger.entries :
          ledger.entries[e] = [market |-> k, liquidator |-> w, active |-> TRUE]

MayTakeCollateral(w, p) ==
    LET position == ledger.borrow_positions[p]
    IN  \/ w \in {position.authority, ledger.markets[position.market].curator}
        \/ MayLiquidate(w, position.market)

\* Whatever accounts a transaction of w names: only the supplier's signature
\* lowers a supply position; only the borrower's raises a debt; the collateral of
\* a position is lowered by its borrower, by the curator, or by a liquidator the
\* market admits; only their owner's signature takes tokens from a wallet; the
\* whitelist is changed by the curator; the admin is replaced only by the wallet
\* the admin nominated, with its own signature.
OnlyTheEntitled ==
    [][\A w \in by' :
         /\ \A p \in DOMAIN ledger.supply_positions :
                ledger'.supply_positions[p].amount < ledger.supply_positions[p].amount
                    => w = ledger.supply_positions[p].authority
         /\ \A p \in DOMAIN ledger.borrow_positions :
                LET old == ledger.borrow_positions[p]
                    new == ledger'.borrow_positions[p]
                IN  /\ new.debt > old.debt => w = old.authority
                    /\ new.collateral < old.collateral => MayTakeCollateral(w, p)
         /\ \A t \in DOMAIN ledger.tokens :
                ledger'.tokens[t] < ledger.tokens[t] /\ TokenOwner(t) \in Wallets
                    => w = TokenOwner(t)
         /\ \A k \in DOMAIN ledger.markets :
                ledger'.markets[k].active # ledger.markets[k].active
                    => w = ledger.markets[k].curator
         /\ \A g \in DOMAIN ledger.global :
                /\ ledger'.global[g].admin # ledger.global[g].admin =>
                       ledger.global[g].nominated_admin = {w} /\ ledger'.global[g].admin = w
                /\ ledger'.global[g] # ledger.global[g] => ledger'.global[g].admin = w]_vars

\* A transaction that the client builds from an up-to-date view is accepted,
\* whichever of the wallet's accounts exist already: the builder creates the ones
\* it needs, orders the accounts and sets their flags as the handler of each
\* instruction expects, and gives a whitelisted liquidator's entry when the market
\* asks for it.  (The amounts are 0, so that nothing but the accounts matters;
\* borrow_deposit takes the collateral from a token account the wallet has.)
ClientTxAccepted ==
    \A w \in scenario.wallets, k \in DOMAIN ledger.markets :
        LET L == ledger
            m == L.markets[k]
            own == find_borrow_position_pda(k, w)
            Accepted(ixs) == ExecuteTx(L, w, ixs) # {}
            Has(table, p) == p \in DOMAIN table
            Unlocked == Has(L.borrow_positions, own) => L.borrow_positions[own].swept = 0
            Solvent == Has(L.borrow_positions, own) =>
                          L.borrow_positions[own].debt <= L.borrow_positions[own].collateral
        IN  /\ Accepted(supply(L, w, k, 0))
            /\ Accepted(donate_supply(L, w, k, 0))
            /\ Has(L.supply_positions, find_supply_position_pda(k, w)) =>
                  Accepted(withdraw_supply(L, w, k, 0, FALSE))
            /\ Unlocked => Accepted(deposit_collateral(L, w, k, 0))
            /\ Unlocked /\ Solvent /\ Has(L.tokens, ata(w, m.collateral_mint)) =>
                  Accepted(borrow_deposit(L, w, k, [borrow |-> 0, deposit |-> 0]))
            /\ Unlocked /\ Solvent /\ Has(L.borrow_positions, own) =>
                  /\ Accepted(borrow(L, w, k, 0))
                  /\ Accepted(repay(L, w, k, 0, FALSE))
                  /\ Accepted(withdraw_collateral(L, w, k, 0, FALSE))
                  /\ Accepted(withdraw_repay(L, w, k,
                        [repay |-> 0, repay_all |-> FALSE, withdraw |-> 0,
                         withdraw_all |-> FALSE]))
            /\ w = m.curator => /\ Accepted(redeem_curator_fees(L, w, k))
                                /\ Accepted(update_config(L, w, k))
            /\ \A g \in DOMAIN L.global :
                  can_redeem_fees(L.global[g], w) => Accepted(redeem_protocol_fees(L, w, k))
            /\ \A p \in {x \in PositionsOf(k) : L.borrow_positions[x].debt > 0} :
                  LET swept == L.borrow_positions[p].swept > 0
                  IN  /\ ~swept /\ MayLiquidate(w, k) =>
                            Accepted(liquidate(L, w, k, p, NoCap, 0))
                      /\ ~swept /\ w = m.curator => Accepted(socialize_loss(L, w, k, p))
                      /\ ~swept /\ w = m.curator /\ L.borrow_positions[p].collateral > 0 =>
                            Accepted(begin_capital_sweep(L, w, k, p))
                      /\ swept /\ w = m.curator =>
                            Accepted(settle_capital_sweep(L, w, k, p, NoCap, NoCap))

\* Every account that a market or a position names exists, and sits at the
\* address derived from its contents.
TypeOK ==
    /\ by \in SUBSET Wallets
    /\ DOMAIN ledger.global \subseteq {find_global_config_pda}
    /\ \A k \in DOMAIN ledger.markets :
          LET m == ledger.markets[k]
          IN  /\ m.supply_vault = get_associated_token_address(k, m.supply_mint)
              /\ m.collateral_vault = get_associated_token_address(k, m.collateral_mint)
              /\ {m.supply_vault, m.collateral_vault} \subseteq DOMAIN ledger.tokens
              /\ {m.active, m.liquidity, m.collateral, m.debt} \subseteq Nat
    /\ \A p \in DOMAIN ledger.supply_positions :
          LET s == ledger.supply_positions[p]
          IN  p = find_supply_position_pda(s.market, s.authority) /\ s.amount \in Nat
    /\ \A p \in DOMAIN ledger.borrow_positions :
          LET b == ledger.borrow_positions[p]
          IN  /\ p = find_borrow_position_pda(b.market, b.authority)
              /\ {b.collateral, b.debt, b.swept} \subseteq Nat
    /\ \A e \in DOMAIN ledger.entries :
          e = find_liquidator_whitelist_entry_pda(ledger.entries[e].market,
                                                  ledger.entries[e].liquidator)
    /\ \A t \in DOMAIN ledger.tokens : ledger.tokens[t] \in Nat
=============================================================================
