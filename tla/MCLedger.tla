------------------------------ MODULE MCLedger ------------------------------
(* Wallets, two mints, two markets with the mints the other way round. *)
EXTENDS Ledger, TLC

CONSTANTS alice, carol, dave, erin, btc, usd

MarketA == find_market_pda(alice, usd, btc, 1)

MarketC == find_market_pda(carol, btc, usd, 1)

MarketE == find_market_pda(erin, btc, usd, 1)

MarketOf(k, active) ==
    [curator |-> k[2], supply_mint |-> k[3], collateral_mint |-> k[4],
     supply_vault |-> get_associated_token_address(k, k[3]),
     collateral_vault |-> get_associated_token_address(k, k[4]),
     share |-> 0, active |-> active, liquidity |-> 0, collateral |-> 0, debt |-> 0]

MCMarkets == {MarketA, MarketC}

Two == {alice, carol}

\* Both wallets have both positions in both markets and token accounts for both
\* mints; alice has the usd and carol the btc.  The market of alice admits only
\* carol as a liquidator.
Deployed ==
    [global |-> (find_global_config_pda :>
                    [admin |-> alice, nominated_admin |-> {}, fee_receiver |-> carol,
                     share |-> 0]),
     markets |-> (MarketA :> MarketOf(MarketA, 1)) @@ (MarketC :> MarketOf(MarketC, 0)),
     supply_positions |->
        [p \in {find_supply_position_pda(k, w) : k \in MCMarkets, w \in Two} |->
            [market |-> p[2], authority |-> p[3], amount |-> 0]],
     borrow_positions |->
        [p \in {find_borrow_position_pda(k, w) : k \in MCMarkets, w \in Two} |->
            [market |-> p[2], authority |-> p[3], collateral |-> 0, debt |-> 0, swept |-> 0]],
     entries |-> (find_liquidator_whitelist_entry_pda(MarketA, carol) :>
                    [market |-> MarketA, liquidator |-> carol, active |-> TRUE]),
     tokens |->
        [t \in {get_associated_token_address(x, m) : x \in Two \cup MCMarkets, m \in Mints} |->
            IF t \in {get_associated_token_address(alice, usd),
                      get_associated_token_address(carol, btc)} THEN 1 ELSE 0]]

\* alice, the curator, supplied the usd, carol borrowed them against the btc, and
\* dave, with one more, is the liquidator.  alice has a position in the market of
\* erin, who sends no transaction.
Indebted ==
    LET supplied == find_supply_position_pda(MarketA, alice)
        borrowed == find_borrow_position_pda(MarketA, carol)
        elsewhere == find_borrow_position_pda(MarketE, alice)
        Of(k, w, n) == [market |-> k, authority |-> w, collateral |-> n, debt |-> n, swept |-> 0]
    IN  [Deployed EXCEPT
            !.markets = (MarketA :> [MarketOf(MarketA, 1) EXCEPT !.collateral = 1, !.debt = 1])
                            @@ (MarketE :> MarketOf(MarketE, 0)),
            !.supply_positions = (supplied :> [market |-> MarketA, authority |-> alice, amount |-> 1]),
            !.borrow_positions =
                (borrowed :> Of(MarketA, carol, 1)) @@ (elsewhere :> Of(MarketE, alice, 0)),
            !.entries = (find_liquidator_whitelist_entry_pda(MarketA, dave) :>
                            [market |-> MarketA, liquidator |-> dave, active |-> TRUE]),
            !.tokens =
                [t \in {get_associated_token_address(x, m) :
                            x \in Wallets \cup {MarketA, MarketE}, m \in Mints} |->
                    IF t \in {get_associated_token_address(carol, usd),
                              get_associated_token_address(dave, usd),
                              get_associated_token_address(MarketA, btc)} THEN 1 ELSE 0]]

\* No account of the program exists yet.
Nothing ==
    [global |-> <<>>, markets |-> <<>>, supply_positions |-> <<>>, borrow_positions |-> <<>>,
     entries |-> <<>>, tokens |-> <<>>]

\* The markets and none of the wallets' accounts.
Opened ==
    LET vaults == {get_associated_token_address(k, m) : k \in MCMarkets, m \in Mints}
    IN  [Deployed EXCEPT !.markets[MarketA].active = 0,
                         !.supply_positions = <<>>, !.borrow_positions = <<>>,
                         !.entries = <<>>, !.tokens = [t \in vaults |-> 0]]

OneSided ==
    {"supply", "withdraw_supply", "deposit_collateral", "withdraw_collateral", "borrow",
     "repay", "liquidate"}

TwoSided ==
    {"supply", "withdraw_supply", "borrow_deposit", "withdraw_repay", "donate_supply",
     "redeem_curator_fees", "redeem_protocol_fees"}

Keepers ==
    {"withdraw_collateral", "repay", "liquidate", "begin_capital_sweep",
     "settle_capital_sweep", "socialize_loss", "add_whitelisted_liquidator",
     "remove_whitelisted_liquidator"}

Openings == {"supply", "deposit_collateral", "borrow_deposit", "donate_supply"}

Governance ==
    {"create_global_config", "update_global_config", "create_market", "update_config"}

Base(L, operations) ==
    [ledger |-> L, wallets |-> Two, operations |-> operations, atoms |-> {1},
     candidates |-> {carol}, markets |-> {}, shares |-> {}]

MCOneSided == {Base(Deployed, OneSided)}

MCTwoSided == {Base(Deployed, TwoSided)}

MCKeepers ==
    {[Base(Indebted, Keepers) EXCEPT !.wallets = Wallets, !.candidates = {carol, dave}]}

MCOpenings == {[Base(Opened, Openings) EXCEPT !.atoms = {0}]}

MCGovernance ==
    {[Base(Nothing, Governance) EXCEPT !.markets = {<<usd, btc>>}, !.shares = {0, 1}]}

\* by is written and never read by a step: states that differ in it only go on
\* alike, and OnlyTheEntitled is checked on every step.
AccountsOnly == <<scenario, ledger>>

MCScenarios == MCOneSided \cup MCTwoSided \cup MCKeepers \cup MCOpenings \cup MCGovernance
=============================================================================
