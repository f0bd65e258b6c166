-------------------------- MODULE LiquidationSteps --------------------------
(***************************************************************************)
(* One borrow position of any size, liquidated in any number of steps by   *)
(* liquidators with any budget, at fixed prices: Market's liquidate, seen  *)
(* from the position.  It starts from a position that a price move has     *)
(* left in any state of health.                                            *)
(***************************************************************************)
EXTENDS Market, OracleAccount

CONSTANTS Debts, Collaterals,    \* atoms the position may owe and hold at the start
          SharePricesOfDebt,     \* borrow share prices
          SupplyFeeds,           \* [provider, account] of the supply oracle
          CollateralFeeds,       \* and of the collateral oracle
          Budgets,               \* max_borrowed_atoms_to_repay of a liquidator
          DustAtoms,             \* debts this small may be stuck by rounding
          LtvConfigs             \* [max_ltv, unhealthy_ltv, bonus]

ASSUME LiquidationStepsAssumption ==
    /\ Debts \subseteq Nat /\ Collaterals \subseteq Nat /\ Budgets \subseteq Nat
    /\ DustAtoms \in Nat

VARIABLES market, position, quotes, ltv_config

vars == <<market, position, quotes, ltv_config>>

Debt(debt, price) ==
    [total_shares |-> (debt * UOne * UOne) \div price, atoms_per_share |-> price]

\* The rates of the feeds that pass, with the age and the confidence unlimited.
Rates(feeds) ==
    UNION {load_oracle_price(f.provider, f.account, FALSE) :
             f \in {g \in feeds : oracle_config_valid(g.provider)}}

Init ==
    \E debt \in Debts, price \in SharePricesOfDebt, collateral \in Collaterals :
        /\ market = [vault |-> [NewVault(0) EXCEPT !.borrow = Debt(debt, price)],
                     collateral |-> collateral]
        /\ position = [shares |-> market.vault.borrow.total_shares, initial |-> debt,
                       collateral |-> collateral, swept |-> 0]
        /\ quotes \in [supply : Rates(SupplyFeeds), collateral : Rates(CollateralFeeds)]
        /\ ltv_config \in LtvConfigs

Liquidate(max_repay) ==
    /\ position.shares > 0
    /\ \E r \in liquidate(market, position, ltv_config, quotes, max_repay) :
         /\ market' = r.m
         /\ position' = r.pos
         /\ UNCHANGED <<quotes, ltv_config>>

Next == \E max_repay \in Budgets : Liquidate(max_repay)

Spec == Init /\ [][Next]_vars

-----------------------------------------------------------------------------
Health == borrow_position_health(market, position, quotes)

\* What a liquidator pays and receives, at the prices the market uses.
RepaidValue ==
    borrow_value(quotes.supply,
                 ((market.vault.borrow.total_shares - market'.vault.borrow.total_shares)
                     * market.vault.borrow.atoms_per_share) \div (UOne * UOne) + 1,
                 SupplyUnit)

SeizedAtoms == position.collateral - position'.collateral

\* A liquidator of a solvent position receives collateral worth at most what
\* they repaid and the bonus on it, up to one atom of debt (CURATOR.md:51
\* "They receive collateral worth repaid_debt * (1 + liquidation_bonus)").
LiquidatorGainBounded ==
    [][\A h \in Health : h.ltv < IOne =>
         collateral_value(quotes.collateral, SeizedAtoms, CollateralUnit) * IOne
           <= RepaidValue * (IOne + ltv_config.bonus)]_vars

\* An unhealthy position above dust never gets stuck: some budget liquidates
\* it, for whatever rounding of shares to atoms the LTV comparison at the end
\* of liquidate sees.
UnhealthyIsLiquidatable ==
    \A h \in Health :
        (h.ltv >= ltv_config.unhealthy_ltv /\ h.borrowed > DustAtoms) =>
            \E max_repay \in 1..h.borrowed :
                \E r \in liquidate(market, position, ltv_config, quotes, max_repay) : r.atoms > 0

\* With the budget for all of it, one liquidation of a solvent position leaves
\* it healthy, or owing one atom.
OneLiquidationHeals ==
    \A h \in Health :
        (h.ltv >= ltv_config.unhealthy_ltv /\ h.ltv < IOne) =>
            \A r \in liquidate(market, position, ltv_config, quotes, h.borrowed) :
                \E g \in borrow_position_health(r.m, r.pos, quotes) :
                    g.ltv < ltv_config.unhealthy_ltv \/ g.borrowed <= 1
=============================================================================
