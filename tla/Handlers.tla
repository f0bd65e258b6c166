------------------------------ MODULE Handlers ------------------------------
(***************************************************************************)
(* The instruction handlers of the program over the accounts of the chain: *)
(* what each writes in the program's accounts and which tokens it moves.   *)
(*                                                                         *)
(* The arithmetic of the market is abstracted away here (Market.tla has    *)
(* it): a share is worth one atom, no interest accrues, the price of both  *)
(* tokens is 1 when a borrower borrows or withdraws, and a position with   *)
(* debt may be unhealthy, or insolvent, at any other time.  An operator    *)
(* returns the set of ledgers the instruction can leave, none when it      *)
(* fails.  A callback changes nothing modelled here.                       *)
(*                                                                         *)
(*   market          [curator, supply_mint, collateral_mint, supply_vault, *)
(*                    collateral_vault, share, active, liquidity,          *)
(*                    collateral, debt]                                    *)
(*   supply position [market, authority, amount]                           *)
(*   borrow position [market, authority, collateral, debt, swept]          *)
(*   entry           [market, liquidator, active]                          *)
(*   global config   [admin, nominated_admin, fee_receiver, share]; the    *)
(*                   nominated admin is a set of at most one wallet        *)
(***************************************************************************)
EXTENDS Validation

CONSTANTS MaxShare      \* 10_000 basis points

\* Two calls in a row.
Then(outcomes, Next(_)) == UNION {Next(x) : x \in outcomes}

\* wrapper_mut loads the two feeds that the market's configuration names, given
\* as the accounts i and i + 1.
wrapper_mut(L, a, i, outcomes) ==
    IF /\ a[i].key = Oracle(L.markets[a[1].key].supply_mint)
       /\ a[i + 1].key = Oracle(L.markets[a[1].key].collateral_mint)
    THEN outcomes
    ELSE {}

\* The market signs with its seeds.
market_transfer(L, a, from, to, n) == transfer(L, from, to, as_signer(a[1]), n)

Position(L, a) == L.borrow_positions[a[2].key]

\* The ledger when the position's collateral and debt, and with them the
\* market's, become c and d.
Rebalanced(L, a, c, d) ==
    LET p == Position(L, a)
    IN  [L EXCEPT !.borrow_positions[a[2].key] = [p EXCEPT !.collateral = c, !.debt = d],
                  !.markets[a[1].key].collateral = (@ + c) - p.collateral,
                  !.markets[a[1].key].debt = (@ + d) - p.debt,
                  !.markets[a[1].key].liquidity = (@ + p.debt) - d]

\* Within the liquidity of the market and, for a borrower, within the LTV.
CanBorrow(L, a, c, d) ==
    /\ Position(L, a).swept = 0
    /\ d <= c
    /\ d <= Position(L, a).debt + L.markets[a[1].key].liquidity

-----------------------------------------------------------------------------
(***************************************************************************)
(* Suppliers.                                                              *)
(***************************************************************************)
process_supply_apl(L, a, d) ==
    wrapper_mut(L, a, 7,
        transfer([L EXCEPT !.markets[a[1].key].liquidity = @ + d.amount,
                           !.supply_positions[a[2].key].amount = @ + d.amount],
                 a[4], a[5], a[3], d.amount))

process_withdraw_supply(L, a, d) ==
    LET position == L.supply_positions[a[2].key]
        n == IF d.all THEN position.amount ELSE d.amount
    IN  wrapper_mut(L, a, 7,
            IF n <= position.amount /\ n <= L.markets[a[1].key].liquidity
            THEN market_transfer([L EXCEPT !.markets[a[1].key].liquidity = @ - n,
                                           !.supply_positions[a[2].key].amount = @ - n],
                                 a, a[5], a[4], n)
            ELSE {})

process_donate_supply(L, a, d) ==
    transfer([L EXCEPT !.markets[a[1].key].liquidity = @ + d.amount], a[3], a[4], a[2], d.amount)

process_create_supply_position(L, a, d) ==
    IF a[2].key = find_supply_position_pda(a[1].key, a[3].key)
    THEN {[L EXCEPT !.supply_positions = t] :
            t \in create_account(L.supply_positions, a[4], a[2],
                     [market |-> a[1].key, authority |-> a[3].key, amount |-> 0])}
    ELSE {}

-----------------------------------------------------------------------------
(***************************************************************************)
(* Borrowers.                                                              *)
(***************************************************************************)
process_create_borrow_position(L, a, d) ==
    IF a[2].key = find_borrow_position_pda(a[1].key, a[3].key)
    THEN {[L EXCEPT !.borrow_positions = t] :
            t \in create_account(L.borrow_positions, a[4], a[2],
                     [market |-> a[1].key, authority |-> a[3].key,
                      collateral |-> 0, debt |-> 0, swept |-> 0])}
    ELSE {}

process_deposit_apl_collateral(L, a, d) ==
    LET p == Position(L, a)
    IN  wrapper_mut(L, a, 7,
            IF p.swept = 0
            THEN transfer(Rebalanced(L, a, p.collateral + d.amount, p.debt),
                          a[4], a[5], a[3], d.amount)
            ELSE {})

process_withdraw_apl_collateral(L, a, d) ==
    LET p == Position(L, a)
        n == IF d.all THEN p.collateral ELSE d.amount
    IN  wrapper_mut(L, a, 7,
            IF n <= p.collateral /\ CanBorrow(L, a, p.collateral - n, p.debt)
            THEN market_transfer(Rebalanced(L, a, p.collateral - n, p.debt), a, a[5], a[4], n)
            ELSE {})

process_borrow_apl(L, a, d) ==
    LET p == Position(L, a)
    IN  wrapper_mut(L, a, 7,
            IF CanBorrow(L, a, p.collateral, p.debt + d.amount)
            THEN market_transfer(Rebalanced(L, a, p.collateral, p.debt + d.amount),
                                 a, a[5], a[4], d.amount)
            ELSE {})

process_repay_apl(L, a, d) ==
    LET p == Position(L, a)
        n == IF d.all THEN p.debt ELSE d.amount
    IN  wrapper_mut(L, a, 7,
            IF p.swept = 0 /\ n <= p.debt
            THEN transfer(Rebalanced(L, a, p.collateral, p.debt - n), a[4], a[5], a[3], n)
            ELSE {})

\* The borrowed tokens are paid out before the deposit is collected.
process_borrow_deposit_apl(L, a, d) ==
    LET p == Position(L, a)
        Collect(x) == transfer(x, a[6], a[7], a[3], d.deposit)
    IN  wrapper_mut(L, a, 9,
            IF CanBorrow(L, a, p.collateral + d.deposit, p.debt + d.borrow)
            THEN Then(market_transfer(Rebalanced(L, a, p.collateral + d.deposit,
                                                 p.debt + d.borrow),
                                      a, a[5], a[4], d.borrow), Collect)
            ELSE {})

\* The collateral is paid out before the repayment is collected.
process_withdraw_repay_apl(L, a, d) ==
    LET p == Position(L, a)
        r == IF d.repay_all THEN p.debt ELSE d.repay
        n == IF d.withdraw_all THEN p.collateral ELSE d.withdraw
        Collect(x) == transfer(x, a[4], a[5], a[3], r)
    IN  wrapper_mut(L, a, 9,
            IF r <= p.debt /\ n <= p.collateral /\ CanBorrow(L, a, p.collateral - n, p.debt - r)
            THEN Then(market_transfer(Rebalanced(L, a, p.collateral - n, p.debt - r),
                                      a, a[7], a[6], n), Collect)
            ELSE {})

-----------------------------------------------------------------------------
(***************************************************************************)
(* Liquidators and the curator's work on an unhealthy position.            *)
(***************************************************************************)
process_liquidate(L, a, d) ==
    LET p == Position(L, a)
        Seize(r, c) ==
            LET Collect(x) == transfer(x, a[4], a[6], a[3], r)
            IN  Then(market_transfer(Rebalanced(L, a, p.collateral - c, p.debt - r),
                                     a, a[7], a[5], c), Collect)
    IN  wrapper_mut(L, a, 9,
            IF p.swept = 0 /\ p.debt > 0
            THEN UNION {Seize(r, c) : r \in {r \in 0..p.debt : r <= d.max_repay},
                                      c \in {c \in 0..p.collateral : c >= d.min_receive}}
            ELSE {})

process_begin_capital_sweep(L, a, d) ==
    LET p == Position(L, a)
    IN  wrapper_mut(L, a, 7,
            IF p.swept = 0 /\ p.debt > 0 /\ p.collateral > 0
            THEN market_transfer(
                    [Rebalanced(L, a, 0, p.debt) EXCEPT
                        !.borrow_positions[a[2].key].swept = p.collateral],
                    a, a[5], a[4], p.collateral)
            ELSE {})

\* The curator repays and returns the rest of the collateral.
process_settle_capital_sweep(L, a, d) ==
    LET p == Position(L, a)
        Settle(r, c) ==
            LET Return(x) == transfer(x, a[5], a[7], a[3], c)
            IN  Then(transfer([Rebalanced(L, a, c, p.debt - r) EXCEPT
                                  !.borrow_positions[a[2].key].swept = 0],
                              a[4], a[6], a[3], r), Return)
    IN  wrapper_mut(L, a, 9,
            UNION {Settle(r, c) : r \in {r \in 0..p.debt : p.swept > 0 /\ r <= d.max_repay},
                                  c \in {c \in 0..p.swept : c <= d.max_return}})

\* The debt leaves the books of the market with the claim on it; its suppliers
\* bear the loss.
process_socialize_loss(L, a, d) ==
    LET p == Position(L, a)
        m == a[1].key
    IN  wrapper_mut(L, a, 7,
            IF p.swept = 0 /\ p.debt > 0
            THEN market_transfer(
                    [Rebalanced(L, a, 0, 0) EXCEPT !.markets[m].liquidity = @ - p.debt],
                    a, a[5], a[4], p.collateral)
            ELSE {})

-----------------------------------------------------------------------------
(***************************************************************************)
(* The curator.                                                            *)
(***************************************************************************)
NewMarket(L, a) ==
    [curator |-> a[1].key, supply_mint |-> a[5].key, collateral_mint |-> a[7].key,
     supply_vault |-> a[6].key, collateral_vault |-> a[8].key,
     share |-> L.global[a[3].key].share, active |-> 0,
     liquidity |-> 0, collateral |-> 0, debt |-> 0]

\* A vault that exists already is kept.
process_create_market(L, a, d) ==
    LET Collateral(x) == create_ata(x, a[8].key)
    IN  IF a[4].key = find_market_pda(a[1].key, a[5].key, a[7].key, d.index)
        THEN Then(Then({[L EXCEPT !.markets = t] :
                            t \in create_account(L.markets, a[2], a[4], NewMarket(L, a))},
                       LAMBDA x : create_ata(x, a[6].key)), Collateral)
        ELSE {}

\* What any UpdateConfig does, whatever it changes: the protocol's share is
\* taken over from the global configuration.
process_update_config(L, a, d) ==
    wrapper_mut(L, a, 4, {[L EXCEPT !.markets[a[1].key].share = L.global[a[2].key].share]})

\* The fees are part of the liquidity.
process_redeem_curator_fees(L, a, d) ==
    UNION {transfer([L EXCEPT !.markets[a[2].key].liquidity = @ - n],
                    a[4], a[3], as_signer(a[2]), n) :
           n \in 0..L.markets[a[2].key].liquidity}

increment_active_whitelisted_liquidators(market) == [market EXCEPT !.active = @ + 1]

decrement_active_whitelisted_liquidators(market) ==
    IF market.active = 0 THEN {} ELSE {[market EXCEPT !.active = @ - 1]}

\* Mutant: an entry that is active already is counted once more.
process_add_whitelisted_liquidator_Twice(L, a, d) ==
    {[L EXCEPT !.entries = Extended(@, a[3].key, [market |-> a[1].key,
                               liquidator |-> d.liquidator, active |-> TRUE]),
               !.markets[a[1].key] = increment_active_whitelisted_liquidators(@)]}

\* A new entry is created active, an inactive one is activated, an active one
\* is an error.
process_add_whitelisted_liquidator(L, a, d) ==
    LET key == a[3].key
        entry == [market |-> a[1].key, liquidator |-> d.liquidator, active |-> TRUE]
        entries == IF key \notin DOMAIN L.entries
                   THEN create_account(L.entries, a[2], a[3], entry)
                   ELSE IF L.entries[key].active \/ ~a[3].writable
                        THEN {}
                        ELSE {[L.entries EXCEPT ![key].active = TRUE]}
    IN  {[L EXCEPT !.entries = e,
                   !.markets[a[1].key] = increment_active_whitelisted_liquidators(@)] :
            e \in entries}

process_remove_whitelisted_liquidator(L, a, d) ==
    {[L EXCEPT !.entries[a[3].key].active = FALSE, !.markets[a[1].key] = m] :
        m \in IF L.entries[a[3].key].active
              THEN decrement_active_whitelisted_liquidators(L.markets[a[1].key])
              ELSE {}}

-----------------------------------------------------------------------------
(***************************************************************************)
(* The admin of the protocol.                                              *)
(***************************************************************************)
process_create_global_config(L, a, d) ==
    IF a[2].key = find_global_config_pda
    THEN {[L EXCEPT !.global = t] :
            t \in create_account(L.global, a[1], a[2],
                     [admin |-> d.admin, nominated_admin |-> {},
                      fee_receiver |-> d.fee_receiver, share |-> d.share])}
    ELSE {}

upgrade_nomination(g) ==
    {[g EXCEPT !.admin = n, !.nominated_admin = {}] : n \in g.nominated_admin}

\* The three optional fields of the data are sets of at most one value.
ApplyUpdate(g, d) ==
    IF \E s \in d.share : s > MaxShare
    THEN {}
    ELSE {[g EXCEPT !.share = IF d.share = {} THEN @ ELSE CHOOSE x \in d.share : TRUE,
                    !.fee_receiver = IF d.fee_receiver = {} THEN @
                                     ELSE CHOOSE x \in d.fee_receiver : TRUE,
                    !.nominated_admin = IF d.nominated_admin = {} THEN @
                                        ELSE d.nominated_admin]}

\* The nomination is accepted first, and then the signer must be the admin.
process_update_global_config(L, a, d) ==
    LET g == L.global[a[2].key]
        accepted == IF ~d.accept_nomination THEN {g}
                    ELSE IF can_upgrade_nomination(g, a[1].key) THEN upgrade_nomination(g)
                    ELSE {}
    IN  {[L EXCEPT !.global[a[2].key] = u] :
            u \in UNION {ApplyUpdate(x, d) :
                         x \in {x \in accepted : can_update_config(x, a[1].key)}}}

process_redeem_protocol_fees(L, a, d) ==
    UNION {transfer([L EXCEPT !.markets[a[3].key].liquidity = @ - n],
                    a[5], a[4], as_signer(a[3]), n) :
           n \in 0..L.markets[a[3].key].liquidity}

-----------------------------------------------------------------------------
\* A handler runs if its accounts are accepted.
Run(accepted, outcomes) == IF accepted THEN outcomes ELSE {}

\* The instructions that do two things at once, and those on other people's
\* positions.
ExecuteLater(L, ix) ==
    LET a == ix.accounts
        d == ix.data
    IN  CASE ix.op = "BorrowDepositApl" ->
                Run(BorrowDepositAplAccounts(L, a), process_borrow_deposit_apl(L, a, d))
          [] ix.op = "WithdrawRepayApl" ->
                Run(WithdrawRepayAplAccounts(L, a), process_withdraw_repay_apl(L, a, d))
          [] ix.op = "SocializeLoss" ->
                Run(SocializeLossAccounts(L, a), process_socialize_loss(L, a, d))
          [] ix.op = "DonateSupply" ->
                Run(DonateSupplyAccounts(L, a), process_donate_supply(L, a, d))
          [] ix.op = "BeginCapitalSweep" ->
                Run(BeginCapitalSweepAccounts(L, a), process_begin_capital_sweep(L, a, d))
          [] ix.op = "SettleCapitalSweep" ->
                Run(SettleCapitalSweepAccounts(L, a), process_settle_capital_sweep(L, a, d))
          [] ix.op = "AddWhitelistedLiquidator" ->
                Run(AddWhitelistedLiquidatorAccounts(L, a, d),
                    process_add_whitelisted_liquidator(L, a, d))
          [] ix.op = "RemoveWhitelistedLiquidator" ->
                Run(RemoveWhitelistedLiquidatorAccounts(L, a, d),
                    process_remove_whitelisted_liquidator(L, a, d))

\* autara_process_instruction: the handler of the instruction, if it accepts
\* the accounts.  CreateAta is the instruction of the token account library.
Execute(L, ix) ==
    LET a == ix.accounts
        d == ix.data
    IN  CASE ix.op = "CreateAta" ->
                Run(Signer(a[1]), create_ata(L, a[2].key))
          [] ix.op = "CreateMarket" ->
                Run(CreateMarketAccounts(L, a), process_create_market(L, a, d))
          [] ix.op = "CreateSupplyPosition" ->
                Run(CreateSupplyPositionAccounts(L, a), process_create_supply_position(L, a, d))
          [] ix.op = "SupplyApl" ->
                Run(SupplyAplAccounts(L, a), process_supply_apl(L, a, d))
          [] ix.op = "WithdrawSupply" ->
                Run(WithdrawSupplyAccounts(L, a), process_withdraw_supply(L, a, d))
          [] ix.op = "CreateBorrowPosition" ->
                Run(CreateBorrowPositionAccounts(L, a), process_create_borrow_position(L, a, d))
          [] ix.op = "BorrowApl" ->
                Run(BorrowAplAccounts(L, a), process_borrow_apl(L, a, d))
          [] ix.op = "DepositAplCollateral" ->
                Run(DepositAplCollateralAccounts(L, a), process_deposit_apl_collateral(L, a, d))
          [] ix.op = "RepayApl" ->
                Run(RepayAplAccounts(L, a), process_repay_apl(L, a, d))
          [] ix.op = "UpdateConfig" ->
                Run(UpdateConfigAccounts(L, a), process_update_config(L, a, d))
          [] ix.op = "WithdrawAplCollateral" ->
                Run(WithdrawAplCollateralAccounts(L, a), process_withdraw_apl_collateral(L, a, d))
          [] ix.op = "Liquidate" ->
                Run(LiquidateAccounts(L, a), process_liquidate(L, a, d))
          [] ix.op = "CreateGlobalConfig" ->
                Run(CreateGlobalConfigAccounts(L, a), process_create_global_config(L, a, d))
          [] ix.op = "ReedeemCuratorFees" ->
                Run(RedeemCuratorFeesAccounts(L, a), process_redeem_curator_fees(L, a, d))
          [] ix.op = "ReedeemProtocolFees" ->
                Run(RedeemProtocolFeesAccounts(L, a), process_redeem_protocol_fees(L, a, d))
          [] ix.op = "UpdateGlobalConfig" ->
                Run(UpdateGlobalConfigAccounts(L, a), process_update_global_config(L, a, d))
          [] OTHER -> ExecuteLater(L, ix)

\* A transaction is signed by one wallet and takes effect whole or not at all.
ExecuteTx(L, by, ixs) ==
    LET Signed(ix) == \A i \in DOMAIN ix.accounts : ix.accounts[i].signer => ix.accounts[i].key = by
        After[i \in 0..Len(ixs)] ==
            IF i = 0 THEN {L} ELSE UNION {Execute(x, ixs[i]) : x \in After[i - 1]}
    IN  IF \A i \in DOMAIN ixs : Signed(ixs[i]) THEN After[Len(ixs)] ELSE {}
=============================================================================
