----------------------------- MODULE TxBuilder ------------------------------
(***************************************************************************)
(* AutaraTransactionBuilder: the instructions of the transaction that the  *)
(* client builds for each operation of a wallet w, from the view it has of *)
(* the chain.  view has the tables of a ledger that the client reads, as   *)
(* they were when it last read them; k is the address of a market of the   *)
(* view (the builder fails with "market not found" for any other).         *)
(* u64::MAX, the cap that is none, is NoCap.                               *)
(***************************************************************************)
EXTENDS Handlers

CONSTANTS NoCap

ata(w, mint) == get_associated_token_address(w, mint)

ensure_ata_ix(w, mint) == create_ata_ix(w, mint)

\* Mutant: the position is never created.
CreateSupply_Never(view, w, k) == <<>>

\* The position is created when the view does not have it.
CreateSupply(view, w, k) ==
    IF find_supply_position_pda(k, w) \in DOMAIN view.supply_positions
    THEN <<>>
    ELSE <<create_supply_position_ix(k, w, w)>>

CreateBorrow(view, w, k) ==
    IF find_borrow_position_pda(k, w) \in DOMAIN view.borrow_positions
    THEN <<>>
    ELSE <<create_borrow_position_ix(k, w, w)>>

supply(view, w, k, atoms) ==
    LET m == view.markets[k]
    IN  <<ensure_ata_ix(w, m.supply_mint)>> \o CreateSupply(view, w, k) \o
        <<supply_apl_ix(k, m, find_supply_position_pda(k, w), w, ata(w, m.supply_mint),
                        m.supply_vault, atoms)>>

withdraw_supply(view, w, k, atoms, all) ==
    LET m == view.markets[k]
    IN  <<ensure_ata_ix(w, m.supply_mint),
          withdraw_supply_ix(k, m, find_supply_position_pda(k, w), w, ata(w, m.supply_mint),
                             m.supply_vault, atoms, all)>>

deposit_collateral(view, w, k, atoms) ==
    LET m == view.markets[k]
    IN  <<ensure_ata_ix(w, m.collateral_mint)>> \o CreateBorrow(view, w, k) \o
        <<deposit_apl_collateral_ix(k, m, find_borrow_position_pda(k, w), w,
                                    ata(w, m.collateral_mint), m.collateral_vault, atoms)>>

withdraw_collateral(view, w, k, atoms, all) ==
    LET m == view.markets[k]
    IN  <<ensure_ata_ix(w, m.collateral_mint),
          withdraw_apl_collateral_ix(k, m, find_borrow_position_pda(k, w), w,
                                     ata(w, m.collateral_mint), m.collateral_vault, atoms, all)>>

borrow(view, w, k, atoms) ==
    LET m == view.markets[k]
    IN  <<ensure_ata_ix(w, m.supply_mint),
          borrow_apl_ix(k, m, find_borrow_position_pda(k, w), w, ata(w, m.supply_mint),
                        m.supply_vault, atoms)>>

repay(view, w, k, atoms, all) ==
    LET m == view.markets[k]
    IN  <<ensure_ata_ix(w, m.supply_mint),
          repay_apl_ix(k, m, find_borrow_position_pda(k, w), w, ata(w, m.supply_mint),
                       m.supply_vault, atoms, all)>>

\* Only the supply side's token account is ensured: the collateral comes from
\* one the wallet must have already.
borrow_deposit(view, w, k, data) ==
    LET m == view.markets[k]
    IN  CreateBorrow(view, w, k) \o
        <<ensure_ata_ix(w, m.supply_mint),
          borrow_deposit_apl_ix(k, m, find_borrow_position_pda(k, w), w, ata(w, m.supply_mint),
                                ata(w, m.collateral_mint), data)>>

withdraw_repay(view, w, k, data) ==
    LET m == view.markets[k]
    IN  <<ensure_ata_ix(w, m.supply_mint), ensure_ata_ix(w, m.collateral_mint),
          withdraw_repay_apl_ix(k, m, find_borrow_position_pda(k, w), w, ata(w, m.supply_mint),
                                ata(w, m.collateral_mint), data)>>

donate_supply(view, w, k, atoms) ==
    LET m == view.markets[k]
    IN  <<ensure_ata_ix(w, m.supply_mint),
          donate_supply_ix(k, w, ata(w, m.supply_mint), m.supply_vault, atoms)>>

-----------------------------------------------------------------------------
\* The liquidator's whitelist entry is part of the transaction when the market
\* of the view has active ones.
liquidate(view, w, k, position, max_repay, min_receive) ==
    LET m == view.markets[k]
        entry == IF liquidations_are_permissionless(m)
                 THEN <<>>
                 ELSE <<readonly(find_liquidator_whitelist_entry_pda(k, w))>>
    IN  <<ensure_ata_ix(w, m.supply_mint), ensure_ata_ix(w, m.collateral_mint),
          liquidate_ix(k, m, position, w, ata(w, m.supply_mint), ata(w, m.collateral_mint), entry,
                       [max_repay |-> max_repay, min_receive |-> min_receive])>>

begin_capital_sweep(view, w, k, position) ==
    LET m == view.markets[k]
    IN  <<ensure_ata_ix(w, m.collateral_mint),
          begin_capital_sweep_ix(k, m, position, w, ata(w, m.collateral_mint),
                                 m.collateral_vault)>>

settle_capital_sweep(view, w, k, position, max_repay, max_return) ==
    LET m == view.markets[k]
    IN  <<ensure_ata_ix(w, m.supply_mint), ensure_ata_ix(w, m.collateral_mint),
          settle_capital_sweep_ix(k, m, position, w, ata(w, m.supply_mint),
                                  ata(w, m.collateral_mint),
                                  [max_repay |-> max_repay, max_return |-> max_return])>>

socialize_loss(view, w, k, position) ==
    LET m == view.markets[k]
    IN  <<ensure_ata_ix(w, m.collateral_mint),
          socialize_loss_ix(k, m, position, w, ata(w, m.collateral_mint), m.collateral_vault)>>

redeem_curator_fees(view, w, k) ==
    LET m == view.markets[k]
    IN  <<ensure_ata_ix(w, m.supply_mint),
          reedeem_curator_fees_ix(k, w, ata(w, m.supply_mint), m.supply_vault)>>

redeem_protocol_fees(view, w, k) ==
    LET m == view.markets[k]
    IN  <<ensure_ata_ix(w, m.supply_mint),
          reedeem_protocol_fees_ix(k, w, ata(w, m.supply_mint), m.supply_vault)>>

update_config(view, w, k) == <<update_config_ix(k, view.markets[k], w)>>

add_whitelisted_liquidator(w, k, liquidator) ==
    <<add_whitelisted_liquidator_ix(k, w, liquidator)>>

remove_whitelisted_liquidator(w, k, liquidator) ==
    <<remove_whitelisted_liquidator_ix(k, w, liquidator)>>

create_market(w, supply_mint, collateral_mint, index) ==
    <<create_market_ix(supply_mint, collateral_mint, index, w, w)>>

create_global_config(w, data) == <<create_global_config_ix(w, data)>>

update_global_config(w, data) == <<update_global_config_ix(w, data)>>
=============================================================================
