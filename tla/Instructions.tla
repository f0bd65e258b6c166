---------------------------- MODULE Instructions ----------------------------
(***************************************************************************)
(* The instruction builders of autara-lib: the accounts of every           *)
(* instruction, in the order its handler reads them, with the flags the    *)
(* client puts on them.  A callback's own accounts are left out.           *)
(***************************************************************************)
EXTENDS Accounts

\* m is a market record: its mints, its vaults, and through them its oracles.
Oracles(m) == <<readonly(Oracle(m.supply_mint)), readonly(Oracle(m.collateral_mint))>>

Trailer == <<readonly(Autara)>>

\* An instruction on a position that moves tokens between one token account
\* of its signer and one vault of the market.
OneVault(op, market, m, position, signer, ata, vault, data) ==
    [op |-> op, data |-> data,
     accounts |-> <<writable(market), writable(position), readonly_signer(signer),
                    writable(ata), writable(vault), readonly(AplToken)>>
                  \o Oracles(m) \o Trailer]

\* The creation of a position by its authority, paid by payer.
CreatePosition(op, market, position, authority, payer) ==
    [op |-> op, data |-> <<>>,
     accounts |-> <<writable(market), writable(position), readonly_signer(authority),
                    writable_signer(payer), readonly(System)>> \o Trailer]

-----------------------------------------------------------------------------
(***************************************************************************)
(* Suppliers and borrowers.                                                *)
(***************************************************************************)
create_supply_position_ix(market, authority, payer) ==
    CreatePosition("CreateSupplyPosition", market,
                   find_supply_position_pda(market, authority), authority, payer)

create_borrow_position_ix(market, authority, payer) ==
    CreatePosition("CreateBorrowPosition", market,
                   find_borrow_position_pda(market, authority), authority, payer)

supply_apl_ix(market, m, position, authority, ata, vault, amount) ==
    OneVault("SupplyApl", market, m, position, authority, ata, vault, [amount |-> amount])

withdraw_supply_ix(market, m, position, authority, ata, vault, amount, all) ==
    OneVault("WithdrawSupply", market, m, position, authority, ata, vault,
             [amount |-> amount, all |-> all])

deposit_apl_collateral_ix(market, m, position, authority, ata, vault, amount) ==
    OneVault("DepositAplCollateral", market, m, position, authority, ata, vault,
             [amount |-> amount])

withdraw_apl_collateral_ix(market, m, position, authority, ata, vault, amount, all) ==
    OneVault("WithdrawAplCollateral", market, m, position, authority, ata, vault,
             [amount |-> amount, all |-> all])

borrow_apl_ix(market, m, position, authority, ata, vault, amount) ==
    OneVault("BorrowApl", market, m, position, authority, ata, vault, [amount |-> amount])

repay_apl_ix(market, m, position, authority, ata, vault, amount, all) ==
    OneVault("RepayApl", market, m, position, authority, ata, vault,
             [amount |-> amount, all |-> all])

\* The two instructions on both vaults, the supply side first.
BothVaults(op, market, m, position, authority, supply_ata, collateral_ata, data) ==
    [op |-> op, data |-> data,
     accounts |-> <<writable(market), writable(position), readonly_signer(authority),
                    writable(supply_ata), writable(m.supply_vault),
                    writable(collateral_ata), writable(m.collateral_vault),
                    readonly(AplToken)>> \o Oracles(m) \o Trailer]

withdraw_repay_apl_ix(market, m, position, authority, supply_ata, collateral_ata, data) ==
    BothVaults("WithdrawRepayApl", market, m, position, authority, supply_ata,
               collateral_ata, data)

borrow_deposit_apl_ix(market, m, position, authority, supply_ata, collateral_ata, data) ==
    BothVaults("BorrowDepositApl", market, m, position, authority, supply_ata,
               collateral_ata, data)

donate_supply_ix(market, authority, ata, vault, amount) ==
    [op |-> "DonateSupply", data |-> [amount |-> amount],
     accounts |-> <<writable(market), readonly_signer(authority), writable(ata),
                    writable(vault), readonly(AplToken)>> \o Trailer]

-----------------------------------------------------------------------------
(***************************************************************************)
(* Liquidators and the curator's work on a position: the signer's two      *)
(* token accounts come before the two vaults.                              *)
(***************************************************************************)
Keeper(op, market, m, position, signer, supply_ata, collateral_ata, entry, data) ==
    [op |-> op, data |-> data,
     accounts |-> <<writable(market), writable(position), readonly_signer(signer),
                    writable(supply_ata), writable(collateral_ata),
                    writable(m.supply_vault), writable(m.collateral_vault),
                    readonly(AplToken)>> \o Oracles(m) \o entry \o Trailer]

\* entry: the whitelist entry of the liquidator, or nothing.
liquidate_ix(market, m, position, liquidator, supply_ata, collateral_ata, entry, data) ==
    Keeper("Liquidate", market, m, position, liquidator, supply_ata, collateral_ata,
           entry, data)

settle_capital_sweep_ix(market, m, position, curator, supply_ata, collateral_ata, data) ==
    Keeper("SettleCapitalSweep", market, m, position, curator, supply_ata, collateral_ata,
           <<>>, data)

begin_capital_sweep_ix(market, m, position, curator, ata, vault) ==
    OneVault("BeginCapitalSweep", market, m, position, curator, ata, vault, <<>>)

socialize_loss_ix(market, m, position, curator, ata, vault) ==
    OneVault("SocializeLoss", market, m, position, curator, ata, vault, <<>>)

-----------------------------------------------------------------------------
(***************************************************************************)
(* The market's curator and the protocol's admin.                          *)
(***************************************************************************)
create_market_ix(supply_mint, collateral_mint, index, curator, payer) ==
    LET market == find_market_pda(curator, supply_mint, collateral_mint, index)
    IN  [op |-> "CreateMarket", data |-> [index |-> index],
         accounts |->
            <<readonly_signer(curator), writable_signer(payer),
              readonly(find_global_config_pda), writable(market),
              readonly(supply_mint),
              writable(get_associated_token_address(market, supply_mint)),
              readonly(collateral_mint),
              writable(get_associated_token_address(market, collateral_mint)),
              readonly(AplToken), readonly(AssociatedToken), readonly(System)>> \o Trailer]

update_config_ix(market, m, curator) ==
    [op |-> "UpdateConfig", data |-> <<>>,
     accounts |-> <<writable(market), readonly(find_global_config_pda),
                    readonly_signer(curator)>> \o Oracles(m) \o Trailer]

reedeem_curator_fees_ix(market, curator, ata, vault) ==
    [op |-> "ReedeemCuratorFees", data |-> <<>>,
     accounts |-> <<readonly_signer(curator), writable(market), writable(ata),
                    writable(vault), readonly(AplToken)>> \o Trailer]

reedeem_protocol_fees_ix(market, admin, ata, vault) ==
    [op |-> "ReedeemProtocolFees", data |-> <<>>,
     accounts |-> <<writable_signer(admin), readonly(find_global_config_pda),
                    writable(market), writable(ata), writable(vault),
                    readonly(AplToken)>> \o Trailer]

add_whitelisted_liquidator_ix(market, curator, liquidator) ==
    [op |-> "AddWhitelistedLiquidator", data |-> [liquidator |-> liquidator],
     accounts |-> <<writable(market), writable_signer(curator),
                    writable(find_liquidator_whitelist_entry_pda(market, liquidator)),
                    readonly(System)>> \o Trailer]

remove_whitelisted_liquidator_ix(market, curator, liquidator) ==
    [op |-> "RemoveWhitelistedLiquidator", data |-> [liquidator |-> liquidator],
     accounts |-> <<writable(market), readonly_signer(curator),
                    writable(find_liquidator_whitelist_entry_pda(market, liquidator))>>
                  \o Trailer]

create_global_config_ix(payer, data) ==
    [op |-> "CreateGlobalConfig", data |-> data,
     accounts |-> <<writable_signer(payer), writable(find_global_config_pda),
                    readonly(System)>> \o Trailer]

update_global_config_ix(admin, data) ==
    [op |-> "UpdateGlobalConfig", data |-> data,
     accounts |-> <<writable_signer(admin), writable(find_global_config_pda)>> \o Trailer]

\* create_ata_ix of the token library, the owner paying.
create_ata_ix(owner, mint) ==
    [op |-> "CreateAta", data |-> <<>>,
     accounts |-> <<writable_signer(owner),
                    writable(get_associated_token_address(owner, mint)),
                    readonly(owner), readonly(mint), readonly(System),
                    readonly(AplToken)>>]
=============================================================================
