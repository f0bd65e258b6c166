----------------------------- MODULE Validation -----------------------------
(***************************************************************************)
(* What each instruction checks of the accounts it is given, before it     *)
(* changes anything: from_accounts and validate of programs/autara-        *)
(* program/src/ixs.  L is the ledger, a the accounts in order.             *)
(***************************************************************************)
EXTENDS Instructions

\* global_config.rs and market_config.rs.
can_redeem_fees(g, key) == key \in {g.admin, g.fee_receiver}

can_update_config(g, key) == key = g.admin

can_upgrade_nomination(g, key) == g.nominated_admin = {key}

liquidations_are_permissionless(market) == market.active = 0

-----------------------------------------------------------------------------
\* Parts the validators share.  The market and the position are writable and
\* the third account signs.
LoadMarket(L, a) == ZeroCopyMut(L.markets, a[1])

LoadPosition(L, table, a) == LoadMarket(L, a) /\ ZeroCopyMut(table, a[2]) /\ Signer(a[3])

\* A position of this market that belongs to the signer.
OwnPosition(position, a) == position.authority = a[3].key /\ position.market = a[1].key

\* The signer's token account and the vault, on the supply side.
SupplyLeg(L, market, ata, vault) ==
    /\ TokenAccount(L, ata) /\ TokenAccount(L, vault)
    /\ vault.key = market.supply_vault
    /\ TokenMint(ata.key) = market.supply_mint

CollateralLeg(L, market, ata, vault) ==
    /\ TokenAccount(L, ata) /\ TokenAccount(L, vault)
    /\ vault.key = market.collateral_vault
    /\ TokenMint(ata.key) = market.collateral_mint

-----------------------------------------------------------------------------
(***************************************************************************)
(* The owner of a position.                                                *)
(***************************************************************************)
\* Mutant: any token account of the mint serves as the vault.
SupplyAplAccounts_AnyVault(L, a) ==
    /\ LoadPosition(L, L.supply_positions, a)
    /\ OwnPosition(L.supply_positions[a[2].key], a)
    /\ TokenAccount(L, a[4]) /\ TokenAccount(L, a[5])
    /\ IsProgram(a[6], AplToken)

SupplyAplAccounts(L, a) ==
    /\ LoadPosition(L, L.supply_positions, a)
    /\ OwnPosition(L.supply_positions[a[2].key], a)
    /\ SupplyLeg(L, L.markets[a[1].key], a[4], a[5])
    /\ IsProgram(a[6], AplToken)

WithdrawSupplyAccounts(L, a) ==
    /\ LoadPosition(L, L.supply_positions, a)
    /\ OwnPosition(L.supply_positions[a[2].key], a)
    /\ SupplyLeg(L, L.markets[a[1].key], a[4], a[5])
    /\ IsProgram(a[6], AplToken)

\* Mutant: the position may be one of another market.
DepositAplCollateralAccounts_AnyMarket(L, a) ==
    /\ LoadPosition(L, L.borrow_positions, a)
    /\ L.borrow_positions[a[2].key].authority = a[3].key
    /\ CollateralLeg(L, L.markets[a[1].key], a[4], a[5])
    /\ IsProgram(a[6], AplToken)

DepositAplCollateralAccounts(L, a) ==
    /\ LoadPosition(L, L.borrow_positions, a)
    /\ OwnPosition(L.borrow_positions[a[2].key], a)
    /\ CollateralLeg(L, L.markets[a[1].key], a[4], a[5])
    /\ IsProgram(a[6], AplToken)

WithdrawAplCollateralAccounts(L, a) ==
    /\ LoadPosition(L, L.borrow_positions, a)
    /\ OwnPosition(L.borrow_positions[a[2].key], a)
    /\ CollateralLeg(L, L.markets[a[1].key], a[4], a[5])
    /\ IsProgram(a[6], AplToken)

BorrowAplAccounts(L, a) ==
    /\ LoadPosition(L, L.borrow_positions, a)
    /\ OwnPosition(L.borrow_positions[a[2].key], a)
    /\ SupplyLeg(L, L.markets[a[1].key], a[4], a[5])
    /\ IsProgram(a[6], AplToken)

RepayAplAccounts(L, a) ==
    /\ LoadPosition(L, L.borrow_positions, a)
    /\ OwnPosition(L.borrow_positions[a[2].key], a)
    /\ SupplyLeg(L, L.markets[a[1].key], a[4], a[5])
    /\ IsProgram(a[6], AplToken)

WithdrawRepayAplAccounts(L, a) ==
    /\ LoadPosition(L, L.borrow_positions, a)
    /\ OwnPosition(L.borrow_positions[a[2].key], a)
    /\ SupplyLeg(L, L.markets[a[1].key], a[4], a[5])
    /\ CollateralLeg(L, L.markets[a[1].key], a[6], a[7])
    /\ IsProgram(a[8], AplToken)

BorrowDepositAplAccounts(L, a) ==
    /\ LoadPosition(L, L.borrow_positions, a)
    /\ OwnPosition(L.borrow_positions[a[2].key], a)
    /\ SupplyLeg(L, L.markets[a[1].key], a[4], a[5])
    /\ CollateralLeg(L, L.markets[a[1].key], a[6], a[7])
    /\ IsProgram(a[8], AplToken)

\* The address of a new position is checked by the system program, which
\* verifies the seeds the handler signs with.
CreateSupplyPositionAccounts(L, a) ==
    /\ LoadMarket(L, a)
    /\ Signer(a[3]) /\ Signer(a[4])
    /\ IsProgram(a[5], System)

CreateBorrowPositionAccounts(L, a) ==
    /\ LoadMarket(L, a)
    /\ Signer(a[3]) /\ Signer(a[4])
    /\ IsProgram(a[5], System)

DonateSupplyAccounts(L, a) ==
    /\ LoadMarket(L, a) /\ Signer(a[2])
    /\ SupplyLeg(L, L.markets[a[1].key], a[3], a[4])
    /\ IsProgram(a[5], AplToken)

-----------------------------------------------------------------------------
(***************************************************************************)
(* Liquidators.  The whitelist entry is read only when the market has      *)
(* active ones; an instruction built without it has the program's own key  *)
(* in its place.                                                           *)
(***************************************************************************)
\* Mutant: the entry may have been deactivated.
Whitelisted_Inactive(L, market, liquidator, a) ==
    /\ ZeroCopy(L.entries, a)
    /\ a.key = find_liquidator_whitelist_entry_pda(market, liquidator)

Whitelisted(L, market, liquidator, a) ==
    /\ ZeroCopy(L.entries, a)
    /\ a.key = find_liquidator_whitelist_entry_pda(market, liquidator)
    /\ LET entry == L.entries[a.key]
       IN  entry.market = market /\ entry.liquidator = liquidator /\ entry.active

LiquidateAccounts(L, a) ==
    /\ LoadPosition(L, L.borrow_positions, a)
    /\ L.borrow_positions[a[2].key].market = a[1].key
    /\ LET market == L.markets[a[1].key]
       IN  /\ SupplyLeg(L, market, a[4], a[6])
           /\ CollateralLeg(L, market, a[5], a[7])
           /\ IsProgram(a[8], AplToken)
           /\ \/ liquidations_are_permissionless(market)
              \/ Len(a) > 10 /\ Whitelisted(L, a[1].key, a[3].key, a[11])

-----------------------------------------------------------------------------
(***************************************************************************)
(* The curator of the market.                                              *)
(***************************************************************************)
\* A position of the market, and its curator signing.
CuratedPosition(L, a) ==
    /\ LoadPosition(L, L.borrow_positions, a)
    /\ L.borrow_positions[a[2].key].market = a[1].key
    /\ L.markets[a[1].key].curator = a[3].key

BeginCapitalSweepAccounts(L, a) ==
    /\ CuratedPosition(L, a)
    /\ CollateralLeg(L, L.markets[a[1].key], a[4], a[5])
    /\ IsProgram(a[6], AplToken)

SettleCapitalSweepAccounts(L, a) ==
    /\ CuratedPosition(L, a)
    /\ SupplyLeg(L, L.markets[a[1].key], a[4], a[6])
    /\ CollateralLeg(L, L.markets[a[1].key], a[5], a[7])
    /\ IsProgram(a[8], AplToken)

SocializeLossAccounts(L, a) ==
    /\ CuratedPosition(L, a)
    /\ CollateralLeg(L, L.markets[a[1].key], a[4], a[5])
    /\ IsProgram(a[6], AplToken)

CreateMarketAccounts(L, a) ==
    /\ Signer(a[1]) /\ Signer(a[2])
    /\ ZeroCopy(L.global, a[3]) /\ a[3].key = find_global_config_pda
    /\ MintAccount(a[5]) /\ MintAccount(a[7])
    /\ a[6].key = get_associated_token_address(a[4].key, a[5].key)
    /\ a[8].key = get_associated_token_address(a[4].key, a[7].key)
    /\ IsProgram(a[9], AplToken) /\ IsProgram(a[10], AssociatedToken)
    /\ IsProgram(a[11], System)

UpdateConfigAccounts(L, a) ==
    /\ LoadMarket(L, a)
    /\ ZeroCopy(L.global, a[2]) /\ a[2].key = find_global_config_pda
    /\ Signer(a[3]) /\ L.markets[a[1].key].curator = a[3].key

\* The receiver's mint is left to the token program.
RedeemCuratorFeesAccounts(L, a) ==
    /\ Signer(a[1])
    /\ ZeroCopyMut(L.markets, a[2])
    /\ TokenAccount(L, a[3]) /\ TokenAccount(L, a[4])
    /\ IsProgram(a[5], AplToken)
    /\ L.markets[a[2].key].curator = a[1].key
    /\ a[4].key = L.markets[a[2].key].supply_vault

\* The address of the entry is the one of the market and of the liquidator the
\* data names; the entry itself need not exist yet.
AddWhitelistedLiquidatorAccounts(L, a, d) ==
    /\ LoadMarket(L, a) /\ Signer(a[2]) /\ IsProgram(a[4], System)
    /\ L.markets[a[1].key].curator = a[2].key
    /\ a[3].key = find_liquidator_whitelist_entry_pda(a[1].key, d.liquidator)

RemoveWhitelistedLiquidatorAccounts(L, a, d) ==
    /\ LoadMarket(L, a) /\ Signer(a[2]) /\ ZeroCopyMut(L.entries, a[3])
    /\ L.markets[a[1].key].curator = a[2].key
    /\ a[3].key = find_liquidator_whitelist_entry_pda(a[1].key, d.liquidator)
    /\ L.entries[a[3].key].market = a[1].key
    /\ L.entries[a[3].key].liquidator = d.liquidator

-----------------------------------------------------------------------------
(***************************************************************************)
(* The admin of the protocol.                                              *)
(***************************************************************************)
CreateGlobalConfigAccounts(L, a) == Signer(a[1]) /\ IsProgram(a[3], System)

UpdateGlobalConfigAccounts(L, a) ==
    /\ Signer(a[1]) /\ ZeroCopyMut(L.global, a[2])
    /\ LET g == L.global[a[2].key]
       IN  can_update_config(g, a[1].key) \/ can_upgrade_nomination(g, a[1].key)

RedeemProtocolFeesAccounts(L, a) ==
    /\ Signer(a[1])
    /\ ZeroCopy(L.global, a[2]) /\ a[2].key = find_global_config_pda
    /\ ZeroCopyMut(L.markets, a[3])
    /\ TokenAccount(L, a[4]) /\ TokenAccount(L, a[5])
    /\ IsProgram(a[6], AplToken)
    /\ can_redeem_fees(L.global[a[2].key], a[1].key)
    /\ a[5].key = L.markets[a[3].key].supply_vault
=============================================================================
