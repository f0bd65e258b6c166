---------------------------- MODULE ProgramEffects ----------------------------
(***************************************************************************)
(* Every step of AutaraProgram makes one of a few kinds of entry: what is  *)
(* proved of a step is proved of these, and ProgramEntries shows that      *)
(* there is no other step.  An entry is made of the market m after accrual,*)
(* the outcome r of the market's method and the tokens that moved.  No     *)
(* code is modelled here.                                                  *)
(***************************************************************************)
EXTENDS AutaraProgram, MarketEffects

\* What the accrual at the head of every instruction leaves.
AccruesTo(m) ==
    /\ m \in Synced /\ m \in Markets /\ m.collateral = market.collateral
    /\ Accrued(market.vault, m.vault) /\ now <= m.vault.last_update
    /\ config.fee <= UOne =>
         market.vault.supply.atoms_per_share < m.vault.supply.atoms_per_share + LowBits

SupplierEntry(s) ==
    \E m, r :
        /\ AccruesTo(m) /\ SupplyEffect(m, supply_positions[s], r) /\ SetSupply(s, r)
        /\ supply_tokens' \in 0..SupplyMint /\ UNCHANGED <<collateral_tokens, environment>>
        /\ \/ /\ Bought(supply_positions[s], r, m.vault.supply.atoms_per_share)
              /\ supply_tokens' = supply_tokens + r.atoms
           \/ /\ Sold(supply_positions[s], r, m.vault.supply.atoms_per_share)
              /\ supply_tokens' = supply_tokens + -r.atoms

\* b's position becomes r's, and that many atoms enter the two token accounts.
Moves(b, r, atoms, d) ==
    /\ OraclesValid(config)
    /\ SetBorrow(b, r)
    /\ supply_tokens' \in 0..SupplyMint /\ supply_tokens' = supply_tokens + atoms
    /\ collateral_tokens' \in 0..CollateralMint /\ collateral_tokens' = collateral_tokens + d
    /\ UNCHANGED environment

DrawEntry(b) ==
    \E m, r : \E a, d \in Nat :
        /\ AccruesTo(m) /\ Draws(m, borrow_positions[b], r, a, d, config, oracle)
        /\ Moves(b, r, -a, d)

ReleaseEntry(b) ==
    \E m, r : \E a, d \in Nat :
        /\ AccruesTo(m) /\ Releases(m, borrow_positions[b], r, a, d, config, oracle)
        /\ Moves(b, r, a, -d)

SweepEntry(b) ==
    \E m, r :
        /\ AccruesTo(m) /\ Sweeps(m, borrow_positions[b], r, config, oracle)
        /\ Moves(b, r, 0, -borrow_positions[b].collateral)

SettleEntry(b) ==
    \E m, r :
        /\ AccruesTo(m) /\ Settles(m, borrow_positions[b], r, oracle)
        /\ Moves(b, r, r.atoms, r.returned)

WriteOffEntry(b) ==
    /\ SocializeLoss(b)
    /\ \E m, r :
         /\ AccruesTo(m) /\ WritesOff(m, borrow_positions[b], r)
         /\ Moves(b, r, 0, -borrow_positions[b].collateral)

BorrowerEntry(b) ==
    DrawEntry(b) \/ ReleaseEntry(b) \/ SweepEntry(b) \/ SettleEntry(b) \/ WriteOffEntry(b)

\* Fees paid out, a gift, or a new configuration.
TreasuryEntry ==
    \E m : \E a \in Nat :
        /\ AccruesTo(m) /\ FeeEffect(m, market')
        /\ UNCHANGED <<positions, collateral_tokens, oracle, now>>
        /\ supply_tokens' \in 0..SupplyMint
        /\ \/ FeesRedeemed(m, market', a) /\ supply_tokens' = supply_tokens + -a
           \/ SameFeesAndClock(m.vault, market'.vault) /\ supply_tokens' = supply_tokens + a
        /\ \/ config' = config
           \/ /\ config' \in Configs /\ update_allowed(config.unhealthy_ltv, config')
              /\ OraclesValid(config')

OracleQuotes ==
    [supply : [rate : Nat, confidence : Nat, publish_time : Nat],
     collateral : [rate : Nat, confidence : Nat, publish_time : Nat]]

\* The oracles hold quotes of the feeds.
QuotesPublished ==
    /\ \E q \in Quotes.supply, t \in Nat : oracle.supply = Published(q, t)
    /\ \E q \in Quotes.collateral, t \in Nat : oracle.collateral = Published(q, t)

IdleEntry ==
    /\ UNCHANGED <<market, positions, supply_tokens, collateral_tokens, config>>
    /\ oracle' \in OracleQuotes /\ now' \in Nat
    /\ QuotesPublished => QuotesPublished'

Entry ==
    \/ \E s \in Suppliers : SupplierEntry(s)
    \/ \E b \in Borrowers : BorrowerEntry(b)
    \/ TreasuryEntry
    \/ IdleEntry

-----------------------------------------------------------------------------
(***************************************************************************)
(* The invariant that needs no sum over the positions.  The alignment of   *)
(* the borrow price is what its monotonicity needs: the truncation of      *)
(* IFixedPoint cuts nothing off an aligned price.                          *)
(***************************************************************************)

\* Settling a sweep overwrites the collateral of the position: it must be zero
\* while the sweep is pending.
SweptIsWhole ==
    \A b \in Borrowers : borrow_positions[b].swept # 0 => borrow_positions[b].collateral = 0

ConfigOk == config.fee <= MaxFee /\ config.max_ltv < config.unhealthy_ltv

DebtPriceOk ==
    /\ Aligned(market.vault.borrow.atoms_per_share)
    /\ UOne <= market.vault.borrow.atoms_per_share

Base == TypeOK /\ SweptIsWhole /\ ConfigOk /\ DebtPriceOk
=============================================================================
