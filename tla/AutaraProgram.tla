---------------------------- MODULE AutaraProgram ----------------------------
(***************************************************************************)
(* programs/autara-program: the instructions of the lending program on one *)
(* market, its positions and its two token vaults.                         *)
(*                                                                         *)
(* A transaction is atomic: an instruction that returns an error at any    *)
(* point, a failed token transfer included, changes nothing, and here is   *)
(* an action that is not enabled.  Every instruction of the program is one *)
(* action, from the account checks to the last transfer.                   *)
(***************************************************************************)
EXTENDS Market, FiniteSets

CONSTANTS MinBonus, MaxBonus,     \* MIN_ and MAX_LIQUIDATION_BONUS
          MaxLtvWithBonus,        \* MAX_LTV_WITH_LIQUIDATION_BONUS
          MaxUtilisation,         \* MAX_UTILISATION_RATE
          MaxFee                  \* MAX_LENDING_MARKET_FEE_IN_BPS, as UFixedPoint

\* 20% in the program.  A fee above 100% of the interest would be taken from
\* the suppliers' principal.
ASSUME FeeAssumption == MaxFee \in Nat /\ MaxFee <= UOne

CONSTANTS Suppliers, Borrowers,          \* the supply and borrow positions
          Amounts,                       \* atoms an instruction may name
          Rates,                         \* compounded borrow rates of one accrual
          Quotes,                        \* [supply, collateral -> set of [rate, confidence]]
          Configs,                       \* configurations the curator may choose
          SupplyMint, CollateralMint,    \* tokens in existence
          MaxTime,                       \* bound on the clock
          SharePrices                    \* supply share prices that donations and losses may leave

ASSUME ProgramAssumption ==
    /\ IsFiniteSet(Suppliers) /\ IsFiniteSet(Borrowers)
    /\ Amounts \subseteq Nat
    /\ Rates \subseteq Nat
    /\ Quotes.supply \subseteq [rate : Nat, confidence : Nat]
    /\ Quotes.collateral \subseteq [rate : Nat, confidence : Nat]
    /\ Configs \subseteq [max_ltv : Nat, unhealthy_ltv : Nat, bonus : Nat,
                          max_utilisation : Nat, max_supply : Nat, fee : Nat,
                          protocol_share : Nat, max_age : Nat, max_confidence : Nat]
    /\ SupplyMint \in Nat /\ CollateralMint \in Nat
    /\ MaxTime \in Nat /\ SharePrices \subseteq Nat

-----------------------------------------------------------------------------
(***************************************************************************)
(* autara-lib/src/state/market_config.rs: the limits an update of the      *)
(* market's parameters must respect.  A configuration is the record        *)
(* [max_ltv, unhealthy_ltv, bonus, max_utilisation, max_supply, fee,       *)
(* protocol_share, max_age, max_confidence]; the last two are those of the *)
(* oracle configurations, fee is lending_market_fee_fixed.                 *)
(***************************************************************************)
\* Mutant: unhealthy_ltv may be lowered.
update_ltv_allowed_Lowered(old_unhealthy, c) ==
    /\ c.max_ltv >= 0
    /\ c.max_ltv < c.unhealthy_ltv
    /\ MinBonus <= c.bonus /\ c.bonus <= MaxBonus
    /\ i_mul(c.unhealthy_ltv, IOne + c.bonus) <= MaxLtvWithBonus

\* update_ltv: unhealthy_ltv may only grow, and leaves margin for the bonus.
update_ltv_allowed(old_unhealthy, c) ==
    /\ c.max_ltv >= 0
    /\ old_unhealthy <= c.unhealthy_ltv
    /\ c.max_ltv < c.unhealthy_ltv
    /\ MinBonus <= c.bonus /\ c.bonus <= MaxBonus
    /\ i_mul(c.unhealthy_ltv, IOne + c.bonus) <= MaxLtvWithBonus

update_allowed(old_unhealthy, c) ==
    /\ update_ltv_allowed(old_unhealthy, c)
    /\ c.max_utilisation <= MaxUtilisation
    /\ c.fee <= MaxFee

-----------------------------------------------------------------------------
VARIABLES market,               \* [vault, collateral], see Market
          supply_positions,     \* [Suppliers -> SupplyPositions]
          borrow_positions,     \* [Borrowers -> BorrowPositions]
          supply_tokens,        \* balance of the market's supply token account
          collateral_tokens,    \* balance of its collateral token account
          oracle,               \* the last published quote of each oracle
          config,               \* the market's configuration
          now                   \* the chain's clock

vars == <<market, supply_positions, borrow_positions, supply_tokens,
          collateral_tokens, oracle, config, now>>

positions == <<supply_positions, borrow_positions>>
environment == <<oracle, config, now>>

Published(q, t) == [rate |-> q.rate, confidence |-> q.confidence, publish_time |-> t]

\* create_market has run, with an allowed configuration and valid oracles, and
\* the positions have been created.
Init ==
    /\ market = [vault |-> NewVault(0), collateral |-> 0]
    /\ supply_positions = [s \in Suppliers |-> [shares |-> 0, deposited |-> 0]]
    /\ borrow_positions = [b \in Borrowers |->
                              [shares |-> 0, initial |-> 0, collateral |-> 0, swept |-> 0]]
    /\ supply_tokens = 0
    /\ collateral_tokens = 0
    /\ now = 0
    /\ config \in {c \in Configs : update_allowed(0, c)}
    /\ \E s \in Quotes.supply, c \in Quotes.collateral :
         /\ oracle = [supply |-> Published(s, 0), collateral |-> Published(c, 0)]
         /\ load_and_validate(oracle.supply, 0, config.max_age, config.max_confidence)
         /\ load_and_validate(oracle.collateral, 0, config.max_age, config.max_confidence)

OraclesValid(c) ==
    /\ load_and_validate(oracle.supply, now, c.max_age, c.max_confidence)
    /\ load_and_validate(oracle.collateral, now, c.max_age, c.max_confidence)

\* The market after sync_clock, for any rate the curve may have produced.
Synced ==
    UNION {{[market EXCEPT !.vault = v] :
              v \in sync_clock(market.vault, now, rate, config.fee, config.protocol_share)} :
           rate \in Rates}

\* wrapper_mut validates both oracles before anything is changed.
SyncedWithOracles == IF OraclesValid(config) THEN Synced ELSE {}

\* The token program moves atoms in or out of a vault, or fails.
TransferSupply(atoms) ==
    /\ supply_tokens + atoms \in 0..SupplyMint
    /\ supply_tokens' = supply_tokens + atoms

TransferCollateral(atoms) ==
    /\ collateral_tokens + atoms \in 0..CollateralMint
    /\ collateral_tokens' = collateral_tokens + atoms

SetSupply(s, r) ==
    /\ market' = r.m
    /\ supply_positions' = [supply_positions EXCEPT ![s] = r.pos]
    /\ UNCHANGED borrow_positions

SetBorrow(b, r) ==
    /\ market' = r.m
    /\ borrow_positions' = [borrow_positions EXCEPT ![b] = r.pos]
    /\ UNCHANGED supply_positions

-----------------------------------------------------------------------------
(***************************************************************************)
(* Suppliers.                                                              *)
(***************************************************************************)
SupplyApl(s, atoms) ==
    \E m \in SyncedWithOracles : \E r \in lend(m, supply_positions[s], atoms, config) :
        /\ SummaryOk(r.m.vault)
        /\ SetSupply(s, r)
        /\ TransferSupply(atoms)
        /\ UNCHANGED <<collateral_tokens, environment>>

WithdrawSupply(s, atoms) ==
    \E m \in SyncedWithOracles : \E r \in withdraw(m, supply_positions[s], atoms) :
        /\ SummaryOk(r.m.vault)
        /\ SetSupply(s, r)
        /\ TransferSupply(-r.atoms)
        /\ UNCHANGED <<collateral_tokens, environment>>

WithdrawAllSupply(s) ==
    \E m \in SyncedWithOracles : \E r \in withdraw_all(m, supply_positions[s]) :
        /\ SummaryOk(r.m.vault)
        /\ SetSupply(s, r)
        /\ TransferSupply(-r.atoms)
        /\ UNCHANGED <<collateral_tokens, environment>>

-----------------------------------------------------------------------------
(***************************************************************************)
(* Borrowers.                                                              *)
(***************************************************************************)
DepositAplCollateral(b, atoms) ==
    \E m \in SyncedWithOracles : \E r \in deposit_collateral(m, borrow_positions[b], atoms) :
        /\ SummaryOk(r.m.vault)
        /\ SetBorrow(b, r)
        /\ TransferCollateral(atoms)
        /\ UNCHANGED <<supply_tokens, environment>>

\* atoms is the amount of the instruction, or the whole collateral when
\* withdraw_all is set.
WithdrawAplCollateral(b, atoms) ==
    \E m \in SyncedWithOracles :
      \E r \in withdraw_collateral(m, borrow_positions[b], atoms, config, oracle) :
        /\ SummaryOk(r.m.vault)
        /\ SetBorrow(b, r)
        /\ TransferCollateral(-atoms)
        /\ UNCHANGED <<supply_tokens, environment>>

BorrowApl(b, atoms) ==
    \E m \in SyncedWithOracles : \E r \in borrow(m, borrow_positions[b], atoms, config, oracle) :
        /\ SummaryOk(r.m.vault)
        /\ SetBorrow(b, r)
        /\ TransferSupply(-atoms)
        /\ UNCHANGED <<collateral_tokens, environment>>

RepayApl(b, atoms) ==
    \E m \in SyncedWithOracles : \E r \in repay(m, borrow_positions[b], atoms) :
        /\ SummaryOk(r.m.vault)
        /\ SetBorrow(b, r)
        /\ TransferSupply(r.atoms)
        /\ UNCHANGED <<collateral_tokens, environment>>

RepayAllApl(b) ==
    \E m \in SyncedWithOracles : \E r \in repay_all(m, borrow_positions[b]) :
        /\ SummaryOk(r.m.vault)
        /\ SetBorrow(b, r)
        /\ TransferSupply(r.atoms)
        /\ UNCHANGED <<collateral_tokens, environment>>

\* Both legs change the market before any token moves; the borrowed tokens are
\* paid out, the caller's callback runs, and only then is the deposit collected.
BorrowDepositApl(b, deposit, atoms) ==
    \E m \in SyncedWithOracles :
      \E d \in deposit_collateral(m, borrow_positions[b], deposit) :
        \E r \in borrow(d.m, d.pos, atoms, config, oracle) :
          /\ SummaryOk(r.m.vault)
          /\ SetBorrow(b, r)
          /\ TransferSupply(-atoms)
          /\ TransferCollateral(deposit)
          /\ UNCHANGED environment

\* Repay an amount, or everything, then withdraw what the remaining debt allows.
WithdrawRepayApl(b, collateral, atoms) ==
    \E m \in SyncedWithOracles :
      \E p \in repay(m, borrow_positions[b], atoms) :
        \E r \in withdraw_collateral(p.m, p.pos, collateral, config, oracle) :
          /\ SummaryOk(r.m.vault)
          /\ SetBorrow(b, r)
          /\ TransferCollateral(-collateral)
          /\ TransferSupply(p.atoms)
          /\ UNCHANGED environment

WithdrawRepayAllApl(b, collateral) ==
    \E m \in SyncedWithOracles :
      \E p \in repay_all(m, borrow_positions[b]) :
        \E r \in withdraw_collateral(p.m, p.pos, collateral, config, oracle) :
          /\ SummaryOk(r.m.vault)
          /\ SetBorrow(b, r)
          /\ TransferCollateral(-collateral)
          /\ TransferSupply(p.atoms)
          /\ UNCHANGED environment

Liquidate(b, max_repay, min_receive) ==
    \E m \in SyncedWithOracles :
      \E r \in liquidate(m, borrow_positions[b], config, oracle, max_repay) :
        /\ r.seized >= min_receive
        /\ SetBorrow(b, r)
        /\ TransferCollateral(-r.seized)
        /\ TransferSupply(r.atoms)
        /\ UNCHANGED environment

-----------------------------------------------------------------------------
(***************************************************************************)
(* The curator, the protocol admin and donors.                             *)
(***************************************************************************)
BeginCapitalSweep(b) ==
    \E m \in SyncedWithOracles :
      \E r \in begin_capital_sweep(m, borrow_positions[b], config, oracle) :
        /\ SetBorrow(b, r)
        /\ TransferCollateral(-r.swept)
        /\ UNCHANGED <<supply_tokens, environment>>

SettleCapitalSweep(b, max_repay, max_return) ==
    \E m \in SyncedWithOracles :
      \E r \in settle_capital_sweep(m, borrow_positions[b], config, oracle, max_repay, max_return) :
        /\ SetBorrow(b, r)
        /\ TransferSupply(r.atoms)
        /\ TransferCollateral(r.returned)
        /\ UNCHANGED environment

SocializeLoss(b) ==
    \E m \in SyncedWithOracles : \E r \in socialize_loss(m, borrow_positions[b], oracle) :
        /\ r.m.vault.supply.atoms_per_share \in SharePrices
        /\ SetBorrow(b, r)
        /\ TransferCollateral(-r.seized)
        /\ UNCHANGED <<supply_tokens, environment>>

\* Fee redemption and donation read no oracle.  Redemption logs a summary, a
\* donation does not.
RedeemProtocolFees ==
    \E m \in Synced : \E r \in redeem_protocol_fees(m) :
        /\ SummaryOk(r.m.vault)
        /\ market' = r.m
        /\ TransferSupply(-r.atoms)
        /\ UNCHANGED <<positions, collateral_tokens, environment>>

RedeemCuratorFees ==
    \E m \in Synced : \E r \in redeem_curator_fees(m) :
        /\ SummaryOk(r.m.vault)
        /\ market' = r.m
        /\ TransferSupply(-r.atoms)
        /\ UNCHANGED <<positions, collateral_tokens, environment>>

DonateSupply(atoms) ==
    \E m \in Synced : \E r \in donate_supply_atoms(m, atoms) :
        /\ r.m.vault.supply.atoms_per_share \in SharePrices
        /\ market' = r.m
        /\ TransferSupply(atoms)
        /\ UNCHANGED <<positions, collateral_tokens, environment>>

\* Interest is accrued under the old configuration before the new one is
\* stored, and the oracles must be valid under the new one.
UpdateConfig(c) ==
    /\ update_allowed(config.unhealthy_ltv, c)
    /\ OraclesValid(c)
    /\ market' \in Synced
    /\ config' = c
    /\ UNCHANGED <<positions, supply_tokens, collateral_tokens, oracle, now>>

-----------------------------------------------------------------------------
(***************************************************************************)
(* The clock and the oracle feeds.                                         *)
(***************************************************************************)
Tick ==
    /\ now < MaxTime
    /\ now' = now + 1
    /\ UNCHANGED <<market, positions, supply_tokens, collateral_tokens, oracle, config>>

PushSupplyPrice(q) ==
    /\ oracle' = [oracle EXCEPT !.supply = Published(q, now)]
    /\ UNCHANGED <<market, positions, supply_tokens, collateral_tokens, config, now>>

PushCollateralPrice(q) ==
    /\ oracle' = [oracle EXCEPT !.collateral = Published(q, now)]
    /\ UNCHANGED <<market, positions, supply_tokens, collateral_tokens, config, now>>

-----------------------------------------------------------------------------
\* The amounts of an instruction on b's collateral, withdraw_all included.
CollateralAmounts(b) == Amounts \cup {borrow_positions[b].collateral}

SupplierStep(s) ==
    \/ \E a \in Amounts : SupplyApl(s, a)
    \/ \E a \in Amounts : WithdrawSupply(s, a)
    \/ WithdrawAllSupply(s)

BorrowerStep(b) ==
    \/ \E a \in Amounts : DepositAplCollateral(b, a)
    \/ \E a \in CollateralAmounts(b) : WithdrawAplCollateral(b, a)
    \/ \E a \in Amounts : BorrowApl(b, a)
    \/ \E a \in Amounts : RepayApl(b, a)
    \/ RepayAllApl(b)
    \/ \E d, a \in Amounts : BorrowDepositApl(b, d, a)
    \/ \E w \in CollateralAmounts(b), a \in Amounts : WithdrawRepayApl(b, w, a)
    \/ \E w \in CollateralAmounts(b) : WithdrawRepayAllApl(b, w)

KeeperStep(b) ==
    \/ \E a \in Amounts, min \in {0, 1} : Liquidate(b, a, min)
    \/ BeginCapitalSweep(b)
    \/ \E a \in Amounts, r \in {0, borrow_positions[b].swept} : SettleCapitalSweep(b, a, r)
    \/ SocializeLoss(b)

TreasuryStep ==
    \/ RedeemProtocolFees
    \/ RedeemCuratorFees
    \/ \E a \in Amounts : DonateSupply(a)
    \/ \E c \in Configs : UpdateConfig(c)

EnvironmentStep ==
    \/ Tick
    \/ \E q \in Quotes.supply : PushSupplyPrice(q)
    \/ \E q \in Quotes.collateral : PushCollateralPrice(q)

Next ==
    \/ \E s \in Suppliers : SupplierStep(s)
    \/ \E b \in Borrowers : BorrowerStep(b) \/ KeeperStep(b)
    \/ TreasuryStep
    \/ EnvironmentStep

Spec == Init /\ [][Next]_vars

-----------------------------------------------------------------------------
\* The sum of a function into Nat, as the number of the units it counts.
SumOf(f) == Cardinality(UNION {{x} \X (1..f[x]) : x \in DOMAIN f})

SupplierShares == SumOf([s \in Suppliers |-> supply_positions[s].shares])

BorrowerShares == SumOf([b \in Borrowers |-> borrow_positions[b].shares])

DepositedCollateral == SumOf([b \in Borrowers |-> borrow_positions[b].collateral])

\* Types of the whole state, for every scale of the fixed-point numbers.
TypeOK ==
    /\ market \in Markets
    /\ supply_positions \in [Suppliers -> SupplyPositions]
    /\ borrow_positions \in [Borrowers -> BorrowPositions]
    /\ supply_tokens \in 0..SupplyMint
    /\ collateral_tokens \in 0..CollateralMint
    /\ oracle \in [supply : [rate : Nat, confidence : Nat, publish_time : Nat],
                   collateral : [rate : Nat, confidence : Nat, publish_time : Nat]]
    /\ config \in Configs
    /\ now \in Nat

\* Every supply share of the vault belongs to one supplier or is a fee share
\* waiting to be redeemed: lend, withdraw, accrual and fee redemption
\* (market.rs, supply_vault.rs) move the tracker and its owners together.
SupplySharesConserved ==
    market.vault.supply.total_shares =
        SupplierShares + market.vault.protocol_fee_shares + market.vault.curator_fee_shares

\* Every borrow share of the vault is one borrower's, through borrow, repay,
\* capped liquidation, settlement and socialised loss alike.
BorrowSharesConserved == market.vault.borrow.total_shares = BorrowerShares

\* The collateral vault's total is the sum of the positions' collateral and is
\* what the token account holds: swept collateral is in none of the three
\* (market.rs:386 "the vault total must follow the position").
CollateralConserved ==
    /\ market.collateral = DepositedCollateral
    /\ collateral_tokens = market.collateral

\* A position that owes has collateral, on chain or with the curator.  Debt
\* without collateral has no health (division by zero), so it could be neither
\* liquidated nor socialised.
DebtIsBacked ==
    \A b \in Borrowers : borrow_positions[b].shares > 0 =>
        borrow_positions[b].collateral + borrow_positions[b].swept > 0

\* The price of a borrow share starts at one atom and never falls: debt does
\* not shrink by the truncation of IFixedPoint in apply_interest_rate.
BorrowPriceNeverFalls ==
    [][market.vault.borrow.atoms_per_share <= market'.vault.borrow.atoms_per_share]_vars

\* What an instruction may do to a position whose sweep is pending.
LeftAloneOrSettled(old, new) ==
    \/ new = old
    \/ /\ ~capital_sweep_pending(new)
       /\ new.collateral <= old.swept
       /\ new.shares <= old.shares

\* While a sweep is pending the position is locked: deposits, withdrawals,
\* borrows, repayments, liquidations and socialised losses leave it alone
\* (borrow_position.rs ensure_no_pending_capital_sweep).  The settlement that
\* ends it returns no more than was swept and does not add debt, so that
\* nothing is overwritten when settle stores the returned collateral.
SweptPositionLocked ==
    [][\A b \in Borrowers :
         capital_sweep_pending(borrow_positions[b]) =>
            LeftAloneOrSettled(borrow_positions[b], borrow_positions'[b])]_vars

\* Suppliers lose only when a loss is socialised: otherwise the price of a
\* supply share falls at most by the low bits that apply_interest_rate_with_fee
\* drops when it converts the price to an IFixedPoint.
SupplyPriceFallsOnlyByLoss ==
    [][\/ \E b \in Borrowers : SocializeLoss(b)
       \/ market'.vault.supply.atoms_per_share
            > market.vault.supply.atoms_per_share - LowBits]_vars

\* What the suppliers are owed, and what the market holds and is owed, in
\* units of 1/UOne^2 atoms.
Claims == market.vault.supply.total_shares * market.vault.supply.atoms_per_share

Assets == supply_tokens * UOne * UOne
            + market.vault.borrow.total_shares * market.vault.borrow.atoms_per_share

Drift == Claims - Assets

\* The roundings of one instruction, its accrual included, create claims of
\* less than one atom that no token or debt backs, whatever the amounts are.  A
\* socialised loss may leave one unit of price more on every share, because the
\* loss per share is rounded down (shares_tracker.rs).
RoundingDriftBounded ==
    [][\/ Drift' < Drift + UOne * UOne
       \/ /\ \E b \in Borrowers : SocializeLoss(b)
          /\ Drift' < Drift + UOne * UOne + market.vault.supply.total_shares]_vars

\* A pending sweep can always be settled at current prices, at the latest by
\* returning everything: none of the guards of settle_capital_sweep (the
\* liquidation it computes, the capped repayment, the LTV comparison) can lock
\* the position for good, however price and debt moved since the sweep began.
SweepSettleable ==
    \A b \in Borrowers :
        LET pos == borrow_positions[b]
        IN  capital_sweep_pending(pos) =>
                \A m \in SyncedWithOracles :
                    settle_capital_sweep(m, pos, config, oracle, 0, pos.swept) # {}

\* What liquidate would find at the last published prices.
Unhealthy(b) ==
    \E m \in Synced :
        \E h \in borrow_position_health(m, borrow_positions[b], oracle) :
            h.ltv >= config.unhealthy_ltv

\* A healthy position becomes liquidatable only when a price is pushed or time
\* passes: no instruction of its owner, of other users or of the curator (a new
\* configuration included) does it.  A settled sweep is the exception, as it
\* puts the position back as unhealthy as it was.
HealthyUntilPriceOrTime ==
    [][\A b \in Borrowers :
         Unhealthy(b)' /\ ~capital_sweep_pending(borrow_positions[b]) =>
            \/ Unhealthy(b)
            \/ oracle' # oracle
            \/ now' # now]_vars
=============================================================================
