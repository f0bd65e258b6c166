---------------------------- MODULE ProgramEntries ----------------------------
(***************************************************************************)
(* Every step of AutaraProgram is one of the entries of ProgramEffects.    *)
(***************************************************************************)
EXTENDS ProgramEffects, MarketProofs

\* What the accrual at the head of every instruction leaves.
LEMMA SyncedEffect ==
    ASSUME TypeOK, NEW m \in Synced
    PROVE  AccruesTo(m)
  <1>1. PICK rate \in Rates :
            \E v \in sync_clock(market.vault, now, rate, config.fee, config.protocol_share) :
                m = [market EXCEPT !.vault = v]
    BY DEF Synced
  <1>2. PICK v \in sync_clock(market.vault, now, rate, config.fee, config.protocol_share) :
                m = [market EXCEPT !.vault = v]
    BY <1>1
  <1>3. config.fee \in Nat /\ config.protocol_share \in Nat /\ rate \in Nat /\ now \in Nat
    BY ProgramAssumption DEF TypeOK
  <1>4. market \in Markets /\ market.vault \in Vaults
    BY MarketTypes DEF TypeOK
  <1>5. /\ Accrued(market.vault, v) /\ now <= v.last_update
        /\ config.fee <= UOne =>
             market.vault.supply.atoms_per_share < v.supply.atoms_per_share + LowBits
    BY <1>3, <1>4, SyncClock
  <1>6. v \in Vaults
    BY <1>5 DEF Accrued
  <1>7. m \in Markets /\ m.vault = v /\ m.collateral = market.collateral
    BY <1>2, <1>4, <1>6, SetVault
  <1> QED BY <1>5, <1>7 DEF AccruesTo

LEMMA OraclesGuard == SyncedWithOracles \subseteq Synced /\ (SyncedWithOracles # {} => OraclesValid(config))
  BY DEF SyncedWithOracles

LEMMA TokensAreInt ==
    ASSUME TypeOK
    PROVE  /\ supply_tokens \in 0..SupplyMint /\ collateral_tokens \in 0..CollateralMint
           /\ supply_tokens \in Int /\ collateral_tokens \in Int
           /\ supply_tokens + 0 = supply_tokens /\ supply_tokens + -0 = supply_tokens
           /\ collateral_tokens + 0 = collateral_tokens /\ collateral_tokens + -0 = collateral_tokens
  <1>1. supply_tokens \in 0..SupplyMint /\ collateral_tokens \in 0..CollateralMint
    BY DEF TypeOK
  <1>2. supply_tokens \in Int /\ collateral_tokens \in Int
    BY <1>1
  <1> QED BY <1>1, <1>2, MinusZero

LEMMA SupplierEnters ==
    ASSUME TypeOK, NEW s \in Suppliers, SupplierStep(s)
    PROVE  SupplierEntry(s)
  <1> DEFINE pos == supply_positions[s]
  <1>1. pos \in SupplyPositions
    BY DEF TypeOK
  <1>2. \A m \in Synced : m \in Markets /\ AccruesTo(m)
    BY SyncedEffect DEF AccruesTo
  <1>3. ASSUME NEW a \in Amounts, SupplyApl(s, a) PROVE SupplierEntry(s)
    <2>1. PICK m \in Synced, r \in UNION {lend(n, pos, a, config) : n \in Synced} :
              /\ r \in lend(m, pos, a, config)
              /\ SetSupply(s, r) /\ TransferSupply(a) /\ UNCHANGED <<collateral_tokens, environment>>
      BY <1>3, OraclesGuard DEF SupplyApl
    <2>2. /\ SupplyEffect(m, pos, r) /\ Bought(pos, r, m.vault.supply.atoms_per_share) /\ r.atoms = a
      BY <1>1, <1>2, <2>1, ProgramAssumption, LendEffect, SMTT(20)
    <2> QED BY <1>2, <2>1, <2>2 DEF SupplierEntry, TransferSupply
  <1>4. ASSUME NEW a \in Nat, WithdrawSupply(s, a) \/ WithdrawAllSupply(s) PROVE SupplierEntry(s)
    <2> DEFINE Paid(m, r) ==
                  /\ r \in withdraw(m, pos, a) \cup withdraw_all(m, pos)
                  /\ SetSupply(s, r) /\ TransferSupply(-r.atoms)
                  /\ UNCHANGED <<collateral_tokens, environment>>
    <2>1. \E m \in Synced : \E r : Paid(m, r)
      BY <1>4, OraclesGuard DEF WithdrawSupply, WithdrawAllSupply
    <2> HIDE DEF Paid
    <2>2. PICK m, r : m \in Synced /\ Paid(m, r)
      BY <2>1
    <2>3. SupplyEffect(m, pos, r) /\ Sold(pos, r, m.vault.supply.atoms_per_share)
      BY <1>1, <1>2, <2>2, WithdrawEffect, WithdrawAllEffect DEF Paid
    <2> QED BY <1>2, <2>2, <2>3, SMTT(20) DEF SupplierEntry, TransferSupply, Paid
  <1>5. Amounts \subseteq Nat /\ 0 \in Nat
    BY ProgramAssumption
  <1> QED BY <1>3, <1>4, <1>5 DEF SupplierStep

LEMMA AmountsAreNat ==
    ASSUME TypeOK, NEW b \in Borrowers
    PROVE  /\ borrow_positions[b] \in BorrowPositions
           /\ Amounts \subseteq Nat /\ CollateralAmounts(b) \subseteq Nat
  <1>1. borrow_positions[b] \in BorrowPositions
    BY DEF TypeOK
  <1> QED BY <1>1, PositionTypes, ProgramAssumption, Zenon DEF CollateralAmounts

LEMMA BorrowerEnters ==
    ASSUME TypeOK, NEW b \in Borrowers, BorrowerStep(b)
    PROVE  DrawEntry(b) \/ ReleaseEntry(b)
  <1> DEFINE pos == borrow_positions[b]
  <1>1. pos \in BorrowPositions /\ Amounts \subseteq Nat /\ CollateralAmounts(b) \subseteq Nat
    BY AmountsAreNat
  <1>2. \A m \in Synced : m \in Markets /\ AccruesTo(m)
    BY SyncedEffect DEF AccruesTo
  <1>3. 0 \in Nat
    OBVIOUS
  <1>4. ASSUME NEW a \in Amounts, DepositAplCollateral(b, a) PROVE DrawEntry(b)
    <2>1. \E m \in Synced : \E r \in deposit_collateral(m, pos, a) : Moves(b, r, -0, a)
      BY <1>4, OraclesGuard, TokensAreInt DEF DepositAplCollateral, TransferCollateral, Moves
    <2> QED BY <1>1, <1>2, <1>3, <2>1, DepositDraws, Zenon DEF DrawEntry
  <1>5. ASSUME NEW a \in CollateralAmounts(b), WithdrawAplCollateral(b, a) PROVE ReleaseEntry(b)
    <2>1. \E m \in Synced : \E r \in withdraw_collateral(m, pos, a, config, oracle) : Moves(b, r, 0, -a)
      BY <1>5, OraclesGuard, TokensAreInt, SMTT(20) DEF WithdrawAplCollateral, TransferCollateral, Moves
    <2> QED BY <1>1, <1>2, <1>3, <2>1, WithdrawReleases, SMTT(20) DEF ReleaseEntry
  <1>6. ASSUME NEW a \in Amounts, BorrowApl(b, a) PROVE DrawEntry(b)
    <2>1. \E m \in Synced : \E r \in borrow(m, pos, a, config, oracle) : Moves(b, r, -a, 0)
      BY <1>6, OraclesGuard, TokensAreInt DEF BorrowApl, TransferSupply, Moves
    <2> QED BY <1>1, <1>2, <1>3, <2>1, BorrowDraws DEF DrawEntry
  <1>7. ASSUME NEW a \in Nat, RepayApl(b, a) \/ RepayAllApl(b) PROVE ReleaseEntry(b)
    <2>1. \E m \in Synced : \E r \in repay(m, pos, a) \cup repay_all(m, pos) : Moves(b, r, r.atoms, -0)
      BY <1>7, OraclesGuard, TokensAreInt DEF RepayApl, RepayAllApl, TransferSupply, Moves
    <2> QED BY <1>1, <1>2, <1>3, <2>1, RepayReleases, Zenon DEF ReleaseEntry
  <1>8. ASSUME NEW d \in Amounts, NEW a \in Amounts, BorrowDepositApl(b, d, a) PROVE DrawEntry(b)
    <2>1. \E m \in Synced : \E x \in deposit_collateral(m, pos, d) :
              \E r \in borrow(x.m, x.pos, a, config, oracle) : Moves(b, r, -a, d)
      BY <1>8, OraclesGuard DEF BorrowDepositApl, TransferSupply, TransferCollateral, Moves
    <2> QED BY <1>1, <1>2, <2>1, DepositBorrowDraws, Zenon DEF DrawEntry
  <1>9. ASSUME NEW d \in CollateralAmounts(b), NEW a \in Nat,
               WithdrawRepayApl(b, d, a) \/ WithdrawRepayAllApl(b, d)
        PROVE  ReleaseEntry(b)
    <2>1. \E m \in Synced : \E x \in repay(m, pos, a) \cup repay_all(m, pos) :
              \E r \in withdraw_collateral(x.m, x.pos, d, config, oracle) : Moves(b, r, x.atoms, -d)
      BY <1>9, OraclesGuard, SMTT(20)
      DEF WithdrawRepayApl, WithdrawRepayAllApl, TransferSupply, TransferCollateral, Moves
    <2> QED BY <1>1, <1>2, <2>1, RepayWithdrawReleases, Zenon DEF ReleaseEntry
  <1> QED BY <1>1, <1>3, <1>4, <1>5, <1>6, <1>7, <1>8, <1>9, SMTT(20) DEF BorrowerStep

LEMMA KeeperEnters ==
    ASSUME TypeOK, SweptIsWhole, NEW b \in Borrowers, KeeperStep(b)
    PROVE  BorrowerEntry(b)
  <1> DEFINE pos == borrow_positions[b]
  <1>1. pos \in BorrowPositions /\ Amounts \subseteq Nat /\ (pos.swept # 0 => pos.collateral = 0)
    BY AmountsAreNat DEF SweptIsWhole
  <1>2. \A m \in Synced : m \in Markets /\ AccruesTo(m)
    BY SyncedEffect DEF AccruesTo
  <1>3. ASSUME NEW a \in Amounts, NEW min, Liquidate(b, a, min) PROVE ReleaseEntry(b)
    <2>1. \E m \in Synced : \E r \in liquidate(m, pos, config, oracle, a) : Moves(b, r, r.atoms, -r.seized)
      BY <1>3, OraclesGuard DEF Liquidate, TransferSupply, TransferCollateral, Moves
    <2> QED BY <1>1, <1>2, <2>1, LiquidateReleases, SMTT(20) DEF ReleaseEntry
  <1>4. ASSUME BeginCapitalSweep(b) PROVE SweepEntry(b)
    <2>1. \E m \in Synced : \E r \in begin_capital_sweep(m, pos, config, oracle) : Moves(b, r, 0, -r.swept)
      BY <1>4, OraclesGuard, TokensAreInt DEF BeginCapitalSweep, TransferCollateral, Moves
    <2> QED BY <1>1, <1>2, <2>1, BeginSweeps DEF SweepEntry
  <1>5. ASSUME NEW a \in Amounts, NEW max_return, SettleCapitalSweep(b, a, max_return) PROVE SettleEntry(b)
    <2>1. \E m \in Synced : \E r \in settle_capital_sweep(m, pos, config, oracle, a, max_return) :
              Moves(b, r, r.atoms, r.returned)
      BY <1>5, OraclesGuard DEF SettleCapitalSweep, TransferSupply, TransferCollateral, Moves
    <2>2. a \in Nat
      BY <1>1
    <2> QED BY <1>1, <1>2, <2>1, <2>2, SettlementSettles, SMTT(20) DEF SettleEntry
  <1>6. ASSUME SocializeLoss(b) PROVE WriteOffEntry(b)
    <2>1. \E m \in Synced : \E r \in socialize_loss(m, pos, oracle) : Moves(b, r, 0, -r.seized)
      BY <1>6, OraclesGuard, TokensAreInt DEF SocializeLoss, TransferCollateral, Moves
    <2> QED BY <1>1, <1>2, <1>6, <2>1, LossWritesOff, SMTT(20) DEF WriteOffEntry
  <1> QED BY <1>3, <1>4, <1>5, <1>6 DEF KeeperStep, BorrowerEntry

LEMMA TreasuryEnters ==
    ASSUME TypeOK, TreasuryStep
    PROVE  TreasuryEntry
  <1>1. \A m \in Synced : m \in Markets /\ AccruesTo(m)
    BY SyncedEffect DEF AccruesTo
  <1>2. supply_tokens \in 0..SupplyMint /\ supply_tokens + 0 = supply_tokens /\ 0 \in Nat
    BY TokensAreInt
  <1>3. ASSUME RedeemProtocolFees \/ RedeemCuratorFees PROVE TreasuryEntry
    <2> DEFINE Paid(m, r) ==
                  /\ r \in redeem_protocol_fees(m) \cup redeem_curator_fees(m)
                  /\ market' = r.m /\ TransferSupply(-r.atoms)
                  /\ UNCHANGED <<positions, collateral_tokens, environment>>
    <2>1. \E m \in Synced : \E r : Paid(m, r)
      BY <1>3 DEF RedeemProtocolFees, RedeemCuratorFees
    <2> HIDE DEF Paid
    <2>2. PICK m, r : m \in Synced /\ Paid(m, r)
      BY <2>1, SMTT(20)
    <2>3. /\ r.atoms \in Nat /\ FeeEffect(m, r.m) /\ FeesRedeemed(m, r.m, r.atoms)
      BY <1>1, <2>2, RedeemEffect, SMTT(20) DEF Paid, FeesRedeemed
    <2> QED BY <1>1, <2>2, <2>3, SMTT(20) DEF Paid, TreasuryEntry, TransferSupply, environment
  <1>4. ASSUME NEW a \in Amounts, DonateSupply(a) PROVE TreasuryEntry
    <2>1. PICK m \in Synced : \E r \in donate_supply_atoms(m, a) :
              market' = r.m /\ TransferSupply(a)
              /\ UNCHANGED <<positions, collateral_tokens, environment>>
      BY <1>4 DEF DonateSupply
    <2>2. /\ FeeEffect(m, market') /\ SameFeesAndClock(m.vault, market'.vault) /\ a \in Nat
          /\ AccruesTo(m)
      BY <1>1, <2>1, DonateEffect, ProgramAssumption
    <2>3. /\ UNCHANGED <<positions, collateral_tokens, environment>>
          /\ supply_tokens' \in 0..SupplyMint /\ supply_tokens' = supply_tokens + a
      BY <2>1 DEF TransferSupply
    <2> QED BY <2>2, <2>3, SMTT(20) DEF TreasuryEntry, environment
  <1>5. ASSUME NEW c \in Configs, UpdateConfig(c) PROVE TreasuryEntry
    <2> DEFINE n == market'
    <2>1. /\ n \in Synced /\ config' \in Configs /\ update_allowed(config.unhealthy_ltv, config')
          /\ OraclesValid(config')
          /\ UNCHANGED <<positions, supply_tokens, collateral_tokens, oracle, now>>
      BY <1>5 DEF UpdateConfig
    <2>2. n \in Markets /\ AccruesTo(n)
      BY <1>1, <2>1
    <2> HIDE DEF n
    <2>3. n.vault.supply.atoms_per_share \in Nat
      BY <2>2, MarketTypes
    <2>4. n.vault.supply.atoms_per_share <= n.vault.supply.atoms_per_share
      BY <2>3
    <2>5. FeeEffect(n, market') /\ SameFeesAndClock(n.vault, market'.vault)
      BY <2>2, <2>4 DEF FeeEffect, SameFeesAndClock, n
    <2> QED BY <1>2, <2>1, <2>2, <2>5 DEF TreasuryEntry
  <1> QED BY <1>3, <1>4, <1>5 DEF TreasuryStep

LEMMA EnvironmentEnters ==
    ASSUME TypeOK, EnvironmentStep
    PROVE  IdleEntry
  <1>1. UNCHANGED <<market, positions, supply_tokens, collateral_tokens, config>>
    BY DEF EnvironmentStep, Tick, PushSupplyPrice, PushCollateralPrice
  <1>2. now \in Nat /\ oracle \in OracleQuotes
    BY DEF TypeOK, OracleQuotes
  <1>3. \A q \in Quotes.supply \cup Quotes.collateral :
            Published(q, now) \in [rate : Nat, confidence : Nat, publish_time : Nat]
    BY <1>2, ProgramAssumption DEF Published
  <1>4. oracle' \in OracleQuotes /\ now' \in Nat
    <2>1. CASE Tick
      BY <1>2, <2>1 DEF Tick
    <2>2. CASE \E q \in Quotes.supply : PushSupplyPrice(q)
      BY <1>2, <1>3, <2>2 DEF PushSupplyPrice, OracleQuotes
    <2>3. CASE \E q \in Quotes.collateral : PushCollateralPrice(q)
      BY <1>2, <1>3, <2>3 DEF PushCollateralPrice, OracleQuotes
    <2> QED BY <2>1, <2>2, <2>3 DEF EnvironmentStep
  <1>5. QuotesPublished => QuotesPublished'
    <2>1. CASE Tick
      BY <2>1 DEF Tick, QuotesPublished
    <2>2. CASE \E q \in Quotes.supply : PushSupplyPrice(q)
      BY <1>2, <2>2 DEF PushSupplyPrice, QuotesPublished, OracleQuotes
    <2>3. CASE \E q \in Quotes.collateral : PushCollateralPrice(q)
      BY <1>2, <2>3 DEF PushCollateralPrice, QuotesPublished, OracleQuotes
    <2> QED BY <2>1, <2>2, <2>3, SMTT(20) DEF EnvironmentStep
  <1> QED BY <1>1, <1>4, <1>5, SMTT(20) DEF IdleEntry

LEMMA StepsAreEntries ==
    ASSUME TypeOK, SweptIsWhole, [Next]_vars
    PROVE  Entry
  <1>1. now \in Nat /\ oracle \in OracleQuotes
    BY DEF TypeOK, OracleQuotes
  <1>2. EnvironmentStep => IdleEntry
    BY EnvironmentEnters
  <1>3. UNCHANGED vars => IdleEntry
    BY <1>1 DEF vars, IdleEntry, positions, QuotesPublished
  <1>4. \A b \in Borrowers : BorrowerStep(b) \/ KeeperStep(b) => BorrowerEntry(b)
    BY BorrowerEnters, KeeperEnters DEF BorrowerEntry
  <1>5. \A s \in Suppliers : SupplierStep(s) => SupplierEntry(s)
    BY SupplierEnters
  <1>6. TreasuryStep => TreasuryEntry
    BY TreasuryEnters
  <1> QED BY <1>2, <1>3, <1>4, <1>5, <1>6, SMTT(20) DEF Next, Entry
=============================================================================
