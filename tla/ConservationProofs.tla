-------------------------- MODULE ConservationProofs --------------------------
(***************************************************************************)
(* Every entry of ProgramEffects preserves the types, the lock of a swept  *)
(* position, the two share prices and the conservation invariants, for any *)
(* number of positions, any amounts, rates, quotes and configurations, and *)
(* any scale of the arithmetic.                                            *)
(***************************************************************************)
EXTENDS ProgramEffects, FiniteSetTheorems, TLAPS

-----------------------------------------------------------------------------
LEMMA ScalesDivide ==
    /\ UOne \in Nat \ {0} /\ IOne \in Nat \ {0}
    /\ LowBits \in Nat \ {0} /\ UOne = IOne * LowBits
  <1>1. UOne % IOne = 0 /\ UOne \in Nat \ {0} /\ IOne \in Nat \ {0}
    BY FixedPointAssumption
  <1>2. LowBits \in Nat
    BY <1>1 DEF LowBits
  <1>3. UOne = IOne * LowBits + (UOne % IOne)
    BY <1>1 DEF LowBits
  <1> QED BY <1>1, <1>2, <1>3

LEMMA MarketParts ==
    ASSUME NEW m \in Markets
    PROVE  /\ m.collateral \in Nat
           /\ m.vault.supply.total_shares \in Nat /\ m.vault.borrow.total_shares \in Nat
           /\ m.vault.supply.atoms_per_share \in Nat /\ m.vault.borrow.atoms_per_share \in Nat
           /\ m.vault.protocol_fee_shares \in Nat /\ m.vault.curator_fee_shares \in Nat
  BY DEF Markets, Vaults, Trackers

-----------------------------------------------------------------------------
(***************************************************************************)
(* What every entry on a borrow position has in common.                    *)
(***************************************************************************)

\* A swept position is settled, or is not touched.
SettlesOrUnlocked(old, new) ==
    /\ new.swept # 0 => new.collateral = 0
    /\ old.swept # 0 => new.swept = 0 /\ new.collateral <= old.swept /\ new.shares <= old.shares

PositionEntry(b) ==
    \E m, r : \E d \in Int :
        /\ AccruesTo(m) /\ PositionEffect(m, borrow_positions[b], r, d)
        /\ SettlesOrUnlocked(borrow_positions[b], r.pos)
        /\ SocializeLoss(b) \/ r.m.vault.supply = m.vault.supply
        /\ SetBorrow(b, r)
        /\ supply_tokens' \in 0..SupplyMint
        /\ collateral_tokens' \in 0..CollateralMint /\ collateral_tokens' = collateral_tokens + d
        /\ UNCHANGED environment

LEMMA EffectEnters ==
    ASSUME NEW b \in Borrowers, NEW m, NEW r, NEW atoms, NEW d \in Int,
           AccruesTo(m), BorrowEffect(m, borrow_positions[b], r, d), Moves(b, r, atoms, d),
           SettlesOrUnlocked(borrow_positions[b], r.pos)
    PROVE  PositionEntry(b)
  <1>1. PositionEffect(m, borrow_positions[b], r, d) /\ r.m.vault.supply = m.vault.supply
    BY DEF BorrowEffect, PositionEffect
  <1> QED BY <1>1 DEF Moves, PositionEntry

LEMMA EntryOnPosition ==
    ASSUME TypeOK, NEW b \in Borrowers, BorrowerEntry(b)
    PROVE  PositionEntry(b)
  <1> DEFINE pos == borrow_positions[b]
  <1>1. \A n \in Nat : n \in Int /\ -n \in Int
    OBVIOUS
  <1>2. pos.collateral \in Nat
    BY DEF TypeOK, BorrowPositions
  <1>3. CASE DrawEntry(b)
    <2>1. PICK m, r, a, d :
              /\ d \in Nat /\ AccruesTo(m) /\ Draws(m, pos, r, a, d, config, oracle)
              /\ Moves(b, r, -a, d)
      BY <1>3 DEF DrawEntry
    <2>2. BorrowEffect(m, pos, r, d) /\ SettlesOrUnlocked(pos, r.pos)
      BY <2>1 DEF Draws, Unlocked, SettlesOrUnlocked
    <2> QED BY <1>1, <2>1, <2>2, EffectEnters
  <1>4. CASE ReleaseEntry(b)
    <2>1. PICK m, r, a, d :
              /\ d \in Nat /\ AccruesTo(m) /\ Releases(m, pos, r, a, d, config, oracle)
              /\ Moves(b, r, a, -d)
      BY <1>4 DEF ReleaseEntry
    <2>2. BorrowEffect(m, pos, r, -d) /\ SettlesOrUnlocked(pos, r.pos)
      BY <2>1 DEF Releases, Unlocked, SettlesOrUnlocked
    <2> QED BY <1>1, <2>1, <2>2, EffectEnters
  <1>5. CASE SweepEntry(b)
    <2>1. PICK m, r :
              /\ AccruesTo(m) /\ Sweeps(m, pos, r, config, oracle) /\ Moves(b, r, 0, -pos.collateral)
      BY <1>5 DEF SweepEntry
    <2>2. BorrowEffect(m, pos, r, -pos.collateral) /\ SettlesOrUnlocked(pos, r.pos)
      BY <2>1 DEF Sweeps, SettlesOrUnlocked
    <2> QED BY <1>1, <1>2, <2>1, <2>2, EffectEnters
  <1>6. CASE SettleEntry(b)
    <2>1. PICK m, r :
              AccruesTo(m) /\ Settles(m, pos, r, oracle) /\ Moves(b, r, r.atoms, r.returned)
      BY <1>6 DEF SettleEntry
    <2>2. /\ r.returned \in Nat /\ BorrowEffect(m, pos, r, r.returned)
          /\ SettlesOrUnlocked(pos, r.pos)
      BY <2>1 DEF Settles, Sold, SettlesOrUnlocked
    <2> QED BY <1>1, <2>1, <2>2, EffectEnters
  <1>7. CASE WriteOffEntry(b)
    <2>1. PICK m, r :
              /\ AccruesTo(m) /\ WritesOff(m, pos, r) /\ Moves(b, r, 0, -pos.collateral)
      BY <1>7 DEF WriteOffEntry
    <2>2. /\ PositionEffect(m, pos, r, -pos.collateral) /\ SettlesOrUnlocked(pos, r.pos)
          /\ SocializeLoss(b)
      BY <1>7, <2>1 DEF WritesOff, Unlocked, SettlesOrUnlocked, WriteOffEntry
    <2> QED BY <1>1, <1>2, <2>1, <2>2 DEF Moves, PositionEntry
  <1> QED BY <1>3, <1>4, <1>5, <1>6, <1>7 DEF BorrowerEntry

-----------------------------------------------------------------------------
(***************************************************************************)
(* Types, locks and prices.                                                *)
(***************************************************************************)
BorrowPriceKept ==
    market.vault.borrow.atoms_per_share <= market'.vault.borrow.atoms_per_share

SupplyPriceKept ==
    market'.vault.supply.atoms_per_share > market.vault.supply.atoms_per_share - LowBits

LocksKept ==
    \A b \in Borrowers :
        capital_sweep_pending(borrow_positions[b]) =>
            LeftAloneOrSettled(borrow_positions[b], borrow_positions'[b])

LEMMA InitBase == Init => Base
  <1> SUFFICES ASSUME Init PROVE Base
    OBVIOUS
  <1>1. initialize \in Trackers /\ initialize.total_shares = 0 /\ initialize.atoms_per_share = UOne
    BY FixedPointAssumption DEF initialize, Trackers
  <1> DEFINE v == NewVault(0)
  <1>2. v \in Vaults /\ v.borrow = initialize
    BY <1>1 DEF NewVault, Vaults
  <1> HIDE DEF v
  <1>3. market.vault = v /\ market.collateral = 0 /\ market \in Markets
    BY <1>2 DEF Init, v, Markets
  <1>4. TypeOK
    <2>1. supply_positions \in [Suppliers -> SupplyPositions]
      BY DEF Init, SupplyPositions
    <2>2. borrow_positions \in [Borrowers -> BorrowPositions]
      BY DEF Init, BorrowPositions
    <2>3. oracle \in OracleQuotes
      BY ProgramAssumption DEF Init, Published, OracleQuotes
    <2>4. supply_tokens \in 0..SupplyMint /\ collateral_tokens \in 0..CollateralMint
          /\ config \in Configs /\ now \in Nat
      BY ProgramAssumption DEF Init
    <2> QED BY <1>3, <2>1, <2>2, <2>3, <2>4, Zenon DEF TypeOK, OracleQuotes
  <1>5. SweptIsWhole
    BY DEF Init, SweptIsWhole
  <1>6. ConfigOk
    BY DEF Init, ConfigOk, update_allowed, update_ltv_allowed
  <1>7. market.vault.borrow.atoms_per_share = UOne
    BY <1>1, <1>2, <1>3
  <1>8. IOne \in Nat /\ UOne \in Nat /\ UOne = IOne * LowBits
    BY ScalesDivide
  <1>9. DebtPriceOk
    BY <1>7, <1>8 DEF DebtPriceOk, Aligned
  <1> QED BY <1>4, <1>5, <1>6, <1>9 DEF Base

\* What is left to show of a step once the prices of the market m it started
\* from are known.
LEMMA PricesKept ==
    ASSUME Base, NEW m, AccruesTo(m), market' \in Markets,
           market'.vault.borrow.atoms_per_share = m.vault.borrow.atoms_per_share
    PROVE  /\ DebtPriceOk' /\ BorrowPriceKept
           /\ m.vault.supply.atoms_per_share <= market'.vault.supply.atoms_per_share => SupplyPriceKept
  <1>1. TypeOK /\ ConfigOk /\ DebtPriceOk
    BY DEF Base
  <1> DEFINE old == market.vault.supply.atoms_per_share
             mid == m.vault.supply.atoms_per_share
             new == market'.vault.supply.atoms_per_share
  <1>2. Accrued(market.vault, m.vault) /\ (config.fee <= UOne => old < mid + LowBits) /\ m \in Markets
    BY DEF AccruesTo
  <1>3. market \in Markets /\ config.fee \in Nat
    BY <1>1, ProgramAssumption DEF TypeOK
  <1>4. /\ old \in Nat /\ mid \in Nat /\ LowBits \in Nat
        /\ market.vault.borrow.atoms_per_share \in Nat /\ m.vault.borrow.atoms_per_share \in Nat
    BY <1>2, <1>3, MarketParts, ScalesDivide
  <1>5. new \in Nat
    BY MarketParts
  <1>6. config.fee <= UOne
    BY <1>1, <1>3, FeeAssumption, FixedPointAssumption DEF ConfigOk
  <1>7. BorrowPriceKept /\ Aligned(m.vault.borrow.atoms_per_share)
    BY <1>1, <1>2 DEF Accrued, DebtPriceOk, BorrowPriceKept
  <1>8. DebtPriceOk'
    <2>1. UOne <= market.vault.borrow.atoms_per_share /\ UOne \in Nat
      BY <1>1, FixedPointAssumption DEF DebtPriceOk
    <2>2. UOne <= market'.vault.borrow.atoms_per_share
      BY <1>4, <1>7, <2>1 DEF BorrowPriceKept
    <2> QED BY <1>7, <2>2 DEF DebtPriceOk, Aligned
  <1> HIDE DEF old, mid, new
  <1>9. mid <= new => new > old - LowBits
    BY <1>2, <1>4, <1>5, <1>6
  <1> QED BY <1>7, <1>8, <1>9 DEF old, mid, new, SupplyPriceKept

\* What is proved of every step.
BaseStep ==
    /\ Base' /\ BorrowPriceKept /\ LocksKept
    /\ SupplyPriceKept \/ \E b \in Borrowers : SocializeLoss(b)

LEMMA SupplierBase ==
    ASSUME Base, NEW s \in Suppliers, SupplierEntry(s)
    PROVE  BaseStep
  <1>1. PICK m, r :
            /\ AccruesTo(m) /\ SupplyEffect(m, supply_positions[s], r) /\ SetSupply(s, r)
            /\ supply_tokens' \in 0..SupplyMint /\ UNCHANGED <<collateral_tokens, environment>>
    BY DEF SupplierEntry
  <1>2. /\ market' = r.m /\ supply_positions' = [supply_positions EXCEPT ![s] = r.pos]
        /\ borrow_positions' = borrow_positions /\ config' = config
    BY <1>1 DEF SetSupply, environment
  <1>3. /\ r.m \in Markets /\ r.pos \in SupplyPositions /\ r.m.vault.borrow = m.vault.borrow
        /\ r.m.vault.supply.atoms_per_share = m.vault.supply.atoms_per_share
    BY <1>1 DEF SupplyEffect
  <1>4. TypeOK'
    <2>1. supply_positions' \in [Suppliers -> SupplyPositions]
      BY <1>2, <1>3 DEF Base, TypeOK
    <2> QED BY <1>1, <1>2, <1>3, <2>1, Zenon DEF Base, TypeOK, environment
  <1>5. SweptIsWhole' /\ LocksKept /\ ConfigOk'
    BY <1>2 DEF Base, SweptIsWhole, LocksKept, LeftAloneOrSettled, ConfigOk
  <1>6. m.vault.supply.atoms_per_share <= r.m.vault.supply.atoms_per_share
    BY <1>3, MarketParts
  <1>7. DebtPriceOk' /\ BorrowPriceKept /\ SupplyPriceKept
    BY <1>1, <1>2, <1>3, <1>6, PricesKept
  <1> QED BY <1>4, <1>5, <1>7 DEF Base, BaseStep

LEMMA PositionBase ==
    ASSUME Base, NEW b \in Borrowers, PositionEntry(b)
    PROVE  BaseStep
  <1>1. PICK m, r, d :
            /\ AccruesTo(m) /\ PositionEffect(m, borrow_positions[b], r, d)
            /\ SettlesOrUnlocked(borrow_positions[b], r.pos)
            /\ SocializeLoss(b) \/ r.m.vault.supply = m.vault.supply
            /\ SetBorrow(b, r)
            /\ supply_tokens' \in 0..SupplyMint /\ collateral_tokens' \in 0..CollateralMint
            /\ UNCHANGED environment
    BY DEF PositionEntry
  <1>2. /\ market' = r.m /\ borrow_positions' = [borrow_positions EXCEPT ![b] = r.pos]
        /\ supply_positions' = supply_positions /\ config' = config
    BY <1>1 DEF SetBorrow, environment
  <1>3. /\ r.m \in Markets /\ r.pos \in BorrowPositions
        /\ r.m.vault.borrow.atoms_per_share = m.vault.borrow.atoms_per_share
    BY <1>1 DEF PositionEffect
  <1>4. borrow_positions \in [Borrowers -> BorrowPositions]
    BY DEF Base, TypeOK
  <1>5. TypeOK'
    <2>1. borrow_positions' \in [Borrowers -> BorrowPositions]
      BY <1>2, <1>3, <1>4, SMTT(20)
    <2> QED BY <1>1, <1>2, <1>3, <2>1, Zenon DEF Base, TypeOK, environment
  <1>6. SweptIsWhole' /\ LocksKept
    BY <1>1, <1>2, <1>4 DEF Base, SweptIsWhole, LocksKept, LeftAloneOrSettled, SettlesOrUnlocked,
                      capital_sweep_pending
  <1>7. ConfigOk'
    BY <1>2 DEF Base, ConfigOk
  <1>8. r.m.vault.supply = m.vault.supply =>
            m.vault.supply.atoms_per_share <= r.m.vault.supply.atoms_per_share
    BY <1>3, MarketParts, SMTT(20)
  <1>9. DebtPriceOk' /\ BorrowPriceKept /\ (r.m.vault.supply = m.vault.supply => SupplyPriceKept)
    BY <1>1, <1>2, <1>3, <1>8, PricesKept
  <1> QED BY <1>1, <1>5, <1>6, <1>7, <1>9, Zenon DEF Base, BaseStep

LEMMA TreasuryBase ==
    ASSUME Base, TreasuryEntry
    PROVE  BaseStep
  <1>1. PICK m :
            /\ AccruesTo(m) /\ FeeEffect(m, market')
            /\ UNCHANGED <<positions, collateral_tokens, oracle, now>>
            /\ supply_tokens' \in 0..SupplyMint
            /\ \/ config' = config
               \/ config' \in Configs /\ update_allowed(config.unhealthy_ltv, config')
    BY SMTT(20) DEF TreasuryEntry
  <1>2. /\ market' \in Markets /\ market'.vault.borrow = m.vault.borrow
        /\ m.vault.supply.atoms_per_share <= market'.vault.supply.atoms_per_share
    BY <1>1 DEF FeeEffect
  <1>3. supply_positions' = supply_positions /\ borrow_positions' = borrow_positions
    BY <1>1 DEF positions
  <1>4. TypeOK'
    BY <1>1, <1>2, <1>3 DEF Base, TypeOK
  <1>5. SweptIsWhole' /\ LocksKept
    BY <1>3 DEF Base, SweptIsWhole, LocksKept, LeftAloneOrSettled
  <1>6. ConfigOk'
    BY <1>1 DEF Base, ConfigOk, update_allowed, update_ltv_allowed
  <1>7. DebtPriceOk' /\ BorrowPriceKept /\ SupplyPriceKept
    BY <1>1, <1>2, PricesKept
  <1> QED BY <1>4, <1>5, <1>6, <1>7 DEF Base, BaseStep

LEMMA IdleBase ==
    ASSUME Base, IdleEntry
    PROVE  BaseStep
  <1>1. /\ market' = market /\ supply_positions' = supply_positions
        /\ borrow_positions' = borrow_positions /\ config' = config
    BY DEF IdleEntry, positions
  <1>2. SweptIsWhole' /\ LocksKept /\ ConfigOk' /\ DebtPriceOk'
    BY <1>1 DEF Base, SweptIsWhole, LocksKept, LeftAloneOrSettled, ConfigOk, DebtPriceOk, Aligned
  <1>3. market \in Markets
    BY DEF Base, TypeOK
  <1>4. /\ market.vault.borrow.atoms_per_share \in Nat /\ market.vault.supply.atoms_per_share \in Nat
        /\ LowBits \in Nat \ {0}
    BY <1>3, MarketParts, ScalesDivide
  <1>5. BorrowPriceKept /\ SupplyPriceKept
    BY <1>1, <1>4 DEF BorrowPriceKept, SupplyPriceKept
  <1>6. TypeOK'
    BY <1>1 DEF Base, TypeOK, IdleEntry, OracleQuotes
  <1> QED BY <1>2, <1>5, <1>6 DEF Base, BaseStep

LEMMA EveryEntry ==
    ASSUME Base, Entry
    PROVE  BaseStep
  <1>1. \A b \in Borrowers : BorrowerEntry(b) => PositionEntry(b)
    BY EntryOnPosition DEF Base
  <1> QED BY <1>1, SupplierBase, PositionBase, TreasuryBase, IdleBase DEF Entry

-----------------------------------------------------------------------------
(***************************************************************************)
(* Sums.  Changing one value of a function changes its sum by as much.     *)
(***************************************************************************)
Units(f, S) == UNION {{x} \X (1..f[x]) : x \in S}

LEMMA UnitsFinite ==
    ASSUME NEW S, IsFiniteSet(S), NEW f, \A x \in S : f[x] \in Nat
    PROVE  IsFiniteSet(Units(f, S))
  <1> DEFINE Column(x) == {x} \X (1..f[x])
             T == {Column(x) : x \in S}
             col == [x \in S |-> Column(x)]
  <1>1. col \in Surjection(S, T)
    BY Zenon DEF Surjection
  <1>2. IsFiniteSet(T)
    BY <1>1, FS_Surjection
  <1>3. \A x \in S : IsFiniteSet(Column(x))
    <2> TAKE x \in S
    <2>1. f[x] \in Int /\ 1 \in Int
      OBVIOUS
    <2>2. IsFiniteSet(1..f[x])
      BY <2>1, FS_Interval
    <2>3. IsFiniteSet({x})
      BY FS_Singleton, Zenon
    <2> QED BY <2>2, <2>3, FS_Product, Zenon
  <1>4. \A c \in T : IsFiniteSet(c)
    BY <1>3
  <1> HIDE DEF T
  <1>5. IsFiniteSet(UNION T)
    BY <1>2, <1>4, FS_UNION
  <1> QED BY <1>5 DEF Units, T

LEMMA UnitsSplit ==
    ASSUME NEW S, IsFiniteSet(S), NEW f, \A y \in S : f[y] \in Nat, NEW x \in S
    PROVE  /\ Cardinality(Units(f, S)) = Cardinality(Units(f, S \ {x})) + f[x]
           /\ Cardinality(Units(f, S \ {x})) \in Nat
  <1> DEFINE rest == Units(f, S \ {x})
             column == {x} \X (1..f[x])
  <1>1. IsFiniteSet(S \ {x})
    BY FS_RemoveElement
  <1>2. IsFiniteSet(rest)
    BY <1>1, UnitsFinite
  <1>3. IsFiniteSet(column) /\ Cardinality(column) = f[x]
    <2>1. IsFiniteSet(1..f[x]) /\ Cardinality(1..f[x]) = f[x]
      BY FS_Interval
    <2>2. IsFiniteSet({x}) /\ Cardinality({x}) = 1
      BY FS_Singleton, Zenon
    <2> DEFINE interval == 1..f[x]
    <2> HIDE DEF interval
    <2>3. /\ IsFiniteSet({x} \X interval)
          /\ Cardinality({x} \X interval) = Cardinality({x}) * Cardinality(interval)
      BY <2>1, <2>2, FS_Product, Zenon DEF interval
    <2>4. f[x] \in Nat /\ 1 * f[x] = f[x]
      OBVIOUS
    <2> QED BY <2>1, <2>2, <2>3, <2>4 DEF interval
  <1>4. Units(f, S) = rest \cup column
    BY DEF Units
  <1>5. rest \cap column = {}
    BY DEF Units
  <1>6. Cardinality(rest \cap column) = 0
    BY <1>5, FS_EmptySet
  <1> HIDE DEF rest, column
  <1>7. Cardinality(rest \cup column) = Cardinality(rest) + Cardinality(column) - 0
    BY <1>2, <1>3, <1>6, FS_Union, Zenon
  <1>8. Cardinality(rest) \in Nat
    BY <1>2, FS_CardinalityType
  <1> QED BY <1>3, <1>4, <1>7, <1>8 DEF rest

\* f and g differ at x only.
DifferAt(S, f, g, x) ==
    /\ f \in [S -> Nat] /\ g \in [S -> Nat] /\ x \in S
    /\ \A y \in S \ {x} : g[y] = f[y]

LEMMA SumUpdate ==
    ASSUME NEW S, IsFiniteSet(S), NEW f, NEW g, NEW x, DifferAt(S, f, g, x)
    PROVE  SumOf(f) \in Nat /\ SumOf(g) \in Nat /\ SumOf(g) + f[x] = SumOf(f) + g[x]
  <1>1. SumOf(f) = Cardinality(Units(f, S)) /\ SumOf(g) = Cardinality(Units(g, S))
    BY DEF SumOf, Units, DifferAt
  <1>2. Units(g, S \ {x}) = Units(f, S \ {x})
    BY DEF Units, DifferAt
  <1>3. /\ Cardinality(Units(f, S)) = Cardinality(Units(f, S \ {x})) + f[x]
        /\ Cardinality(Units(g, S)) = Cardinality(Units(g, S \ {x})) + g[x]
        /\ Cardinality(Units(f, S \ {x})) \in Nat
    BY UnitsSplit DEF DifferAt
  <1>4. f[x] \in Nat /\ g[x] \in Nat
    BY DEF DifferAt
  <1> QED BY <1>1, <1>2, <1>3, <1>4

LEMMA SumOfZeros ==
    ASSUME NEW S, NEW f \in [S -> Nat], \A x \in S : f[x] = 0
    PROVE  SumOf(f) = 0
  <1>1. Units(f, S) = {}
    BY DEF Units
  <1> QED BY <1>1, FS_EmptySet DEF SumOf, Units

-----------------------------------------------------------------------------
(***************************************************************************)
(* The inductive invariant.  The conservation invariants are inductive     *)
(* together, except that settling a sweep overwrites the collateral of the *)
(* position: Base has it zero while the sweep is pending.                  *)
(***************************************************************************)
IInv == Base /\ SupplySharesConserved /\ BorrowSharesConserved /\ CollateralConserved

Conserved == SupplySharesConserved /\ BorrowSharesConserved /\ CollateralConserved

LEMMA InitOk == Init => IInv
  <1> SUFFICES ASSUME Init PROVE IInv
    OBVIOUS
  <1>1. Base
    BY InitBase, SMTT(20)
  <1>2. /\ market.vault.supply.total_shares = 0 /\ market.vault.borrow.total_shares = 0
        /\ market.vault.protocol_fee_shares = 0 /\ market.vault.curator_fee_shares = 0
        /\ market.collateral = 0
    BY DEF Init, NewVault, initialize
  <1>3. SupplierShares = 0
    <2> DEFINE f == [s \in Suppliers |-> supply_positions[s].shares]
    <2>1. f \in [Suppliers -> Nat] /\ \A s \in Suppliers : f[s] = 0
      BY DEF Init
    <2> QED BY <2>1, SumOfZeros, SMTT(20) DEF SupplierShares
  <1>4. BorrowerShares = 0
    <2> DEFINE f == [b \in Borrowers |-> borrow_positions[b].shares]
    <2>1. f \in [Borrowers -> Nat] /\ \A b \in Borrowers : f[b] = 0
      BY DEF Init
    <2> QED BY <2>1, SumOfZeros, SMTT(20) DEF BorrowerShares
  <1>5. DepositedCollateral = 0
    <2> DEFINE f == [b \in Borrowers |-> borrow_positions[b].collateral]
    <2>1. f \in [Borrowers -> Nat] /\ \A b \in Borrowers : f[b] = 0
      BY DEF Init
    <2> QED BY <2>1, SumOfZeros, SMTT(20) DEF DepositedCollateral
  <1>6. SupplySharesConserved /\ BorrowSharesConserved
    BY <1>2, <1>3, <1>4, SMTT(20) DEF SupplySharesConserved, BorrowSharesConserved
  <1>7. CollateralConserved
    BY <1>2, <1>5 DEF CollateralConserved, Init
  <1> QED BY <1>1, <1>6, <1>7 DEF IInv

LEMMA SuppliersChange ==
    ASSUME supply_positions \in [Suppliers -> SupplyPositions], NEW s \in Suppliers,
           NEW p \in SupplyPositions, supply_positions' = [supply_positions EXCEPT ![s] = p]
    PROVE  /\ SupplierShares \in Nat /\ SupplierShares' \in Nat
           /\ SupplierShares' + supply_positions[s].shares = SupplierShares + p.shares
  <1> DEFINE f == [x \in Suppliers |-> supply_positions[x].shares]
             g == [x \in Suppliers |-> supply_positions'[x].shares]
  <1>1. /\ f \in [Suppliers -> Nat] /\ g \in [Suppliers -> Nat]
        /\ f[s] = supply_positions[s].shares /\ g[s] = p.shares
    BY SMTT(20) DEF SupplyPositions
  <1>2. IsFiniteSet(Suppliers) /\ DifferAt(Suppliers, f, g, s)
    BY <1>1, ProgramAssumption DEF DifferAt
  <1>3. SupplierShares = SumOf(f) /\ SupplierShares' = SumOf(g)
    BY DEF SupplierShares
  <1> HIDE DEF f, g
  <1>4. SumOf(f) \in Nat /\ SumOf(g) \in Nat /\ SumOf(g) + f[s] = SumOf(f) + g[s]
    BY <1>2, SumUpdate
  <1> QED BY <1>1, <1>3, <1>4

LEMMA BorrowersChange ==
    ASSUME borrow_positions \in [Borrowers -> BorrowPositions], NEW b \in Borrowers,
           NEW p \in BorrowPositions, borrow_positions' = [borrow_positions EXCEPT ![b] = p]
    PROVE  /\ BorrowerShares \in Nat /\ BorrowerShares' \in Nat
           /\ BorrowerShares' + borrow_positions[b].shares = BorrowerShares + p.shares
           /\ DepositedCollateral \in Nat /\ DepositedCollateral' \in Nat
           /\ DepositedCollateral' + borrow_positions[b].collateral
                = DepositedCollateral + p.collateral
  <1>1. IsFiniteSet(Borrowers)
    BY ProgramAssumption
  <1>2. /\ BorrowerShares \in Nat /\ BorrowerShares' \in Nat
        /\ BorrowerShares' + borrow_positions[b].shares = BorrowerShares + p.shares
    <2> DEFINE f == [x \in Borrowers |-> borrow_positions[x].shares]
               g == [x \in Borrowers |-> borrow_positions'[x].shares]
    <2>1. /\ f \in [Borrowers -> Nat] /\ g \in [Borrowers -> Nat]
          /\ f[b] = borrow_positions[b].shares /\ g[b] = p.shares
      BY DEF BorrowPositions
    <2>2. DifferAt(Borrowers, f, g, b)
      BY <2>1 DEF DifferAt
    <2>3. BorrowerShares = SumOf(f) /\ BorrowerShares' = SumOf(g)
      BY DEF BorrowerShares
    <2> HIDE DEF f, g
    <2>4. SumOf(f) \in Nat /\ SumOf(g) \in Nat /\ SumOf(g) + f[b] = SumOf(f) + g[b]
      BY <1>1, <2>2, SumUpdate
    <2> QED BY <2>1, <2>3, <2>4
  <1>3. /\ DepositedCollateral \in Nat /\ DepositedCollateral' \in Nat
        /\ DepositedCollateral' + borrow_positions[b].collateral = DepositedCollateral + p.collateral
    <2> DEFINE f == [x \in Borrowers |-> borrow_positions[x].collateral]
               g == [x \in Borrowers |-> borrow_positions'[x].collateral]
    <2>1. /\ f \in [Borrowers -> Nat] /\ g \in [Borrowers -> Nat]
          /\ f[b] = borrow_positions[b].collateral /\ g[b] = p.collateral
      BY DEF BorrowPositions
    <2>2. DifferAt(Borrowers, f, g, b)
      BY <2>1 DEF DifferAt
    <2>3. DepositedCollateral = SumOf(f) /\ DepositedCollateral' = SumOf(g)
      BY DEF DepositedCollateral
    <2> HIDE DEF f, g
    <2>4. SumOf(f) \in Nat /\ SumOf(g) \in Nat /\ SumOf(g) + f[b] = SumOf(f) + g[b]
      BY <1>1, <2>2, SumUpdate
    <2> QED BY <2>1, <2>3, <2>4
  <1> QED BY <1>2, <1>3

LEMMA SuppliersAreNat ==
    ASSUME supply_positions \in [Suppliers -> SupplyPositions]
    PROVE  SupplierShares \in Nat
  <1> DEFINE f == [x \in Suppliers |-> supply_positions[x].shares]
  <1>1. f \in [Suppliers -> Nat] /\ IsFiniteSet(Suppliers)
    BY ProgramAssumption DEF SupplyPositions
  <1>2. SumOf(f) = Cardinality(Units(f, Suppliers)) /\ SupplierShares = SumOf(f)
    BY DEF SumOf, Units, SupplierShares
  <1> HIDE DEF f
  <1>3. IsFiniteSet(Units(f, Suppliers))
    BY <1>1, UnitsFinite
  <1> QED BY <1>2, <1>3, FS_CardinalityType

\* The supply shares that suppliers hold, read off the market m.
Held(m) == m.vault.supply.total_shares - FeeShareSum(m.vault)

LEMMA HeldIsInt ==
    ASSUME NEW m \in Markets
    PROVE  FeeShareSum(m.vault) \in Nat /\ Held(m) \in Int
  BY MarketParts, SMTT(20) DEF Held, FeeShareSum

\* Accrual, and whatever moves fee shares, leaves what suppliers hold.
LEMMA HeldKept ==
    ASSUME NEW m \in Markets, NEW n \in Markets,
           n.vault.supply.total_shares + FeeShareSum(m.vault)
             = m.vault.supply.total_shares + FeeShareSum(n.vault)
    PROVE  Held(n) = Held(m)
  BY HeldIsInt, MarketParts DEF Held

LEMMA SyncedConserved ==
    ASSUME IInv, NEW m, AccruesTo(m)
    PROVE  /\ m \in Markets /\ Held(m) = SupplierShares /\ Held(m) \in Int
           /\ m.vault.borrow.total_shares = BorrowerShares
           /\ m.collateral = DepositedCollateral /\ m.collateral = collateral_tokens
  <1>1. market \in Markets
    BY DEF IInv, Base, TypeOK
  <1>2. m \in Markets /\ m.collateral = market.collateral /\ Accrued(market.vault, m.vault)
    BY SMTT(20) DEF AccruesTo
  <1>3. m.vault.borrow.total_shares = BorrowerShares
        /\ m.collateral = DepositedCollateral /\ m.collateral = collateral_tokens
    BY <1>2 DEF IInv, BorrowSharesConserved, CollateralConserved, Accrued
  <1>4. market.vault.supply.total_shares =
            SupplierShares + market.vault.protocol_fee_shares + market.vault.curator_fee_shares
    BY DEF IInv, SupplySharesConserved
  <1>5. SupplierShares \in Int
    BY <1>1, SuppliersAreNat DEF IInv, Base, TypeOK
  <1>6. Held(market) = SupplierShares
    BY <1>1, <1>4, <1>5, MarketParts, SMTT(20) DEF Held, FeeShareSum
  <1>7. Held(m) = Held(market)
    BY <1>1, <1>2, HeldKept DEF Accrued
  <1> QED BY <1>2, <1>3, <1>6, <1>7, HeldIsInt

LEMMA HeldConserved ==
    ASSUME market' \in Markets, SupplierShares' \in Int, Held(market') = SupplierShares'
    PROVE  SupplySharesConserved'
  <1>1. /\ market'.vault.supply.total_shares \in Nat
        /\ market'.vault.protocol_fee_shares \in Nat /\ market'.vault.curator_fee_shares \in Nat
    BY MarketParts
  <1> QED BY <1>1 DEF SupplySharesConserved, Held, FeeShareSum

LEMMA SupplyStep ==
    ASSUME IInv, NEW s \in Suppliers, SupplierEntry(s)
    PROVE  Conserved'
  <1> DEFINE old == supply_positions[s]
  <1>1. PICK m, r :
            /\ AccruesTo(m) /\ SupplyEffect(m, old, r) /\ SetSupply(s, r)
            /\ UNCHANGED collateral_tokens
    BY DEF SupplierEntry
  <1>2. /\ m \in Markets /\ Held(m) = SupplierShares /\ Held(m) \in Int
        /\ m.vault.borrow.total_shares = BorrowerShares
        /\ m.collateral = DepositedCollateral /\ m.collateral = collateral_tokens
    BY <1>1, SyncedConserved
  <1>3. /\ market' = r.m /\ supply_positions' = [supply_positions EXCEPT ![s] = r.pos]
        /\ borrow_positions' = borrow_positions
    BY <1>1, SMTT(20) DEF SetSupply
  <1>4. /\ r.m \in Markets /\ r.pos \in SupplyPositions /\ r.m.collateral = m.collateral
        /\ r.m.vault.borrow = m.vault.borrow /\ FeeShareSum(r.m.vault) = FeeShareSum(m.vault)
        /\ r.m.vault.supply.total_shares + old.shares = m.vault.supply.total_shares + r.pos.shares
    BY <1>1, SMTT(20) DEF SupplyEffect, SameFeesAndClock, FeeShareSum
  <1>5. /\ supply_positions \in [Suppliers -> SupplyPositions]
        /\ old.shares \in Nat /\ r.pos.shares \in Nat
    BY <1>4 DEF IInv, Base, TypeOK, SupplyPositions
  <1>6. SupplySharesConserved'
    <2>1. SupplierShares' \in Nat /\ SupplierShares' + old.shares = SupplierShares + r.pos.shares
      BY <1>3, <1>4, <1>5, SuppliersChange, Zenon
    <2>2. Held(r.m) + old.shares = Held(m) + r.pos.shares /\ Held(r.m) \in Int
      BY <1>2, <1>4, <1>5, HeldIsInt, MarketParts, SMTT(20) DEF Held
    <2>3. /\ Held(m) = SupplierShares /\ Held(m) \in Int /\ SupplierShares' \in Int
          /\ old.shares \in Int /\ r.pos.shares \in Int
      BY <1>2, <1>5, <2>1
    <2>4. Held(r.m) = SupplierShares'
      BY ONLY <2>1, <2>2, <2>3
    <2> QED BY <1>3, <1>4, <2>1, <2>4, HeldConserved
  <1>7. BorrowerShares' = BorrowerShares /\ DepositedCollateral' = DepositedCollateral
    BY <1>3 DEF BorrowerShares, DepositedCollateral
  <1> QED BY <1>1, <1>2, <1>3, <1>4, <1>6, <1>7, Zenon
      DEF Conserved, BorrowSharesConserved, CollateralConserved

LEMMA PositionStep ==
    ASSUME IInv, NEW b \in Borrowers, PositionEntry(b)
    PROVE  Conserved'
  <1> DEFINE old == borrow_positions[b]
  <1>1. PICK m, r, d :
            /\ d \in Int /\ AccruesTo(m) /\ PositionEffect(m, old, r, d) /\ SetBorrow(b, r)
            /\ collateral_tokens' = collateral_tokens + d
    BY DEF PositionEntry
  <1>2. /\ m \in Markets /\ Held(m) = SupplierShares /\ Held(m) \in Int
        /\ m.vault.borrow.total_shares = BorrowerShares
        /\ m.collateral = DepositedCollateral /\ m.collateral = collateral_tokens
    BY <1>1, SyncedConserved
  <1>3. /\ market' = r.m /\ borrow_positions' = [borrow_positions EXCEPT ![b] = r.pos]
        /\ supply_positions' = supply_positions
    BY <1>1, SMTT(20) DEF SetBorrow
  <1>4. /\ r.m \in Markets /\ r.pos \in BorrowPositions
        /\ r.m.collateral = m.collateral + d /\ r.pos.collateral = old.collateral + d
        /\ r.m.vault.supply.total_shares = m.vault.supply.total_shares
        /\ FeeShareSum(r.m.vault) = FeeShareSum(m.vault)
        /\ r.m.vault.borrow.total_shares + old.shares = m.vault.borrow.total_shares + r.pos.shares
    BY <1>1 DEF PositionEffect, SameFeesAndClock, FeeShareSum
  <1>5. /\ borrow_positions \in [Borrowers -> BorrowPositions] /\ old \in BorrowPositions
    BY SMTT(20) DEF IInv, Base, TypeOK
  <1>6. /\ old.shares \in Nat /\ old.collateral \in Nat /\ r.pos.shares \in Nat
        /\ r.m.vault.borrow.total_shares \in Nat
    BY <1>4, <1>5, MarketParts DEF BorrowPositions
  <1>7. /\ BorrowerShares \in Nat /\ BorrowerShares' \in Nat
        /\ BorrowerShares' + old.shares = BorrowerShares + r.pos.shares
        /\ DepositedCollateral \in Nat /\ DepositedCollateral' \in Nat
        /\ DepositedCollateral' + old.collateral = DepositedCollateral + r.pos.collateral
    BY <1>3, <1>4, <1>5, BorrowersChange, Zenon
  <1>8. SupplySharesConserved'
    <2>1. SupplierShares' = SupplierShares
      BY <1>3 DEF SupplierShares
    <2>2. Held(r.m) = Held(m)
      BY <1>4, SMTT(20) DEF Held
    <2> QED BY <1>2, <1>3, <1>4, <2>1, <2>2, HeldConserved
  <1>9. r.m.vault.borrow.total_shares = BorrowerShares'
    BY <1>2, <1>4, <1>6, <1>7
  <1>10. collateral_tokens' = r.m.collateral
    BY <1>1, <1>2, <1>4, Zenon
  <1>11. r.m.collateral = DepositedCollateral'
    <2>1. m.collateral = DepositedCollateral /\ d \in Int
      BY <1>1, <1>2
    <2> QED BY <1>4, <1>6, <1>7, <2>1
  <1> QED BY <1>3, <1>8, <1>9, <1>10, <1>11, SMTT(20) DEF Conserved, BorrowSharesConserved, CollateralConserved

LEMMA TreasuryMarketStep ==
    ASSUME IInv, TreasuryEntry
    PROVE  Conserved'
  <1>1. PICK m :
            AccruesTo(m) /\ FeeEffect(m, market') /\ UNCHANGED <<positions, collateral_tokens>>
    BY DEF TreasuryEntry
  <1>2. /\ m \in Markets /\ Held(m) = SupplierShares /\ Held(m) \in Int
        /\ m.vault.borrow.total_shares = BorrowerShares
        /\ m.collateral = DepositedCollateral /\ m.collateral = collateral_tokens
    BY <1>1, SyncedConserved, SMTT(20)
  <1>3. /\ SupplierShares' = SupplierShares /\ BorrowerShares' = BorrowerShares
        /\ DepositedCollateral' = DepositedCollateral
    BY <1>1 DEF positions, SupplierShares, BorrowerShares, DepositedCollateral
  <1>4. /\ market' \in Markets /\ market'.collateral = m.collateral
        /\ market'.vault.borrow = m.vault.borrow
        /\ market'.vault.supply.total_shares + FeeShareSum(m.vault)
             = m.vault.supply.total_shares + FeeShareSum(market'.vault)
    BY <1>1 DEF FeeEffect
  <1>5. Held(market') = Held(m)
    BY <1>2, <1>4, HeldKept
  <1>6. SupplySharesConserved'
    BY <1>2, <1>3, <1>4, <1>5, HeldConserved
  <1> QED BY <1>1, <1>2, <1>3, <1>4, <1>6, Zenon
      DEF Conserved, BorrowSharesConserved, CollateralConserved

LEMMA IdleStep ==
    ASSUME IInv, IdleEntry
    PROVE  Conserved'
  <1>1. /\ market' = market /\ supply_positions' = supply_positions
        /\ borrow_positions' = borrow_positions /\ collateral_tokens' = collateral_tokens
    BY DEF IdleEntry, positions
  <1>2. SupplySharesConserved'
    BY <1>1 DEF IInv, SupplySharesConserved, SupplierShares
  <1>3. BorrowSharesConserved'
    BY <1>1 DEF IInv, BorrowSharesConserved, BorrowerShares
  <1>4. CollateralConserved'
    BY <1>1 DEF IInv, CollateralConserved, DepositedCollateral
  <1> QED BY <1>2, <1>3, <1>4 DEF Conserved

LEMMA EntriesConserve ==
    ASSUME IInv, Entry
    PROVE  IInv'
  <1>1. TypeOK /\ Base
    BY DEF IInv, Base
  <1>2. Base'
    BY <1>1, EveryEntry DEF BaseStep
  <1>3. \A b \in Borrowers : BorrowerEntry(b) => PositionEntry(b)
    BY <1>1, EntryOnPosition
  <1>4. Conserved'
    BY <1>3, SupplyStep, PositionStep, TreasuryMarketStep, IdleStep DEF Entry
  <1> QED BY <1>2, <1>4 DEF IInv, Conserved
=============================================================================
