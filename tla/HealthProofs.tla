---------------------------- MODULE HealthProofs ----------------------------
(***************************************************************************)
(* What the entries of ProgramEffects do to the health of a position: no   *)
(* entry leaves debt without collateral, and none makes a healthy position *)
(* liquidatable.                                                           *)
(***************************************************************************)
EXTENDS ProgramEffects, VaultProofs

\* The feeds quote no token so low that one atom of it, at the bound of the
\* quote the program uses, is less than one bit of an IFixedPoint: 10^decimals
\* bits for a whole token, which for 8 decimals is less than 10^-6.
AtomsHaveValue ==
    /\ \A q \in Quotes.supply : ValidRate(q) => SupplyUnit <= upper_bound_rate(q)
    /\ \A q \in Quotes.collateral : ValidRate(q) => CollateralUnit <= lower_bound_rate(q)

\* What a position owes is a u64.
DebtFits ==
    \A m \in Synced : \A b \in Borrowers :
        shares_to_atoms_up(m.vault.borrow, borrow_positions[b].shares) # {}

\* At quotes that an instruction accepts.
LEMMA QuotesAreFair ==
    ASSUME TypeOK, AtomsHaveValue, QuotesPublished, NEW c, OraclesValid(c)
    PROVE  FairQuotes(oracle)
  <1>1. ValidRate(oracle.supply) /\ ValidRate(oracle.collateral)
    BY DEF OraclesValid, load_and_validate
  <1>2. /\ oracle.supply.rate \in Nat /\ oracle.supply.confidence \in Nat
        /\ oracle.collateral.rate \in Nat /\ oracle.collateral.confidence \in Nat
    BY DEF TypeOK
  <1>3. /\ lower_bound_rate(oracle.collateral) \in Nat \ {0}
        /\ upper_bound_rate(oracle.supply) \in Nat \ {0}
    BY <1>1, <1>2 DEF ValidRate, lower_bound_rate, upper_bound_rate
  <1>4. SupplyUnit <= upper_bound_rate(oracle.supply)
    <2>1. PICK q \in Quotes.supply, t \in Nat : oracle.supply = Published(q, t)
      BY DEF QuotesPublished
    <2>2. oracle.supply.rate = q.rate /\ oracle.supply.confidence = q.confidence
      BY <2>1 DEF Published
    <2>3. ValidRate(q) /\ upper_bound_rate(q) = upper_bound_rate(oracle.supply)
      BY <1>1, <2>2 DEF ValidRate, upper_bound_rate
    <2> QED BY <2>3 DEF AtomsHaveValue
  <1>5. CollateralUnit <= lower_bound_rate(oracle.collateral)
    <2>1. PICK q \in Quotes.collateral, t \in Nat : oracle.collateral = Published(q, t)
      BY DEF QuotesPublished
    <2>2. oracle.collateral.rate = q.rate /\ oracle.collateral.confidence = q.confidence
      BY <2>1 DEF Published
    <2>3. ValidRate(q) /\ lower_bound_rate(q) = lower_bound_rate(oracle.collateral)
      BY <1>1, <2>2 DEF ValidRate, lower_bound_rate
    <2> QED BY <2>3 DEF AtomsHaveValue
  <1> QED BY <1>3, <1>4, <1>5 DEF FairQuotes

-----------------------------------------------------------------------------
(***************************************************************************)
(* What the instructions on a position know of it.                         *)
(***************************************************************************)
BackedPosition(pos) == pos.shares > 0 => pos.collateral + pos.swept > 0

\* A health check on the outcome is enough.
LEMMA CheckedIsBacked ==
    ASSUME FairQuotes(oracle), Base, NEW m, AccruesTo(m), NEW r, r.m \in Markets, r.pos \in BorrowPositions,
           r.m.vault.borrow.atoms_per_share = m.vault.borrow.atoms_per_share,
           NEW ltv, LtvNotAbove(r.m, r.pos, oracle, ltv)
    PROVE  BackedPosition(r.pos)
  <1>1. /\ UOne <= market.vault.borrow.atoms_per_share
        /\ market.vault.borrow.atoms_per_share <= m.vault.borrow.atoms_per_share
        /\ m \in Markets /\ market \in Markets
    BY DEF Base, TypeOK, DebtPriceOk, AccruesTo, Accrued
  <1>2. market.vault.borrow.atoms_per_share \in Nat /\ m.vault.borrow.atoms_per_share \in Nat
    BY <1>1 DEF Markets, Vaults, Trackers
  <1>3. UOne <= r.m.vault.borrow.atoms_per_share
    BY <1>1, <1>2, FixedPointAssumption
  <1>4. r.pos.shares # 0 => r.pos.collateral # 0
    BY <1>3, RatedIsBacked
  <1> QED BY <1>4, PositionAtoms DEF BackedPosition

\* An instruction on b's position, from the accrued market m to the outcome r:
\* it changes neither the price of the debt nor the clock.
Touches(b, m, r) ==
    /\ AccruesTo(m) /\ SetBorrow(b, r) /\ UNCHANGED environment /\ OraclesValid(config)
    /\ r.m \in Markets /\ r.m.vault.last_update = m.vault.last_update
    /\ r.m.vault.borrow.atoms_per_share = m.vault.borrow.atoms_per_share

\* What the instruction knows of the health of the position: it was checked
\* against max_ltv, it can only have improved, it was unhealthy before, or
\* there is no debt left.
Checked(r) == LtvNotAbove(r.m, r.pos, oracle, config.max_ltv)
Eased(pos, r) == r.pos.shares <= pos.shares /\ pos.collateral <= r.pos.collateral
WasUnhealthy(m, pos) == \E h \in borrow_position_health(m, pos, oracle) : ~(h.ltv < config.unhealthy_ltv)

Vetted(m, pos, r) ==
    /\ r.pos \in BorrowPositions
    /\ Checked(r) \/ Eased(pos, r) \/ WasUnhealthy(m, pos) \/ r.pos.shares = 0

LEMMA BorrowTouches ==
    ASSUME NEW b, NEW m, AccruesTo(m), NEW pos, NEW r, NEW d, BorrowEffect(m, pos, r, d),
           NEW atoms, NEW n, Moves(b, r, atoms, n)
    PROVE  Touches(b, m, r) /\ r.pos \in BorrowPositions /\ r.pos.collateral = pos.collateral + d
  <1>1. SetBorrow(b, r) /\ UNCHANGED environment /\ OraclesValid(config)
    BY DEF Moves
  <1>2. /\ r.m \in Markets /\ r.pos \in BorrowPositions /\ r.m.vault.last_update = m.vault.last_update
        /\ r.m.vault.borrow.atoms_per_share = m.vault.borrow.atoms_per_share
        /\ r.pos.collateral = pos.collateral + d
    BY DEF BorrowEffect, SameFeesAndClock
  <1> QED BY <1>1, <1>2 DEF Touches

LEMMA DrawIsVetted ==
    ASSUME Base, FairQuotes(oracle), NEW b, borrow_positions[b] \in BorrowPositions,
           BackedPosition(borrow_positions[b]), DrawEntry(b)
    PROVE  \E m, r : Touches(b, m, r) /\ Vetted(m, borrow_positions[b], r) /\ BackedPosition(r.pos)
  <1> DEFINE pos == borrow_positions[b]
  <1>1. PICK m, r, a, d :
            /\ d \in Nat /\ AccruesTo(m)
            /\ Draws(m, pos, r, a, d, config, oracle) /\ Moves(b, r, -a, d)
    BY DEF DrawEntry
  <1>2. /\ BorrowEffect(m, pos, r, d) /\ pos.swept = 0
        /\ r.pos.shares = pos.shares \/ Checked(r)
    BY <1>1 DEF Draws, Unlocked, Checked
  <1>3. Touches(b, m, r) /\ r.pos \in BorrowPositions /\ r.pos.collateral = pos.collateral + d
    BY <1>1, <1>2, BorrowTouches
  <1>4. ASSUME r.pos.shares = pos.shares PROVE Eased(pos, r) /\ BackedPosition(r.pos)
    BY <1>1, <1>2, <1>3, <1>4, PositionAtoms, SMTT(20) DEF Eased, BackedPosition
    <1>5. ASSUME Checked(r) PROVE BackedPosition(r.pos)
    BY <1>1, <1>3, <1>5, CheckedIsBacked DEF Checked, Touches
<1> QED BY <1>2, <1>3, <1>4, <1>5 DEF Vetted

LEMMA ReleaseIsVetted ==
    ASSUME Base, FairQuotes(oracle), NEW b, borrow_positions[b] \in BorrowPositions,
           BackedPosition(borrow_positions[b]), ReleaseEntry(b)
    PROVE  \E m, r : Touches(b, m, r) /\ Vetted(m, borrow_positions[b], r) /\ BackedPosition(r.pos)
  <1> DEFINE pos == borrow_positions[b]
  <1>1. PICK m, r, a, d :
            /\ d \in Nat /\ AccruesTo(m)
            /\ Releases(m, pos, r, a, d, config, oracle) /\ Moves(b, r, a, -d)
    BY DEF ReleaseEntry
  <1>2. /\ BorrowEffect(m, pos, r, -d) /\ r.pos.shares <= pos.shares /\ pos.swept = 0
        /\ d = 0 \/ Checked(r) \/ WasUnhealthy(m, pos)
        /\ d = 0 \/ \E ltv : LtvNotAbove(r.m, r.pos, oracle, ltv)
    BY <1>1 DEF Releases, Unlocked, Checked, Liquidated, WasUnhealthy
  <1>3. Touches(b, m, r) /\ r.pos \in BorrowPositions /\ r.pos.collateral = pos.collateral + -d
    BY <1>1, <1>2, BorrowTouches
  <1>4. ASSUME d = 0 PROVE Eased(pos, r) /\ BackedPosition(r.pos)
    <2>1. r.pos.collateral = pos.collateral
      BY <1>3, <1>4, PositionAtoms
    <2> QED BY <1>2, <1>3, <2>1, PositionAtoms DEF Eased, BackedPosition
    <1>5. ASSUME NEW ltv, LtvNotAbove(r.m, r.pos, oracle, ltv) PROVE BackedPosition(r.pos)
    BY <1>1, <1>3, <1>5, CheckedIsBacked DEF Touches
<1> QED BY <1>2, <1>3, <1>4, <1>5 DEF Vetted

LEMMA SweepIsVetted ==
    ASSUME NEW b, borrow_positions[b] \in BorrowPositions, BackedPosition(borrow_positions[b]),
           config.unhealthy_ltv \in Nat, FairQuotes(oracle), SweepEntry(b)
    PROVE  \E m, r : Touches(b, m, r) /\ Vetted(m, borrow_positions[b], r) /\ BackedPosition(r.pos)
  <1> DEFINE pos == borrow_positions[b]
  <1>1. PICK m, r :
            AccruesTo(m) /\ Sweeps(m, pos, r, config, oracle) /\ Moves(b, r, 0, -pos.collateral)
    BY DEF SweepEntry
  <1>2. PICK h \in borrow_position_health(m, pos, oracle) : config.unhealthy_ltv <= h.ltv
    BY <1>1 DEF Sweeps
  <1>3. h.ltv \in Nat
    BY <1>1, LtvIsNat DEF AccruesTo
  <1>4. WasUnhealthy(m, pos)
    BY <1>2, <1>3 DEF WasUnhealthy
  <1>5. Touches(b, m, r) /\ r.pos \in BorrowPositions
    BY <1>1, BorrowTouches DEF Sweeps
    <1>6. BackedPosition(r.pos)
    <2>1. /\ pos.swept = 0 /\ r.pos.swept = pos.collateral
          /\ r.pos.collateral = 0 /\ r.pos.shares = pos.shares
      BY <1>1 DEF Sweeps
    <2> QED BY <2>1, PositionAtoms DEF BackedPosition
<1> QED BY <1>4, <1>5, <1>6 DEF Vetted

LEMMA SettleTouches ==
    ASSUME Base, FairQuotes(oracle), NEW b, SettleEntry(b)
    PROVE  borrow_positions[b].swept # 0 /\ \E m, r : Touches(b, m, r) /\ BackedPosition(r.pos)
  <1> DEFINE pos == borrow_positions[b]
  <1>1. PICK m, r :
            AccruesTo(m) /\ Settles(m, pos, r, oracle) /\ Moves(b, r, r.atoms, r.returned)
    BY DEF SettleEntry
  <1>2. /\ pos.swept # 0 /\ BorrowEffect(m, pos, r, r.returned)
        /\ \E ltv : LtvNotAbove(r.m, r.pos, oracle, ltv)
    BY <1>1 DEF Settles
  <1>3. Touches(b, m, r) /\ r.pos \in BorrowPositions
    BY <1>1, <1>2, BorrowTouches
    <1>4. BackedPosition(r.pos)
    BY <1>1, <1>2, <1>3, CheckedIsBacked DEF Touches
<1> QED BY <1>2, <1>3, <1>4

LEMMA WriteOffIsVetted ==
    ASSUME NEW b, WriteOffEntry(b)
    PROVE  \E m, r : Touches(b, m, r) /\ Vetted(m, borrow_positions[b], r) /\ BackedPosition(r.pos)
  <1> DEFINE pos == borrow_positions[b]
  <1>1. PICK m, r :
            AccruesTo(m) /\ WritesOff(m, pos, r) /\ Moves(b, r, 0, -pos.collateral)
    BY DEF WriteOffEntry
  <1>2. SetBorrow(b, r) /\ UNCHANGED environment /\ OraclesValid(config)
    BY <1>1 DEF Moves
  <1>3. /\ r.m \in Markets /\ r.pos \in BorrowPositions /\ r.m.vault.last_update = m.vault.last_update
        /\ r.m.vault.borrow.atoms_per_share = m.vault.borrow.atoms_per_share
        /\ r.pos.shares = 0
    BY <1>1 DEF WritesOff, PositionEffect, SameFeesAndClock
  <1> QED BY <1>1, <1>2, <1>3 DEF Touches, Vetted, BackedPosition

LEMMA BorrowersAreVetted ==
    ASSUME AtomsHaveValue, Base, QuotesPublished, DebtIsBacked, NEW b \in Borrowers, BorrowerEntry(b)
    PROVE  /\ FairQuotes(oracle)
           /\ \E m, r : /\ Touches(b, m, r) /\ BackedPosition(r.pos)
                        /\ borrow_positions[b].swept # 0 \/ Vetted(m, borrow_positions[b], r)
  <1>1. /\ borrow_positions[b] \in BorrowPositions /\ config.unhealthy_ltv \in Nat
        /\ BackedPosition(borrow_positions[b])
    BY ProgramAssumption DEF Base, TypeOK, DebtIsBacked, BackedPosition
  <1>2. OraclesValid(config)
    BY DEF BorrowerEntry, DrawEntry, ReleaseEntry, SweepEntry, SettleEntry, WriteOffEntry, Moves
  <1>3. FairQuotes(oracle)
    BY <1>2, QuotesAreFair DEF Base
  <1>4. CASE DrawEntry(b)
    BY <1>1, <1>3, <1>4, DrawIsVetted
  <1>5. CASE ReleaseEntry(b)
    BY <1>1, <1>3, <1>5, ReleaseIsVetted
  <1>6. CASE SweepEntry(b)
    BY <1>1, <1>3, <1>6, SweepIsVetted
  <1>7. CASE SettleEntry(b)
    BY <1>3, <1>7, SettleTouches
  <1>8. CASE WriteOffEntry(b)
    BY <1>3, <1>8, WriteOffIsVetted
  <1> QED BY <1>4, <1>5, <1>6, <1>7, <1>8 DEF BorrowerEntry

LEMMA InitBacked ==
    ASSUME Init
    PROVE  QuotesPublished /\ DebtIsBacked
  <1>1. QuotesPublished
    BY DEF Init, QuotesPublished
  <1>2. DebtIsBacked
    BY DEF Init, DebtIsBacked
  <1> QED BY <1>1, <1>2

LEMMA EntriesStayBacked ==
    ASSUME AtomsHaveValue, Base, QuotesPublished, DebtIsBacked, Entry
    PROVE  QuotesPublished' /\ DebtIsBacked'
  <1>1. borrow_positions \in [Borrowers -> BorrowPositions]
    BY DEF Base, TypeOK
  <1>2. ASSUME NEW b \in Borrowers, BorrowerEntry(b) PROVE QuotesPublished' /\ DebtIsBacked'
    <2>1. PICK m, r : Touches(b, m, r) /\ BackedPosition(r.pos)
      BY <1>2, BorrowersAreVetted
    <2>2. borrow_positions' = [borrow_positions EXCEPT ![b] = r.pos] /\ oracle' = oracle
      BY <2>1 DEF Touches, SetBorrow, environment
    <2>3. DebtIsBacked'
      BY <1>1, <2>1, <2>2 DEF DebtIsBacked, BackedPosition
    <2> QED BY <2>2, <2>3 DEF QuotesPublished
  <1>3. ASSUME borrow_positions' = borrow_positions, oracle' = oracle PROVE QuotesPublished' /\ DebtIsBacked'
    BY <1>3 DEF QuotesPublished, DebtIsBacked
  <1>4. ASSUME NEW s \in Suppliers, SupplierEntry(s) PROVE borrow_positions' = borrow_positions /\ oracle' = oracle
    BY <1>4 DEF SupplierEntry, SetSupply, environment
  <1>5. ASSUME TreasuryEntry PROVE borrow_positions' = borrow_positions /\ oracle' = oracle
    BY <1>5 DEF TreasuryEntry, positions
  <1>6. ASSUME IdleEntry PROVE QuotesPublished' /\ DebtIsBacked'
    BY <1>6 DEF IdleEntry, positions, DebtIsBacked
  <1> QED BY <1>2, <1>3, <1>4, <1>5, <1>6 DEF Entry

-----------------------------------------------------------------------------
(***************************************************************************)
(* Health survives every entry.                                            *)
(***************************************************************************)

\* The market has accrued for now: what liquidate would find is its own health.
LEMMA FoundUnhealthy ==
    ASSUME Base, NEW m, AccruesTo(m), market' \in Markets,
           market'.vault.last_update = m.vault.last_update,
           oracle' = oracle, now' = now, NEW b \in Borrowers, Unhealthy(b)'
    PROVE  \E h \in borrow_position_health(market', borrow_positions'[b], oracle) :
               h.ltv >= config'.unhealthy_ltv
  <1>1. now \in Nat /\ m \in Markets /\ now <= m.vault.last_update
    BY DEF Base, TypeOK, AccruesTo
  <1>2. m.vault.last_update \in Nat
    BY <1>1 DEF Markets, Vaults
  <1>3. ~(now' > market'.vault.last_update)
    BY <1>1, <1>2
  <1>4. [market' EXCEPT !.vault = market'.vault] = market'
    BY DEF Markets
  <1>5. \A x \in Synced' : x = market'
    BY <1>3, <1>4 DEF Synced, sync_clock
  <1> QED BY <1>5 DEF Unhealthy

\* The limit on loan-to-value is lowered by no entry.
LimitKept ==
    \/ config' = config
    \/ FairQuotes(oracle) /\ config' \in Configs /\ config.unhealthy_ltv <= config'.unhealthy_ltv

\* A position that an entry does not change.
LEMMA UntouchedHealth ==
    ASSUME Base, NEW m, AccruesTo(m), market' \in Markets,
           market'.vault.last_update = m.vault.last_update,
           market'.vault.borrow.atoms_per_share = m.vault.borrow.atoms_per_share,
           oracle' = oracle, now' = now, LimitKept,
           NEW b \in Borrowers, borrow_positions'[b] = borrow_positions[b], Unhealthy(b)'
    PROVE  Unhealthy(b)
  <1> DEFINE pos == borrow_positions[b]
  <1>1. PICK h \in borrow_position_health(market', pos, oracle) : h.ltv >= config'.unhealthy_ltv
    BY FoundUnhealthy
  <1>2. h \in borrow_position_health(m, pos, oracle)
    BY <1>1, SameHealth, SMTT(20)
  <1>3. m \in Synced /\ m \in Markets
    BY DEF AccruesTo
  <1>4. ASSUME FairQuotes(oracle), config' \in Configs, config.unhealthy_ltv <= config'.unhealthy_ltv
        PROVE  h.ltv >= config.unhealthy_ltv
    <2>1. config.unhealthy_ltv \in Nat /\ config'.unhealthy_ltv \in Nat
      BY <1>4, ProgramAssumption DEF Base, TypeOK
    <2>2. h.ltv \in Nat
      BY <1>2, <1>3, <1>4, LtvIsNat DEF Base, TypeOK
    <2> QED BY <1>1, <1>4, <2>1, <2>2
  <1>5. h.ltv >= config.unhealthy_ltv
    BY <1>1, <1>4 DEF LimitKept
  <1> QED BY <1>2, <1>3, <1>5 DEF Unhealthy

\* An instruction on b's own position: what it knows of the health bounds the
\* health after it.
LEMMA OwnHealth ==
    ASSUME Base, DebtIsBacked, DebtFits, FairQuotes(oracle), NEW b \in Borrowers,
           ~capital_sweep_pending(borrow_positions[b]), Unhealthy(b)',
           NEW m, NEW r, Touches(b, m, r), Vetted(m, borrow_positions[b], r)
    PROVE  Unhealthy(b)
  <1> DEFINE pos == borrow_positions[b]
  <1>1. /\ pos \in BorrowPositions /\ pos.shares \in Nat /\ pos.collateral \in Nat /\ pos.swept = 0
        /\ borrow_positions \in [Borrowers -> BorrowPositions]
    BY PositionAtoms DEF Base, TypeOK, capital_sweep_pending
  <1>2. config.unhealthy_ltv \in Nat /\ config.max_ltv \in Nat /\ config.max_ltv < config.unhealthy_ltv
    BY ProgramAssumption, SMTT(20) DEF Base, TypeOK, ConfigOk
  <1>3. /\ m \in Markets /\ m \in Synced /\ AccruesTo(m)
        /\ r.m \in Markets /\ r.pos \in BorrowPositions /\ r.m.vault.last_update = m.vault.last_update
        /\ r.m.vault.borrow.atoms_per_share = m.vault.borrow.atoms_per_share
    BY SMTT(20) DEF Touches, Vetted, AccruesTo
  <1>4. PICK h \in borrow_position_health(r.m, r.pos, oracle) : h.ltv >= config.unhealthy_ltv
    <2>1. /\ market' = r.m /\ borrow_positions'[b] = r.pos
          /\ oracle' = oracle /\ config' = config /\ now' = now
      BY <1>1 DEF Touches, SetBorrow, environment
    <2> QED BY <1>3, <2>1, FoundUnhealthy, SMTT(20)
  <1>5. h.ltv \in Nat
    BY <1>3, <1>4, LtvIsNat
  <1>6. CASE Checked(r)
    <2>1. h.ltv <= config.max_ltv
      BY <1>4, <1>6, OneLtv, SMTT(20) DEF Checked
    <2> QED BY <1>2, <1>4, <1>5, <2>1
  <1>7. CASE Eased(pos, r)
    <2>1. pos.shares # 0 => pos.collateral # 0
      BY <1>1 DEF DebtIsBacked
    <2>2. shares_to_atoms_up(m.vault.borrow, pos.shares) # {}
      BY <1>3 DEF DebtFits
    <2>3. r.pos.shares <= pos.shares /\ pos.collateral <= r.pos.collateral /\ h.ltv # 0
      BY <1>2, <1>4, <1>5, <1>7 DEF Eased
    <2>4. PICK k \in borrow_position_health(m, pos, oracle) :
              h.ltv \in Nat /\ k.ltv \in Nat /\ h.ltv <= k.ltv
      BY <1>1, <1>3, <2>1, <2>2, <2>3, EasedHealth, Zenon
    <2>5. k.ltv >= config.unhealthy_ltv
      BY <1>2, <1>4, <2>4, SMTT(20)
    <2> QED BY <1>3, <2>4, <2>5 DEF Unhealthy
  <1>8. CASE WasUnhealthy(m, pos)
    <2>1. PICK k \in borrow_position_health(m, pos, oracle) : ~(k.ltv < config.unhealthy_ltv)
      BY <1>8, SMTT(20) DEF WasUnhealthy
    <2>2. k.ltv \in Nat
      BY <1>1, <1>3, <2>1, LtvIsNat, SMTT(20)
    <2>3. k.ltv >= config.unhealthy_ltv
      BY <1>2, <2>1, <2>2
    <2> QED BY <1>3, <2>1, <2>3, SMTT(20) DEF Unhealthy
  <1>9. CASE r.pos.shares = 0
    <2>1. PICK c \in shares_to_atoms_up(r.m.vault.borrow, 0) : Rated(oracle, c, r.pos.collateral, h.ltv)
      BY <1>4, <1>9, HealthIs, SMTT(20) DEF borrow_position_health
    <2>2. r.m.vault.borrow \in Trackers
      BY <1>3, SMTT(20) DEF Markets, Vaults
    <2>3. c = 0
      BY <2>1, <2>2, AtomsOwed, SMTT(20)
    <2>4. h.ltv = 0
      BY <2>1, <2>3, Values DEF Rated
    <2> QED BY <1>2, <1>4, <2>4, SMTT(20)
  <1> QED BY <1>6, <1>7, <1>8, <1>9 DEF Vetted

LEMMA EntriesKeepHealth ==
    ASSUME AtomsHaveValue, Base, QuotesPublished, DebtIsBacked, DebtFits, Entry,
           NEW b \in Borrowers, Unhealthy(b)', ~capital_sweep_pending(borrow_positions[b]),
           oracle' = oracle, now' = now
    PROVE  Unhealthy(b)
  <1>1. ASSUME NEW s \in Suppliers, SupplierEntry(s) PROVE Unhealthy(b)
    <2>1. PICK m, r :
              /\ AccruesTo(m) /\ SupplyEffect(m, supply_positions[s], r) /\ SetSupply(s, r)
              /\ UNCHANGED environment
      BY <1>1, SMTT(20) DEF SupplierEntry
    <2>2. /\ market' = r.m /\ borrow_positions' = borrow_positions /\ config' = config
          /\ r.m \in Markets /\ r.m.vault.last_update = m.vault.last_update
          /\ r.m.vault.borrow = m.vault.borrow
      BY <2>1 DEF SetSupply, environment, SupplyEffect, SameFeesAndClock
    <2> QED BY <2>1, <2>2, UntouchedHealth DEF LimitKept
  <1>2. ASSUME NEW x \in Borrowers, BorrowerEntry(x) PROVE Unhealthy(b)
    <2>1. FairQuotes(oracle)
      BY <1>2, BorrowersAreVetted
    <2>2. PICK m, r :
              /\ Touches(x, m, r)
              /\ borrow_positions[x].swept # 0 \/ Vetted(m, borrow_positions[x], r)
      BY <1>2, BorrowersAreVetted
    <2>3. CASE x = b
      BY <2>1, <2>2, <2>3, OwnHealth, SMTT(20) DEF capital_sweep_pending
    <2>4. CASE x # b
      <3>1. AccruesTo(m) /\ market' = r.m /\ config' = config
        BY <2>2 DEF Touches, SetBorrow, environment
      <3>2. borrow_positions'[b] = borrow_positions[b]
        BY <2>2, <2>4, SMTT(20) DEF Touches, SetBorrow, Base, TypeOK
      <3>3. /\ market' \in Markets /\ market'.vault.last_update = m.vault.last_update
            /\ market'.vault.borrow.atoms_per_share = m.vault.borrow.atoms_per_share
        BY <2>2, <3>1 DEF Touches
      <3> QED BY <3>1, <3>2, <3>3, UntouchedHealth, SMTT(20) DEF LimitKept
    <2> QED BY <2>3, <2>4
  <1>3. ASSUME TreasuryEntry PROVE Unhealthy(b)
    <2>1. PICK m :
              /\ AccruesTo(m) /\ FeeEffect(m, market') /\ UNCHANGED positions
              /\ \/ config' = config
                 \/ /\ config' \in Configs /\ update_allowed(config.unhealthy_ltv, config')
                    /\ OraclesValid(config')
      BY <1>3 DEF TreasuryEntry
    <2>2. /\ market' \in Markets /\ borrow_positions' = borrow_positions
          /\ market'.vault.last_update = m.vault.last_update /\ market'.vault.borrow = m.vault.borrow
      BY <2>1 DEF FeeEffect, positions
    <2>3. LimitKept
      BY <2>1, QuotesAreFair DEF LimitKept, Base, update_allowed, update_ltv_allowed
    <2> QED BY <2>1, <2>2, <2>3, UntouchedHealth
  <1>4. ASSUME IdleEntry PROVE Unhealthy(b)
    BY <1>4 DEF IdleEntry, positions, Unhealthy, Synced
  <1> QED BY <1>1, <1>2, <1>3, <1>4, SMTT(20) DEF Entry
=============================================================================
